-------------------------- MODULE BisecTree_proofs --------------------------
(***************************************************************************)
(* The tree and the two modules over it.                                   *)
(* 1. Facts about the tree for any number of parts: its nodes, who is      *)
(*    above and below whom, and which leaves.                              *)
(* 2. Partition, for any entities, anywhere in the plane, and any number   *)
(*    of parts: every entity is in the box of its part, entities near each *)
(*    other meet, and the window of a bisection keeps the cuts that would  *)
(*    do.                                                                  *)
(* 3. SendTree, for any number of ranks and any series of roots: every     *)
(*    rank comes out of every call with the container of that call,        *)
(*    although calls run into each other and messages carry no number.     *)
(***************************************************************************)
EXTENDS Partition, SendTree, FiniteSetTheorems, TLAPS

-----------------------------------------------------------------------------
(* Numbers. *)

\* The minimal counterexample, for what other proofs do by induction.
LEMMA LeastNumber ==
  ASSUME NEW T, T \subseteq Nat, T # {}
  PROVE  \E n \in T : \A m \in T : n <= m
<1> DEFINE R == OpToRel(<, Nat)
<1>1. \A x, y \in Nat : <<y, x>> \in R <=> y < x
  BY DEF OpToRel
<1>2. IsWellFoundedOn(R, Nat)
  BY NatLessThanWellFounded
<1>3. PICK n \in T : \A m \in T : ~(<<m, n>> \in R)
  <2> HIDE DEF R
  <2> QED BY <1>2, WFMin
<1>4. n \in Nat /\ \A m \in T : m \in Nat /\ ~(m < n)
  BY <1>1, <1>3
<1> QED BY <1>4

LEMMA Product == ASSUME NEW a \in Int, NEW b \in Int, NEW m \in Nat, a <= b PROVE a * m <= b * m
OBVIOUS

LEMMA Products == ASSUME NEW a \in Int, NEW m \in Int PROVE (a + 1) * m = a * m + m /\ a * m \in Int
OBVIOUS

LEMMA Quotient ==
  ASSUME NEW a \in Nat, NEW m \in Nat \ {0}
  PROVE  a \div m \in Nat /\ (a \div m) * m <= a /\ a < (a \div m) * m + m
OBVIOUS

LEMMA QuotientIs ==
  ASSUME NEW a \in Nat, NEW m \in Nat \ {0}, NEW q \in Nat, q * m <= a, a < q * m + m
  PROVE  a \div m = q
<1> DEFINE p == a \div m
<1>1. p \in Nat /\ p * m <= a /\ a < p * m + m
  BY Quotient
<1> HIDE DEF p
<1>2. CASE p + 1 <= q
  <2>1. (p + 1) * m <= q * m
    BY <1>1, <1>2, Product
  <2> QED BY <1>1, <2>1, Products
<1>3. CASE q + 1 <= p
  <2>1. (q + 1) * m <= p * m
    BY <1>1, <1>3, Product
  <2> QED BY <1>1, <2>1, Products
<1> QED BY <1>1, <1>2, <1>3 DEF p

LEMMA PowerIsCount == ASSUME NEW n \in Nat PROVE 2^n = Cardinality(SUBSET (1 .. n)) /\ 2^n \in Nat
<1>1. IsFiniteSet(1 .. n) /\ Cardinality(1 .. n) = n
  BY FS_Interval
<1>2. IsFiniteSet(SUBSET (1 .. n)) /\ Cardinality(SUBSET (1 .. n)) = 2^n
  BY <1>1, FS_SUBSET
<1> QED BY <1>2, FS_CardinalityType

LEMMA PowerOfNext == ASSUME NEW n \in Nat PROVE 2^(n + 1) = 2 * 2^n
<1> DEFINE U == SUBSET (1 .. n + 1)
           A == SUBSET (1 .. n)
           B == {S \cup {n + 1} : S \in A}
           f == [S \in A |-> S \cup {n + 1}]
<1>1. U = A \cup B
  <2>1. ASSUME NEW S \in U, S \notin A PROVE S \in B
    <3>1. n + 1 \in S
      BY <2>1
    <3>2. S \ {n + 1} \in A /\ S = (S \ {n + 1}) \cup {n + 1}
      BY <3>1
    <3> QED BY <3>2
  <2>2. 1 .. n \subseteq 1 .. n + 1 /\ {n + 1} \subseteq 1 .. n + 1
    OBVIOUS
  <2>3. A \subseteq U
    BY <2>2
  <2>4. ASSUME NEW S \in A PROVE S \cup {n + 1} \in U
    BY <2>2, <2>3
  <2> HIDE DEF A, U
  <2> QED BY <2>1, <2>3, <2>4
<1>2. A \cap B = {}
  OBVIOUS
<1>3. f \in Bijection(A, B)
  <2>1. f \in Injection(A, B)
    <3>1. ASSUME NEW S \in A, NEW T \in A, f[S] = f[T] PROVE S = T
      <4>1. S = f[S] \ {n + 1} /\ T = f[T] \ {n + 1}
        OBVIOUS
      <4> QED BY <3>1, <4>1
    <3>2. f \in [A -> B]
      OBVIOUS
    <3> HIDE DEF f, A, B
    <3> QED BY <3>1, <3>2 DEF Injection, IsInjective
  <2>2. f \in Surjection(A, B)
    BY DEF Surjection
  <2> QED BY <2>1, <2>2 DEF Bijection
<1>4. IsFiniteSet(A)
  <2>1. IsFiniteSet(1 .. n)
    BY FS_Interval
  <2> QED BY <2>1, FS_SUBSET
<1>5. IsFiniteSet(B) /\ Cardinality(B) = Cardinality(A)
  BY <1>3, <1>4, FS_Bijection DEF ExistsBijection
<1>6. Cardinality(A \cup B) = Cardinality(A) + Cardinality(B) - Cardinality(A \cap B)
  BY <1>4, <1>5, FS_Union
<1>7. Cardinality({}) = 0
  BY FS_EmptySet
<1>8. 2^n = Cardinality(A) /\ 2^n \in Nat /\ 2^(n + 1) = Cardinality(A \cup B)
  <2>1. n + 1 \in Nat
    OBVIOUS
  <2>2. 2^(n + 1) = Cardinality(SUBSET (1 .. n + 1))
    BY <2>1, PowerIsCount
  <2>3. 2^n = Cardinality(A) /\ 2^n \in Nat
    BY PowerIsCount
  <2> QED BY <1>1, <2>2, <2>3
<1> HIDE DEF A, B, f
<1>9. Cardinality(A \cup B) = 2^n + 2^n - 0
  BY <1>2, <1>5, <1>6, <1>7, <1>8
<1> QED BY <1>8, <1>9

LEMMA PowerOfZero == 2^0 = 1
OBVIOUS

LEMMA PowerExceeds == ASSUME NEW n \in Nat PROVE n + 1 <= 2^n
<1> DEFINE T == {k \in Nat : ~(k + 1 <= 2^k)}
<1> SUFFICES ASSUME T # {} PROVE FALSE
  OBVIOUS
<1>1. PICK k \in T : \A m \in T : k <= m
  BY LeastNumber
<1>2. k # 0
  <2>1. k = 0 => 2^k = 1
    BY PowerOfZero, Zenon
  <2>2. ~(k + 1 <= 2^k)
    BY <1>1
  <2> QED BY <2>1, <2>2
<1>3. k - 1 \in Nat /\ k - 1 \notin T
  BY <1>1, <1>2
<1>4. 2^((k - 1) + 1) = 2 * 2^(k - 1) /\ (k - 1) + 1 = k
  BY <1>3, PowerOfNext
<1>5. k <= 2^(k - 1) /\ 2^(k - 1) \in Nat
  BY <1>3, PowerIsCount
<1>6. 2^k = 2 * 2^(k - 1)
  BY <1>4
<1>7. k \in Nat /\ ~(k + 1 <= 2^k)
  BY <1>1
<1> QED BY <1>2, <1>5, <1>6, <1>7

LEMMA Powers ==
  /\ 2^0 = 1
  /\ \A n \in Nat : 2^n \in Nat \ {0} /\ n <= 2^n /\ 2^(n + 1) = 2 * 2^n
<1>1. ASSUME NEW n \in Nat PROVE 2^n \in Nat \ {0} /\ n <= 2^n
  BY PowerExceeds, PowerIsCount
<1> QED BY <1>1, PowerOfNext, PowerOfZero

\* Halving twice as often.
LEMMA NextQuotient ==
  ASSUME NEW r \in Nat, NEW h \in Nat
  PROVE  r \div 2^(h + 1) = (r \div 2^h) \div 2
<1> DEFINE m == 2^h
           q == r \div m
           p == q \div 2
<1>1. m \in Nat \ {0} /\ 2^(h + 1) = 2 * m
  BY Powers
<1>2. q \in Nat /\ q * m <= r /\ r < q * m + m
  BY <1>1, Quotient
<1>3. p \in Nat /\ (q = 2 * p \/ q = 2 * p + 1)
  <2> HIDE DEF q
  <2> QED BY <1>2
<1> HIDE DEF m, q, p
<1>4. p * (2 * m) = (2 * p) * m /\ (2 * p) * m \in Nat /\ (2 * p + 1) * m = (2 * p) * m + m
  BY <1>1, <1>3
<1>5. p * (2 * m) <= r /\ r < p * (2 * m) + 2 * m
  BY <1>1, <1>2, <1>3, <1>4
<1>6. r \div (2 * m) = p
  BY <1>1, <1>3, <1>5, QuotientIs
<1> QED BY <1>1, <1>6 DEF p, q, m

LEMMA Halves == ASSUME NEW i \in Nat PROVE (2 * i) \div 2 = i /\ (2 * i + 1) \div 2 = i
OBVIOUS

LEMMA AncestorIs ==
  ASSUME NEW r \in Nat, NEW h \in Nat, NEW i \in Nat, i * 2^h = r PROVE r \div 2^h = i
<1>1. 2^h \in Nat \ {0}
  BY Powers
<1> QED BY <1>1, QuotientIs

-----------------------------------------------------------------------------
(* The tree of n parts. *)

LEMMA TopFacts ==
  ASSUME NEW n \in Nat \ {0}
  PROVE  Top(n) \in Nat /\ n <= 2^Top(n)
<1> DEFINE T == {k \in 0 .. n : 2^k >= n}
<1>1. 2^n >= n /\ \A k \in Nat : 2^k \in Nat
  BY Powers
<1>2. n \in T /\ T \subseteq Nat
  BY <1>1
<1>3. \E k \in T : \A m \in T : k <= m
  <2> HIDE DEF T
  <2> QED BY <1>2, LeastNumber
<1>4. Top(n) \in T
  BY <1>3 DEF Top, Min
<1>5. 2^Top(n) \in Nat /\ 2^Top(n) >= n
  BY <1>1, <1>4
<1> QED BY <1>4, <1>5

\* A node is there if a part is below it.
LEMMA WidthFacts ==
  ASSUME NEW n \in Nat \ {0}, NEW h \in Nat
  PROVE  /\ Width(n, h) \in Nat
         /\ \A i \in Nat : i < Width(n, h) <=> i * 2^h < n
<1> DEFINE m == 2^h
           w == (n + m - 1) \div m
<1>1. m \in Nat \ {0}
  BY Powers
<1>2. n + m - 1 \in Nat
  BY <1>1
<1>3. w \in Nat /\ w * m <= n + m - 1 /\ n + m - 1 < w * m + m
  <2> DEFINE a == n + m - 1
  <2> HIDE DEF m, a
  <2>1. a \div m \in Nat /\ (a \div m) * m <= a /\ a < (a \div m) * m + m
    BY <1>1, <1>2, Quotient DEF a
  <2> QED BY <2>1 DEF a
<1> HIDE DEF m, w
<1>4. ASSUME NEW i \in Nat, i < w PROVE i * m < n
  <2>1. (i + 1) * m <= w * m
    BY <1>1, <1>3, <1>4, Product
  <2> QED BY <1>1, <1>3, <2>1, Products
<1>5. ASSUME NEW i \in Nat, w <= i PROVE ~(i * m < n)
  <2>1. w * m <= i * m
    BY <1>1, <1>3, <1>5, Product
  <2> QED BY <1>1, <1>3, <2>1, Products
<1>6. ASSUME NEW i \in Nat PROVE i < w <=> i * m < n
  BY <1>3, <1>4, <1>5
<1> QED BY <1>3, <1>6 DEF Width, m, w

LEMMA NodeIs ==
  ASSUME NEW n \in Nat \ {0}
  PROVE  /\ \A x \in Nodes(n) : /\ x = <<x[1], x[2]>> /\ x[1] \in 0 .. Top(n) /\ x[2] \in Nat
                                /\ x[2] * 2^x[1] < n
         /\ \A h \in 0 .. Top(n), i \in Nat : i * 2^h < n => <<h, i>> \in Nodes(n)
<1>1. Top(n) \in Nat
  BY TopFacts
<1>2. ASSUME NEW h \in 0 .. Top(n), NEW x \in Level(n, h)
      PROVE  x = <<h, x[2]>> /\ x[2] \in Nat /\ x[2] * 2^h < n /\ x[1] = h
  <2>1. PICK i \in 0 .. Width(n, h) - 1 : x = <<h, i>>
    BY DEF Level
  <2>2. Width(n, h) \in Nat
    BY <1>1, WidthFacts
  <2>3. i \in Nat /\ i < Width(n, h)
    BY <2>2
  <2> QED BY <1>1, <2>1, <2>3, WidthFacts
<1>3. ASSUME NEW x \in Nodes(n)
      PROVE  x = <<x[1], x[2]>> /\ x[1] \in 0 .. Top(n) /\ x[2] \in Nat /\ x[2] * 2^x[1] < n
  <2>1. PICK h \in 0 .. Top(n) : x \in Level(n, h)
    BY DEF Nodes
  <2> QED BY <1>2, <2>1
<1>4. ASSUME NEW h \in 0 .. Top(n), NEW i \in Nat, i * 2^h < n PROVE <<h, i>> \in Nodes(n)
  <2>1. i < Width(n, h) /\ Width(n, h) \in Nat
    BY <1>1, <1>4, WidthFacts
  <2>2. <<h, i>> \in Level(n, h)
    BY <2>1 DEF Level
  <2> QED BY <2>2 DEF Nodes
<1> QED BY <1>3, <1>4

LEMMA TopNode ==
  ASSUME NEW n \in Nat \ {0}
  PROVE  /\ <<Top(n), 0>> \in Nodes(n)
         /\ \A x \in Nodes(n) : x[1] = Top(n) => x = <<Top(n), 0>>
<1>1. Top(n) \in Nat /\ n <= 2^Top(n) /\ 2^Top(n) \in Nat \ {0}
  BY TopFacts, Powers
<1>2. <<Top(n), 0>> \in Nodes(n)
  <2>1. 0 * 2^Top(n) = 0
    BY <1>1
  <2> QED BY <1>1, <2>1, NodeIs
<1>3. ASSUME NEW x \in Nodes(n), x[1] = Top(n) PROVE x = <<Top(n), 0>>
  <2>1. x = <<x[1], x[2]>> /\ x[2] \in Nat /\ x[2] * 2^Top(n) < n
    BY <1>3, NodeIs
  <2>2. CASE x[2] >= 1
    <3>1. 1 * 2^Top(n) <= x[2] * 2^Top(n)
      BY <1>1, <2>1, <2>2, Product
    <3> QED BY <1>1, <2>1, <3>1
  <2> QED BY <1>3, <2>1, <2>2
<1> QED BY <1>2, <1>3

\* Children and parents.
LEMMA Below ==
  ASSUME NEW n \in Nat \ {0}, NEW x \in Nodes(n), x[1] > 0
  PROVE  /\ left(x) \in Nodes(n)
         /\ HasRight(n, x) <=> right(x) \in Nodes(n)
         /\ root(left(x)) = x /\ root(right(x)) = x
         /\ left(x)[1] = x[1] - 1 /\ right(x)[1] = x[1] - 1 /\ left(x) # right(x)
<1>1. /\ x = <<x[1], x[2]>> /\ x[1] \in 0 .. Top(n) /\ x[2] \in Nat /\ x[2] * 2^x[1] < n
      /\ Top(n) \in Nat
  BY NodeIs, TopFacts
<1> DEFINE h == x[1] - 1
           i == x[2]
<1>2. h \in 0 .. Top(n) /\ h \in Nat /\ h + 1 = x[1]
  BY <1>1
<1>3. 2^h \in Nat \ {0} /\ 2^x[1] = 2 * 2^h
  BY <1>2, Powers
<1>4. left(x) \in Nodes(n)
  <2>1. (2 * i) * 2^h = i * (2 * 2^h)
    BY <1>1, <1>3
  <2>2. (2 * i) * 2^h < n /\ 2 * i \in Nat
    BY <1>1, <1>3, <2>1
  <2>3. <<h, 2 * i>> \in Nodes(n)
    BY <1>2, <2>2, NodeIs
  <2> QED BY <2>3 DEF left
<1>5. HasRight(n, x) <=> right(x) \in Nodes(n)
  <2> DEFINE j == 2 * i + 1
  <2>1. j \in Nat
    BY <1>1
  <2>2. right(x) = <<h, j>>
    BY DEF right
  <2> HIDE DEF h, j
  <2>3. j < Width(n, h) <=> j * 2^h < n
    BY <1>2, <2>1, WidthFacts
  <2>4. <<h, j>> \in Nodes(n) => j * 2^h < n
    BY NodeIs
  <2>5. j * 2^h < n => <<h, j>> \in Nodes(n)
    BY <1>2, <2>1, NodeIs
  <2> QED BY <2>2, <2>3, <2>4, <2>5 DEF HasRight, h, j
<1>6. root(left(x)) = x /\ root(right(x)) = x
  <2>1. (2 * i) \div 2 = i /\ (2 * i + 1) \div 2 = i
    BY <1>1, Halves
  <2>2. (x[1] - 1) + 1 = x[1]
    BY <1>1
  <2> QED BY <1>1, <2>1, <2>2 DEF root, left, right
<1>7. left(x)[1] = x[1] - 1 /\ right(x)[1] = x[1] - 1 /\ left(x) # right(x)
  BY <1>1 DEF left, right
<1> QED BY <1>4, <1>5, <1>6, <1>7

LEMMA Above ==
  ASSUME NEW n \in Nat \ {0}, NEW x \in Nodes(n), x[1] < Top(n)
  PROVE  /\ root(x) \in Nodes(n) /\ root(x)[1] = x[1] + 1
         /\ x = left(root(x)) \/ (x = right(root(x)) /\ HasRight(n, root(x)))
<1>1. /\ x = <<x[1], x[2]>> /\ x[1] \in 0 .. Top(n) /\ x[2] \in Nat /\ x[2] * 2^x[1] < n
      /\ Top(n) \in Nat
  BY NodeIs, TopFacts
<1> DEFINE h == x[1] + 1
           i == x[2] \div 2
<1>2. h \in 0 .. Top(n) /\ x[1] \in Nat /\ h \in Nat
  BY <1>1
<1>3. 2^x[1] \in Nat \ {0} /\ 2^h = 2 * 2^x[1]
  BY <1>2, Powers
<1>4. i \in Nat /\ (x[2] = 2 * i \/ x[2] = 2 * i + 1)
  BY <1>1
<1>5. root(x) \in Nodes(n)
  <2>1. i * (2 * 2^x[1]) = (2 * i) * 2^x[1]
    BY <1>3, <1>4
  <2>2. (2 * i) * 2^x[1] <= x[2] * 2^x[1]
    BY <1>1, <1>3, <1>4, Product
  <2> HIDE DEF i
  <2>3. i * 2^h < n
    BY <1>1, <1>3, <1>4, <2>1, <2>2
  <2>4. <<h, i>> \in Nodes(n)
    BY <1>2, <1>4, <2>3, NodeIs
  <2> QED BY <2>4 DEF root, i
<1>6. x = left(root(x)) \/ x = right(root(x))
  BY <1>1, <1>4 DEF root, left, right
<1>7. root(x)[1] = x[1] + 1 /\ root(x)[1] > 0
  BY <1>1 DEF root
<1> QED BY <1>5, <1>6, <1>7, Below

LEMMA LeafIsNode ==
  ASSUME NEW n \in Nat \ {0}, NEW r \in 0 .. n - 1 PROVE Leaf(r) \in Nodes(n)
<1>1. Top(n) \in Nat /\ r \in Nat /\ r * 2^0 < n
  <2>1. r * 1 = r
    OBVIOUS
  <2> QED BY <2>1, TopFacts, PowerOfZero
<1>2. 0 \in 0 .. Top(n)
  BY <1>1
<1> QED BY <1>1, <1>2, NodeIs DEF Leaf

\* The node above leaf r at level h.
Ancestor(r, h) == <<h, r \div 2^h>>

LEMMA Ancestors ==
  ASSUME NEW n \in Nat \ {0}, NEW r \in 0 .. n - 1, NEW h \in 0 .. Top(n)
  PROVE  /\ Ancestor(r, h) \in Nodes(n)
         /\ Ancestor(r, h)[1] = h
         /\ h < Top(n) => root(Ancestor(r, h)) = Ancestor(r, h + 1)
         /\ Ancestor(r, 0) = Leaf(r)
         /\ Ancestor(r, Top(n)) = <<Top(n), 0>>
<1>1. Top(n) \in Nat /\ h \in Nat /\ r \in Nat
  BY TopFacts
<1>2. 2^h \in Nat \ {0}
  BY <1>1, Powers
<1>3. /\ r \div 2^h \in Nat /\ (r \div 2^h) * 2^h <= r
  BY <1>1, <1>2, Quotient
<1>4. Ancestor(r, h) \in Nodes(n)
  <2> DEFINE q == r \div 2^h
             m == 2^h
  <2>1. q \in Nat /\ m \in Nat /\ q * m <= r
    BY <1>2, <1>3
  <2> HIDE DEF q, m
  <2>2. q * m < n
    BY <2>1
  <2> QED BY <2>1, <2>2, NodeIs DEF Ancestor, q, m
<1>5. root(Ancestor(r, h)) = Ancestor(r, h + 1)
  BY <1>1, NextQuotient DEF root, Ancestor
<1>6. Ancestor(r, 0) = Leaf(r)
  <2>1. r \div 1 = r
    BY <1>1
  <2> QED BY <2>1, PowerOfZero DEF Ancestor, Leaf
<1>7. Ancestor(r, Top(n)) = <<Top(n), 0>>
  <2>1. r < 2^Top(n) /\ 2^Top(n) \in Nat \ {0}
    BY <1>1, TopFacts, Powers
  <2> DEFINE m == 2^Top(n)
  <2>2. 0 * m <= r /\ r < 0 * m + m
    BY <1>1, <2>1
  <2> HIDE DEF m
  <2>3. r \div m = 0
    BY <1>1, <2>1, <2>2, QuotientIs DEF m
  <2> QED BY <2>3 DEF Ancestor, m
<1> QED BY <1>4, <1>5, <1>6, <1>7 DEF Ancestor

-----------------------------------------------------------------------------
(***************************************************************************)
(* The inductive invariant of Partition. Nodes are cut from the top, a     *)
(* level after the other, each from the left; a node is placed once its    *)
(* parent was cut.                                                         *)
(***************************************************************************)
Boxes == [lo : [Axes -> Int], hi : [Axes -> Int]]
top == <<Top(nParts), 0>>
Before(x, y) == x[1] > y[1] \/ (x[1] = y[1] /\ x[2] < y[2])
Placed(x) == x = top \/ Before(root(x), node)

Solid(b) == b \in Boxes /\ \A d \in Axes : b.lo[d] <= b.hi[d]

AxesLeft == {<<>>, <<1>>, <<2>>, <<1, 2>>, <<2, 1>>}
Windows == [at : Int, n : Nat \X Nat, min : Int, max : Int, prev : Int, same : Int]

Types ==
  /\ coord \in Layouts /\ nParts \in PartCounts /\ ghostLen \in GhostLens
  /\ \E x \in Nodes(nParts) : todo = <<x>>
  /\ box \in [Nodes(nParts) -> Boxes]
  /\ ghostBox \in [Nodes(nParts) -> Boxes]
  /\ axes \in AxesLeft
  /\ cut \in Windows
  /\ axes # <<>> => node[1] > 0 /\ HasRight(nParts, node)

\* Placed nodes have a box and, if a cut was found, a wider one for ghosts; no other has any.
PlacedBoxes ==
  \A x \in Nodes(nParts) :
    IF Placed(x) THEN Solid(box[x]) /\ ghostBox[x] \in {Empty, Expanded(box[x], ghostLen)}
                 ELSE ghostBox[x] = Empty

\* No entity is lost between the boxes of two children.
Splits(x) ==
  \A e \in Entities :
    contains(box[x], coord[e]) =>
      \/ contains(box[left(x)], coord[e])
      \/ HasRight(nParts, x) /\ contains(box[right(x)], coord[e])
CutsKeepEntities == \A x \in Nodes(nParts) : x[1] > 0 /\ Before(x, node) => Splits(x)
TopHasAll == \A e \in Entities : contains(box[top], coord[e])

\* Below the window a cut leaves too few entities on the left, above it too many.
WindowFor(b, d, w) ==
  /\ b.lo[d] <= w.min /\ w.min <= w.at /\ w.at <= w.max /\ w.max <= b.hi[d]
  /\ w.n = CountEntities(b, d, w.at)
  /\ \A c \in b.lo[d] .. b.hi[d] :
       /\ c < w.min => TooFew(CountEntities(b, d, c))
       /\ c > w.max => TooMany(CountEntities(b, d, c))
WindowHolds == axes # <<>> => WindowFor(box[node], Head(axes), cut)

\* Parts come last, and stay.
PartsLast == parts # <<>> => node[1] = 0 /\ axes = <<>>

Machine == Types /\ PlacedBoxes /\ CutsKeepEntities /\ TopHasAll /\ WindowHolds
PartitionIInv == Machine /\ PartsLast /\ OwnedInBox /\ NearEntitiesMeet

-----------------------------------------------------------------------------
(* Boxes. *)

LEMMA BoxFields ==
  ASSUME NEW b \in Boxes
  PROVE  /\ b = [lo |-> b.lo, hi |-> b.hi]
         /\ b.lo \in [Axes -> Int] /\ b.hi \in [Axes -> Int]
         /\ \A d \in Axes : b.lo[d] \in Int /\ b.hi[d] \in Int
BY DEF Boxes

LEMMA LeftBox ==
  ASSUME NEW b \in Boxes, NEW d \in Axes, NEW c \in Int
  PROVE  /\ LeftOf(b, d, c) \in Boxes /\ LeftOf(b, d, c).lo = b.lo
         /\ \A a \in Axes : LeftOf(b, d, c).hi[a] = IF a = d THEN c ELSE b.hi[a]
<1>1. LeftOf(b, d, c) = [lo |-> b.lo, hi |-> [b.hi EXCEPT ![d] = c]]
  BY BoxFields DEF LeftOf
<1> QED BY <1>1, BoxFields DEF Boxes

LEMMA RightBox ==
  ASSUME NEW b \in Boxes, NEW d \in Axes, NEW c \in Int
  PROVE  /\ RightOf(b, d, c) \in Boxes /\ RightOf(b, d, c).hi = b.hi
         /\ \A a \in Axes : RightOf(b, d, c).lo[a] = IF a = d THEN c ELSE b.lo[a]
<1>1. RightOf(b, d, c) = [lo |-> [b.lo EXCEPT ![d] = c], hi |-> b.hi]
  BY BoxFields DEF RightOf
<1> QED BY <1>1, BoxFields DEF Boxes

LEMMA ExpandedBox ==
  ASSUME NEW b \in Boxes, NEW len \in Int
  PROVE  /\ Expanded(b, len) \in Boxes
         /\ \A a \in Axes : /\ Expanded(b, len).lo[a] = b.lo[a] - len
                           /\ Expanded(b, len).hi[a] = b.hi[a] + len
BY BoxFields DEF Expanded, Boxes

LEMMA EmptyBox == Empty \in Boxes
BY DEF Empty, Boxes, Axes

\* Cut within its range, a box stays one, and loses no point.
LEMMA HalvesOfBox ==
  ASSUME NEW b, Solid(b), NEW d \in Axes, NEW c \in Int, b.lo[d] <= c, c <= b.hi[d]
  PROVE  /\ Solid(LeftOf(b, d, c)) /\ Solid(RightOf(b, d, c))
         /\ \A p \in [Axes -> Int] :
              contains(b, p) => contains(LeftOf(b, d, c), p) \/ contains(RightOf(b, d, c), p)
<1> DEFINE l == LeftOf(b, d, c)
           r == RightOf(b, d, c)
<1>1. b \in Boxes /\ \A a \in Axes : b.lo[a] \in Int /\ b.hi[a] \in Int /\ b.lo[a] <= b.hi[a]
  BY BoxFields DEF Solid
<1>2. /\ l \in Boxes /\ l.lo = b.lo
      /\ \A a \in Axes : l.hi[a] = IF a = d THEN c ELSE b.hi[a]
  BY <1>1, LeftBox
<1>3. /\ r \in Boxes /\ r.hi = b.hi
      /\ \A a \in Axes : r.lo[a] = IF a = d THEN c ELSE b.lo[a]
  BY <1>1, RightBox
<1> HIDE DEF l, r
<1>4. Solid(l) /\ Solid(r)
  BY <1>1, <1>2, <1>3 DEF Solid
<1>5. ASSUME NEW p \in [Axes -> Int], contains(b, p)
      PROVE  contains(l, p) \/ contains(r, p)
  <2>1. p[d] \in Int /\ \A a \in Axes : b.lo[a] <= p[a] /\ p[a] <= b.hi[a]
    BY <1>5 DEF contains
  <2>2. p[d] <= c => contains(l, p)
    BY <1>2, <2>1 DEF contains
  <2>3. c <= p[d] => contains(r, p)
    BY <1>3, <2>1 DEF contains
  <2> QED BY <2>1, <2>2, <2>3
<1> QED BY <1>4, <1>5 DEF l, r

-----------------------------------------------------------------------------
(* The box of everything. *)

\* Every finite set of numbers has a least one.
LEMMA FiniteLeast ==
  ASSUME NEW S, IsFiniteSet(S), S # {}, NEW f \in [S -> Int]
  PROVE  \E s \in S : \A t \in S : f[s] <= f[t]
<1>1. PICK n \in Nat : ExistsSurjection(1 .. n, S)
  BY FS_NatSurjection
<1>2. PICK g \in [1 .. n -> S] : \A t \in S : \E i \in 1 .. n : g[i] = t
  BY <1>1 DEF ExistsSurjection, Surjection
<1>3. n >= 1
  BY <1>2
<1> DEFINE LeastUpTo(k) == \E j \in 1 .. k : \A i \in 1 .. k : f[g[j]] <= f[g[i]]
           Bad == {k \in Nat : 1 <= k /\ k <= n /\ ~LeastUpTo(k)}
<1>4. Bad = {}
  <2> SUFFICES ASSUME Bad # {} PROVE FALSE
    OBVIOUS
  <2>1. PICK k \in Bad : \A m \in Bad : k <= m
    <3> HIDE DEF Bad
    <3>1. Bad \subseteq Nat
      BY DEF Bad
    <3> QED BY <3>1, LeastNumber
  <2>2. k \in Nat /\ 1 <= k /\ k <= n /\ ~LeastUpTo(k)
    OBVIOUS
  <2>3. \A i \in 1 .. k : f[g[i]] \in Int
    BY <1>2, <2>2
  <2>4. k # 1
    BY <2>2, <2>3
  <2>5. k - 1 \in Nat /\ 1 <= k - 1 /\ k - 1 <= n /\ ~(k <= k - 1)
    BY <2>2, <2>4
  <2>6. PICK j \in 1 .. k - 1 : \A i \in 1 .. k - 1 : f[g[j]] <= f[g[i]]
    <3>1. k - 1 \notin Bad
      BY <2>1, <2>5, Zenon
    <3>2. LeastUpTo(k - 1)
      BY <2>5, <3>1
    <3> QED BY <3>2
  <2>7. j \in 1 .. k /\ k \in 1 .. k
    BY <2>2, <2>6
  <2>8. CASE f[g[j]] <= f[g[k]]
    <3>1. \A i \in 1 .. k : i = k \/ i \in 1 .. k - 1
      BY <2>2
    <3>2. \A i \in 1 .. k : f[g[j]] <= f[g[i]]
      BY <2>6, <2>8, <3>1
    <3> QED BY <2>2, <2>7, <3>2
  <2>9. CASE f[g[k]] <= f[g[j]]
    <3>1. \A i \in 1 .. k : i = k \/ i \in 1 .. k - 1
      BY <2>2
    <3>2. ASSUME NEW i \in 1 .. k PROVE f[g[k]] <= f[g[i]]
      <4>1. CASE i = k
        BY <2>3, <2>7, <4>1
      <4>2. CASE i \in 1 .. k - 1
        <5>1. f[g[j]] <= f[g[i]] /\ f[g[j]] \in Int /\ f[g[k]] \in Int /\ f[g[i]] \in Int
          BY <2>3, <2>6, <2>7, <4>2
        <5> QED BY <2>9, <5>1
      <4> QED BY <3>1, <4>1, <4>2
    <3> QED BY <2>2, <2>7, <3>2
  <2> QED BY <2>3, <2>7, <2>8, <2>9
<1>5. LeastUpTo(n)
  <2>1. n \notin Bad
    BY <1>4
  <2> QED BY <1>3, <2>1
<1>6. PICK j \in 1 .. n : \A i \in 1 .. n : f[g[j]] <= f[g[i]]
  BY <1>5
<1>7. \A t \in S : f[g[j]] <= f[t]
  BY <1>2, <1>6
<1> QED BY <1>2, <1>7

LEMMA MinMax ==
  ASSUME NEW S, IsFiniteSet(S), S # {}, S \subseteq Int
  PROVE  /\ Min(S) \in S /\ \A y \in S : Min(S) <= y
         /\ Max(S) \in S /\ \A y \in S : y <= Max(S)
<1>1. \E x \in S : \A y \in S : x <= y
  <2> DEFINE f == [s \in S |-> s]
  <2>1. f \in [S -> Int]
    OBVIOUS
  <2>2. \A s \in S : f[s] = s
    OBVIOUS
  <2> HIDE DEF f
  <2>3. PICK s \in S : \A t \in S : f[s] <= f[t]
    BY <2>1, FiniteLeast
  <2> QED BY <2>2, <2>3
<1>2. \E x \in S : \A y \in S : x >= y
  <2> DEFINE f == [s \in S |-> -s]
  <2>1. f \in [S -> Int]
    OBVIOUS
  <2>2. \A s \in S : s \in Int /\ f[s] = -s
    OBVIOUS
  <2> HIDE DEF f
  <2>3. PICK s \in S : \A t \in S : f[s] <= f[t]
    BY <2>1, FiniteLeast
  <2> QED BY <2>2, <2>3
<1>3. Min(S) \in S /\ \A y \in S : Min(S) <= y
  BY <1>1 DEF Min
<1>4. Max(S) \in S /\ \A y \in S : Max(S) >= y
  BY <1>2 DEF Max
<1>5. \A y \in S : y <= Max(S)
  BY <1>4
<1> QED BY <1>3, <1>4, <1>5

LEMMA Places ==
  ASSUME coord \in Layouts
  PROVE  \A e \in Entities : coord[e] \in [Axes -> Int]
<1>1. coord \in [Entities -> Int \X Int]
  BY PartitionAssumption
<1>2. ASSUME NEW e \in Entities PROVE coord[e] \in [Axes -> Int]
  <2>1. coord[e] \in Int \X Int
    BY <1>1
  <2> QED BY <2>1 DEF Axes
<1> QED BY <1>2

LEMMA WholeBox ==
  ASSUME coord \in Layouts
  PROVE  /\ Solid(DomainBoundingBox)
         /\ \A e \in Entities : contains(DomainBoundingBox, coord[e])
<1>1. ASSUME NEW d \in Axes
      PROVE  LET S == {coord[e][d] : e \in Entities}
             IN /\ Min(S) \in Int /\ Max(S) \in Int /\ Min(S) <= Max(S)
                /\ \A e \in Entities : Min(S) <= coord[e][d] /\ coord[e][d] <= Max(S)
  <2> DEFINE f == [e \in Entities |-> coord[e][d]]
             S == {coord[e][d] : e \in Entities}
  <2>1. IsFiniteSet(S)
    <3>1. f \in Surjection(Entities, S)
      BY DEF Surjection
    <3> HIDE DEF f, S
    <3> QED BY <3>1, PartitionAssumption, FS_Surjection
  <2>2. S # {} /\ S \subseteq Int
    BY PartitionAssumption, Places
  <2>3. \A e \in Entities : coord[e][d] \in S
    OBVIOUS
  <2> HIDE DEF S
  <2>4. /\ Min(S) \in S /\ \A y \in S : Min(S) <= y
        /\ Max(S) \in S /\ \A y \in S : y <= Max(S)
    BY <2>1, <2>2, MinMax
  <2>5. Min(S) \in Int /\ Max(S) \in Int /\ Min(S) <= Max(S)
    BY <2>2, <2>4
  <2> QED BY <2>3, <2>4, <2>5 DEF S
<1>2. /\ DomainBoundingBox \in Boxes
      /\ \A d \in Axes : /\ DomainBoundingBox.lo[d] = Min({coord[e][d] : e \in Entities})
                        /\ DomainBoundingBox.hi[d] = Max({coord[e][d] : e \in Entities})
  BY <1>1 DEF DomainBoundingBox, Boxes
<1> QED BY <1>1, <1>2 DEF Solid, contains
-----------------------------------------------------------------------------
(* Counts. *)

LEMMA Counts ==
  ASSUME coord \in Layouts, NEW b \in Boxes, NEW d \in Axes, NEW c \in Int, b.lo[d] <= c, c <= b.hi[d]
  PROVE  /\ CountEntities(b, d, c) \in Nat \X Nat
         /\ CountEntities(b, d, c)[1] = Cardinality({e \in Entities : contains(LeftOf(b, d, c), coord[e])})
         /\ CountEntities(b, d, c)[1] + CountEntities(b, d, c)[2]
              = Cardinality({e \in Entities : contains(b, coord[e])})
<1> DEFINE lefts == {e \in Entities : contains(LeftOf(b, d, c), coord[e])}
           rights == {e \in Entities \ lefts : contains(RightOf(b, d, c), coord[e])}
           all == {e \in Entities : contains(b, coord[e])}
<1>1. \A a \in Axes : b.lo[a] \in Int /\ b.hi[a] \in Int
  BY BoxFields
<1>2. \A e \in Entities : \A a \in Axes : coord[e][a] \in Int
  BY Places
<1>3. ASSUME NEW e \in Entities PROVE e \in lefts \cup rights <=> e \in all
  <2> DEFINE l == LeftOf(b, d, c)
             r == RightOf(b, d, c)
  <2>1. l.lo = b.lo /\ \A a \in Axes : l.hi[a] = IF a = d THEN c ELSE b.hi[a]
    BY LeftBox
  <2>2. r.hi = b.hi /\ \A a \in Axes : r.lo[a] = IF a = d THEN c ELSE b.lo[a]
    BY RightBox
  <2> HIDE DEF l, r
  <2>3. contains(b, coord[e]) <=> contains(l, coord[e]) \/ contains(r, coord[e])
    BY <1>1, <1>2, <2>1, <2>2 DEF contains
  <2> QED BY <2>3 DEF l, r
<1>4. lefts \cup rights = all /\ lefts \cap rights = {} /\ lefts \subseteq Entities /\ rights \subseteq Entities
  BY <1>3
<1>5. CountEntities(b, d, c) = <<Cardinality(lefts), Cardinality(rights)>>
  BY DEF CountEntities
<1> HIDE DEF lefts, rights, all
<1>6. IsFiniteSet(lefts) /\ IsFiniteSet(rights)
  BY <1>4, PartitionAssumption, FS_Subset
<1>7. Cardinality(lefts) \in Nat /\ Cardinality(rights) \in Nat
  BY <1>6, FS_CardinalityType
<1>8. Cardinality(all) = Cardinality(lefts) + Cardinality(rights) - Cardinality({})
  BY <1>4, <1>6, FS_Union
<1>9. Cardinality({}) = 0
  BY FS_EmptySet
<1> QED BY <1>5, <1>7, <1>8, <1>9 DEF lefts, all

LEMMA CountsGrow ==
  ASSUME coord \in Layouts, NEW b \in Boxes, NEW d \in Axes, NEW c \in Int, NEW k \in Int,
         b.lo[d] <= c, c <= k, k <= b.hi[d]
  PROVE  /\ CountEntities(b, d, c)[1] <= CountEntities(b, d, k)[1]
         /\ CountEntities(b, d, c)[1] + CountEntities(b, d, c)[2]
              = CountEntities(b, d, k)[1] + CountEntities(b, d, k)[2]
<1> DEFINE lefts == {e \in Entities : contains(LeftOf(b, d, c), coord[e])}
           more == {e \in Entities : contains(LeftOf(b, d, k), coord[e])}
<1>1. \A a \in Axes : b.lo[a] \in Int /\ b.hi[a] \in Int
  BY BoxFields
<1>2. ASSUME NEW e \in Entities, contains(LeftOf(b, d, c), coord[e])
      PROVE  contains(LeftOf(b, d, k), coord[e])
  <2> DEFINE l == LeftOf(b, d, c)
             m == LeftOf(b, d, k)
  <2>1. \A a \in Axes : coord[e][a] \in Int
    BY Places
  <2>2. l.lo = b.lo /\ \A a \in Axes : l.hi[a] = IF a = d THEN c ELSE b.hi[a]
    BY LeftBox
  <2>3. m.lo = b.lo /\ \A a \in Axes : m.hi[a] = IF a = d THEN k ELSE b.hi[a]
    BY LeftBox
  <2>4. contains(l, coord[e])
    BY <1>2
  <2> HIDE DEF l, m
  <2>5. contains(m, coord[e])
    BY <1>1, <2>1, <2>2, <2>3, <2>4 DEF contains
  <2> QED BY <2>5 DEF m
<1>3. lefts \subseteq more /\ more \subseteq Entities
  BY <1>2
<1>4. c <= b.hi[d] /\ b.lo[d] <= k
  BY <1>1
<1>5. CountEntities(b, d, c)[1] = Cardinality(lefts) /\ CountEntities(b, d, k)[1] = Cardinality(more)
  BY <1>4, Counts
<1>6. Cardinality(lefts) <= Cardinality(more)
  <2> HIDE DEF lefts, more
  <2>1. IsFiniteSet(more)
    BY <1>3, PartitionAssumption, FS_Subset
  <2> QED BY <1>3, <2>1, FS_Subset
<1> QED BY <1>4, <1>5, <1>6, Counts

LEMMA DesiredParts ==
  ASSUME nParts \in Nat \ {0}, NEW x \in Nodes(nParts), x[1] > 0
  PROVE  /\ Desired(x) \in Nat \ {0} /\ Desired(left(x)) \in Nat \ {0}
         /\ Desired(left(x)) <= Desired(x)
<1>1. ASSUME NEW y \in Nodes(nParts) PROVE IsFiniteSet(Leaves(nParts, y)) /\ Desired(y) \in Nat \ {0}
  <2>1. y[1] \in Nat /\ y[2] \in Nat /\ y[2] * 2^y[1] < nParts
    BY NodeIs, TopFacts
  <2> DEFINE p == y[2] * 2^y[1]
  <2>2. 2^y[1] \in Nat
    BY <2>1, Powers
  <2>3. p \in Nat /\ p \in 0 .. nParts - 1
    BY <2>1, <2>2
  <2>4. p \div 2^y[1] = y[2]
    BY <2>1, <2>3, AncestorIs
  <2>5. p \in Leaves(nParts, y)
    BY <2>3, <2>4 DEF Leaves
  <2>6. Leaves(nParts, y) \subseteq 0 .. nParts - 1 /\ IsFiniteSet(0 .. nParts - 1)
    BY FS_Interval DEF Leaves
  <2>7. IsFiniteSet(Leaves(nParts, y))
    BY <2>6, FS_Subset
  <2>8. Cardinality(Leaves(nParts, y)) \in Nat /\ Cardinality(Leaves(nParts, y)) # 0
    BY <2>5, <2>7, FS_CardinalityType, FS_EmptySet
  <2> QED BY <2>7, <2>8 DEF Desired
<1>2. left(x) \in Nodes(nParts)
  BY Below
<1>3. Leaves(nParts, left(x)) \subseteq Leaves(nParts, x)
  <2> SUFFICES ASSUME NEW p \in 0 .. nParts - 1, p \div 2^(x[1] - 1) = 2 * x[2] PROVE p \div 2^x[1] = x[2]
    BY DEF Leaves, left
  <2>1. x[1] - 1 \in Nat /\ (x[1] - 1) + 1 = x[1] /\ x[2] \in Nat
    BY NodeIs, TopFacts
  <2>2. p \div 2^((x[1] - 1) + 1) = (2 * x[2]) \div 2
    <3>1. p \div 2^((x[1] - 1) + 1) = (p \div 2^(x[1] - 1)) \div 2
      <4>1. p \in Nat
        OBVIOUS
      <4> QED BY <2>1, <4>1, NextQuotient
    <3> QED BY <3>1
  <2> QED BY <2>1, <2>2, Halves
<1>4. Desired(left(x)) <= Desired(x)
  BY <1>1, <1>3, FS_Subset DEF Desired
<1> QED BY <1>1, <1>2, <1>4

LEMMA ToleranceType ==
  ASSUME nParts \in Nat \ {0}, node \in Nodes(nParts), node[1] > 0, NEW n \in Nat \X Nat
  PROVE  Tolerance(n) \in Int
<1> DEFINE t == MaxOutOfBalance * (n[1] + n[2])
<1>1. t \in Int
  BY PartitionAssumption
<1>2. Max({t, 200}) \in {t, 200}
  <2> HIDE DEF t
  <2>1. IsFiniteSet({t}) /\ IsFiniteSet({200})
    BY FS_Singleton
  <2>2. IsFiniteSet({t} \cup {200}) /\ {t} \cup {200} = {t, 200}
    BY <2>1, FS_Union
  <2> QED BY <1>1, <2>2, MinMax
<1>3. Max({t, 200}) \in Int
  BY <1>1, <1>2
<1> QED BY <1>3, DesiredParts DEF Tolerance

\* The more a cut leaves on the left, the larger its deviation.
LEMMA Deviations ==
  ASSUME nParts \in Nat \ {0}, node \in Nodes(nParts), node[1] > 0,
         NEW n \in Nat \X Nat, NEW m \in Nat \X Nat, n[1] + n[2] = m[1] + m[2], n[1] <= m[1]
  PROVE  (TooFew(m) => TooFew(n)) /\ (TooMany(n) => TooMany(m))
<1> DEFINE D == Desired(node)
           L == Desired(left(node))
           T == n[1] + n[2]
<1>1. D \in Nat /\ L \in Nat /\ T \in Nat
  BY DesiredParts
<1>2. Tolerance(n) = Tolerance(m) /\ Tolerance(n) \in Int
  BY ToleranceType DEF Tolerance
<1>3. n[1] * D <= m[1] * D /\ n[1] * D \in Int /\ m[1] * D \in Int
  BY <1>1, Product
<1>4. L * T \in Int
  BY <1>1
<1>5. Deviation(n) = 100 * (n[1] * D - L * T) /\ Deviation(m) = 100 * (m[1] * D - L * T)
  BY DEF Deviation
<1> HIDE DEF D, L
<1>6. Deviation(n) <= Deviation(m) /\ Deviation(n) \in Int /\ Deviation(m) \in Int
  BY <1>3, <1>4, <1>5
<1> QED BY <1>2, <1>6 DEF TooFew, TooMany

\* The first cut is in the box.
LEMMA FirstCutInBox ==
  ASSUME NEW lo \in Int, NEW hi \in Int, lo <= hi, NEW L \in Nat, NEW D \in Nat \ {0}, L <= D
  PROVE  LET c == lo + ((hi - lo) * L) \div D IN c \in Int /\ lo <= c /\ c <= hi
<1> DEFINE w == hi - lo
           a == w * L
           q == a \div D
<1>1. w \in Nat
  OBVIOUS
<1>2. a \in Nat /\ a <= w * D
  <2>1. L * w <= D * w /\ L * w = w * L /\ D * w = w * D /\ L * w \in Nat
    BY <1>1, Product
  <2> QED BY <2>1
<1> HIDE DEF w
<1>3. q \in Nat /\ q * D <= a
  <2> HIDE DEF a
  <2> QED BY <1>2, Quotient
<1> HIDE DEF a, q
<1>4. q <= w
  <2> SUFFICES ASSUME w + 1 <= q PROVE FALSE
    BY <1>1, <1>3
  <2>1. (w + 1) * D <= q * D
    BY <1>1, <1>3, Product
  <2>2. (w + 1) * D = w * D + D /\ w * D \in Int /\ q * D \in Int
    BY <1>1, <1>3, Products
  <2> QED BY <1>2, <1>3, <2>1, <2>2
<1> QED BY <1>3, <1>4 DEF w, a, q
-----------------------------------------------------------------------------
(* The order of the nodes. *)

LEMMA NodeFields ==
  ASSUME nParts \in Nat \ {0}, NEW x \in Nodes(nParts)
  PROVE  x = <<x[1], x[2]>> /\ x[1] \in Nat /\ x[2] \in Nat /\ x[1] <= Top(nParts) /\ Top(nParts) \in Nat
BY NodeIs, TopFacts

LEMMA NextNodeFacts ==
  ASSUME nParts \in Nat \ {0}, NEW x \in Nodes(nParts), x[1] > 0
  PROVE  /\ NextNode(x) \in Nodes(nParts)
         /\ \A y \in Nodes(nParts) : Before(y, NextNode(x)) <=> Before(y, x) \/ y = x
<1>1. /\ x = <<x[1], x[2]>> /\ x[1] \in Nat /\ x[2] \in Nat
      /\ x[1] \in 0 .. Top(nParts) /\ Top(nParts) \in Nat
  BY NodeFields
<1> DEFINE beside == <<x[1], x[2] + 1>>
<1>2. CASE beside \in Nodes(nParts)
  <2>1. NextNode(x) = beside
    BY <1>2 DEF NextNode
  <2>2. ASSUME NEW y \in Nodes(nParts) PROVE Before(y, beside) <=> Before(y, x) \/ y = x
    BY <1>1, NodeFields DEF Before
  <2> QED BY <1>2, <2>1, <2>2
<1>3. CASE beside \notin Nodes(nParts)
  <2> DEFINE below == <<x[1] - 1, 0>>
  <2>1. NextNode(x) = below
    BY <1>3 DEF NextNode
  <2>2. below \in Nodes(nParts)
    <3>1. x[1] - 1 \in Nat /\ x[1] - 1 \in 0 .. Top(nParts)
      BY <1>1
    <3>2. 2^(x[1] - 1) \in Nat
      BY <3>1, Powers
    <3>3. 0 * 2^(x[1] - 1) < nParts
      BY <3>2
    <3> QED BY <3>1, <3>3, NodeIs
  <2>3. ASSUME NEW y \in Nodes(nParts), y[1] = x[1] PROVE y[2] <= x[2]
    <3>1. y[2] \in Nat /\ y[2] * 2^x[1] < nParts /\ 2^x[1] \in Nat
      BY <1>1, <2>3, NodeIs, Powers
    <3>2. CASE x[2] + 1 <= y[2]
      <4>1. (x[2] + 1) * 2^x[1] <= y[2] * 2^x[1]
        BY <1>1, <3>1, <3>2, Product
      <4>2. (x[2] + 1) * 2^x[1] < nParts
        BY <1>1, <3>1, <4>1
      <4>3. x[2] + 1 \in Nat
        BY <1>1
      <4> QED BY <1>1, <1>3, <4>2, <4>3, NodeIs
    <3> QED BY <1>1, <3>1, <3>2
  <2>4. ASSUME NEW y \in Nodes(nParts) PROVE Before(y, below) <=> Before(y, x) \/ y = x
    BY <1>1, <2>3, NodeFields DEF Before
  <2> QED BY <2>1, <2>2, <2>4
<1> QED BY <1>2, <1>3

LEMMA InputTypes ==
  ASSUME Types
  PROVE  /\ nParts \in Nat \ {0} /\ ghostLen \in Nat
         /\ node \in Nodes(nParts) /\ todo = <<node>>
BY PartitionAssumption DEF Types, node

LEMMA PlacedNodes ==
  ASSUME Types, NEW x \in Nodes(nParts)
  PROVE  /\ Before(x, node) \/ x = node => Placed(x)
         /\ node[1] = 0 => Placed(x)
<1>1. nParts \in Nat \ {0} /\ node \in Nodes(nParts)
  BY InputTypes
<1>2. CASE x[1] = Top(nParts)
  BY <1>1, <1>2, TopNode DEF Placed, top
<1>3. CASE x[1] < Top(nParts)
  <2>1. root(x)[1] = x[1] + 1
    BY <1>1, <1>3, Above
  <2> QED BY <1>1, <2>1, NodeFields DEF Placed, Before
<1> QED BY <1>1, <1>2, <1>3, NodeFields

\* The children of the node at hand are not placed, and are no others' children.
LEMMA ChildrenOpen ==
  ASSUME Types, node[1] > 0, NEW y \in Nodes(nParts)
  PROVE  /\ y \in {left(node), right(node)} <=> y # top /\ root(y) = node
         /\ y \in {left(node), right(node)} => ~Placed(y) /\ y # node /\ ~Before(y, node)
         /\ \A x \in Nodes(nParts) : x[1] > 0 /\ x # node =>
              left(x) \notin {left(node), right(node)} /\ right(x) \notin {left(node), right(node)}
<1>1. nParts \in Nat \ {0} /\ node \in Nodes(nParts)
  BY InputTypes
<1>2. /\ root(left(node)) = node /\ root(right(node)) = node
      /\ left(node)[1] = node[1] - 1 /\ right(node)[1] = node[1] - 1
  BY <1>1, Below
<1>3. y[1] < Top(nParts) => y = left(root(y)) \/ y = right(root(y))
  BY <1>1, Above
<1>4. y[1] = Top(nParts) <=> y = top
  <2>1. top[1] = Top(nParts)
    BY DEF top
  <2> QED BY <1>1, <2>1, TopNode DEF top
<1>5. /\ y[1] \in Nat /\ y[1] <= Top(nParts) /\ node[1] \in Nat /\ node[1] <= Top(nParts)
      /\ Top(nParts) \in Nat
  BY <1>1, NodeFields
<1>6. y \in {left(node), right(node)} => y[1] = node[1] - 1 /\ root(y) = node
  BY <1>2
<1>7. y \in {left(node), right(node)} => y # top
  BY <1>4, <1>5, <1>6
<1>8. y \in {left(node), right(node)} <=> y # top /\ root(y) = node
  BY <1>3, <1>4, <1>5, <1>6, <1>7
<1>9. ASSUME NEW x \in Nodes(nParts), x[1] > 0, x # node
      PROVE  left(x) \notin {left(node), right(node)} /\ right(x) \notin {left(node), right(node)}
  <2>1. root(left(x)) = x /\ root(right(x)) = x
    BY <1>1, <1>9, Below
  <2> QED BY <1>2, <1>9, <2>1
<1>10. ~Before(node, node)
  BY <1>1, NodeFields DEF Before
<1>11. y \in {left(node), right(node)} => ~Placed(y)
  BY <1>6, <1>7, <1>10 DEF Placed
<1>12. y \in {left(node), right(node)} => y # node /\ ~Before(y, node)
  BY <1>5, <1>6 DEF Before
<1> QED BY <1>8, <1>9, <1>11, <1>12

-----------------------------------------------------------------------------
(* What steps do to the boxes. *)

BoxInv == PlacedBoxes /\ CutsKeepEntities /\ TopHasAll

\* The children may have any boxes while the node is being cut.
LEMMA BoxesStay ==
  ASSUME Types, BoxInv, node[1] > 0, UNCHANGED <<inputs, todo, ghostBox>>,
         \A y \in Nodes(nParts) : y \notin {left(node), right(node)} => box'[y] = box[y]
  PROVE  BoxInv'
<1> USE DEF inputs
<1>1. nParts' = nParts /\ node' = node /\ top' = top /\ coord' = coord /\ ghostLen' = ghostLen
  BY DEF node, top
<1>2. PlacedBoxes'
  <2> SUFFICES ASSUME NEW x \in Nodes(nParts)
               PROVE  IF Placed(x) THEN Solid(box'[x]) /\ ghostBox[x] \in {Empty, Expanded(box'[x], ghostLen)}
                                   ELSE ghostBox[x] = Empty
    BY <1>1 DEF PlacedBoxes, Placed
  <2>1. Placed(x) => box'[x] = box[x]
    BY ChildrenOpen
  <2> QED BY <2>1 DEF BoxInv, PlacedBoxes
<1>3. CutsKeepEntities'
  <2> SUFFICES ASSUME NEW x \in Nodes(nParts), x[1] > 0, Before(x, node) PROVE Splits(x)'
    BY <1>1 DEF CutsKeepEntities
  <2>1. x # node /\ box'[x] = box[x]
    BY ChildrenOpen, InputTypes, NodeFields DEF Before
  <2>2. left(x) \in Nodes(nParts) /\ (HasRight(nParts, x) => right(x) \in Nodes(nParts))
    BY Below, InputTypes
  <2>3. box'[left(x)] = box[left(x)] /\ (HasRight(nParts, x) => box'[right(x)] = box[right(x)])
    BY <2>1, <2>2, ChildrenOpen
  <2>4. Splits(x)
    BY DEF BoxInv, CutsKeepEntities
  <2> QED BY <1>1, <2>1, <2>3, <2>4 DEF Splits
<1>4. TopHasAll'
  <2>1. top \in Nodes(nParts)
    BY InputTypes, TopNode DEF top
  <2>2. box'[top] = box[top]
    BY <2>1, ChildrenOpen
  <2> QED BY <1>1, <2>2 DEF BoxInv, TopHasAll
<1> QED BY <1>2, <1>3, <1>4 DEF BoxInv

LEMMA Advance ==
  ASSUME Types, BoxInv, node[1] > 0, UNCHANGED inputs, todo' = <<NextNode(node)>>,
         \A y \in Nodes(nParts) :
           IF y \in {left(node), right(node)}
           THEN Solid(box'[y]) /\ ghostBox'[y] \in {Empty, Expanded(box'[y], ghostLen)}
           ELSE box'[y] = box[y] /\ ghostBox'[y] = ghostBox[y],
         \A e \in Entities : contains(box[node], coord[e]) =>
           \/ contains(box'[left(node)], coord[e])
           \/ HasRight(nParts, node) /\ contains(box'[right(node)], coord[e])
  PROVE  BoxInv'
<1> USE DEF inputs
<1>1. nParts' = nParts /\ node' = NextNode(node) /\ top' = top /\ coord' = coord /\ ghostLen' = ghostLen
  BY DEF node, top
<1>2. \A y \in Nodes(nParts) : Before(y, node') <=> Before(y, node) \/ y = node
  BY <1>1, InputTypes, NextNodeFacts
<1>3. PlacedBoxes'
  <2> SUFFICES ASSUME NEW x \in Nodes(nParts)
               PROVE  IF Placed(x)' THEN Solid(box'[x]) /\ ghostBox'[x] \in {Empty, Expanded(box'[x], ghostLen)}
                                    ELSE ghostBox'[x] = Empty
    BY <1>1 DEF PlacedBoxes
  <2>1. Placed(x)' <=> Placed(x) \/ x \in {left(node), right(node)}
    <3>1. CASE x = top
      BY <1>1, <3>1 DEF Placed
    <3>2. CASE x # top
      <4>1. root(x) \in Nodes(nParts)
        <5>1. nParts \in Nat \ {0}
          BY InputTypes
        <5>2. x[1] # Top(nParts)
          BY <3>2, <5>1, TopNode DEF top
        <5>3. x[1] < Top(nParts)
          BY <5>1, <5>2, NodeFields
        <5> QED BY <5>1, <5>3, Above
      <4> QED BY <1>1, <1>2, <3>2, <4>1, ChildrenOpen DEF Placed
    <3> QED BY <3>1, <3>2
  <2>2. CASE x \in {left(node), right(node)}
    BY <2>1, <2>2
  <2>3. CASE x \notin {left(node), right(node)}
    <3>1. box'[x] = box[x] /\ ghostBox'[x] = ghostBox[x]
      BY <2>3
    <3> QED BY <2>1, <2>3, <3>1 DEF BoxInv, PlacedBoxes
  <2> QED BY <2>2, <2>3
<1>4. CutsKeepEntities'
  <2> SUFFICES ASSUME NEW x \in Nodes(nParts), x[1] > 0, Before(x, node) \/ x = node PROVE Splits(x)'
    BY <1>1, <1>2 DEF CutsKeepEntities
  <2>1. box'[x] = box[x]
    BY ChildrenOpen
  <2>2. CASE x = node
    BY <1>1, <2>1, <2>2 DEF Splits
  <2>3. CASE x # node
    <3>1. left(x) \in Nodes(nParts) /\ (HasRight(nParts, x) => right(x) \in Nodes(nParts))
      BY Below, InputTypes
    <3>2. box'[left(x)] = box[left(x)] /\ (HasRight(nParts, x) => box'[right(x)] = box[right(x)])
      BY <2>3, <3>1, ChildrenOpen
    <3>3. Splits(x)
      BY <2>3 DEF BoxInv, CutsKeepEntities
    <3> QED BY <1>1, <2>1, <3>2, <3>3 DEF Splits
  <2> QED BY <2>2, <2>3
<1>5. TopHasAll'
  <2>1. top \in Nodes(nParts)
    BY InputTypes, TopNode DEF top
  <2>2. box'[top] = box[top]
    BY <2>1, ChildrenOpen
  <2> QED BY <1>1, <2>2 DEF BoxInv, TopHasAll
<1> QED BY <1>3, <1>4, <1>5 DEF BoxInv

-----------------------------------------------------------------------------
(* The window of the bisection. *)

LEMMA NodeAtHand ==
  ASSUME Types, BoxInv
  PROVE  /\ Solid(box[node]) /\ box[node] \in Boxes
         /\ axes # <<>> => /\ Head(axes) \in Axes /\ Tail(axes) \in AxesLeft
                          /\ node[1] > 0 /\ left(node) \in Nodes(nParts)
                          /\ HasRight(nParts, node) /\ right(node) \in Nodes(nParts)
                          /\ left(node) # right(node)
<1>1. node \in Nodes(nParts) /\ nParts \in Nat \ {0}
  BY InputTypes
<1>2. Solid(box[node])
  BY <1>1, PlacedNodes DEF BoxInv, PlacedBoxes
<1>3. axes # <<>> => Head(axes) \in Axes /\ Tail(axes) \in AxesLeft
  <2>1. axes \in AxesLeft
    BY DEF Types
  <2>2. Tail(<<1, 2>>) = <<2>> /\ Tail(<<2, 1>>) = <<1>> /\ Tail(<<1>>) = <<>> /\ Tail(<<2>>) = <<>>
    OBVIOUS
  <2>3. axes \in {<<>>, <<1>>, <<2>>, <<1, 2>>, <<2, 1>>}
    BY <2>1 DEF AxesLeft
  <2>4. CASE axes = <<1>>
    BY <2>2, <2>4 DEF AxesLeft, Axes
  <2>5. CASE axes = <<2>>
    BY <2>2, <2>5 DEF AxesLeft, Axes
  <2>6. CASE axes = <<1, 2>>
    BY <2>2, <2>6 DEF AxesLeft, Axes
  <2>7. CASE axes = <<2, 1>>
    BY <2>2, <2>7 DEF AxesLeft, Axes
  <2> QED BY <2>3, <2>4, <2>5, <2>6, <2>7, Zenon
<1>4. axes # <<>> => node[1] > 0 /\ HasRight(nParts, node)
  BY DEF Types
<1> QED BY <1>1, <1>2, <1>3, <1>4, Below DEF Solid

LEMMA CutAtIs ==
  ASSUME coord \in Layouts, NEW w \in Windows, NEW b \in Boxes, NEW d \in Axes, NEW c \in Int,
         b.lo[d] <= c, c <= b.hi[d]
  PROVE  /\ CutAt(w, b, d, c) \in Windows
         /\ CutAt(w, b, d, c).at = c /\ CutAt(w, b, d, c).n = CountEntities(b, d, c)
         /\ CutAt(w, b, d, c).min = w.min /\ CutAt(w, b, d, c).max = w.max
<1>1. CountEntities(b, d, c) \in Nat \X Nat
  BY Counts
<1> QED BY <1>1 DEF CutAt, Windows

LEMMA FirstWindow ==
  ASSUME Types, node[1] > 0, NEW b, Solid(b), NEW d \in Axes
  PROVE  FirstCut(b, d) \in Windows /\ WindowFor(b, d, FirstCut(b, d))
<1>1. b \in Boxes /\ b.lo[d] \in Int /\ b.hi[d] \in Int /\ b.lo[d] <= b.hi[d]
  BY BoxFields DEF Solid
<1> DEFINE w == [NoCut EXCEPT !.min = b.lo[d], !.max = b.hi[d]]
           c == b.lo[d] + ((b.hi[d] - b.lo[d]) * Desired(left(node))) \div Desired(node)
<1>2. w \in Windows /\ w.min = b.lo[d] /\ w.max = b.hi[d]
  <2>1. NoCut \in Windows
    BY DEF NoCut, Windows
  <2> QED BY <1>1, <2>1 DEF Windows
<1>3. c \in Int /\ b.lo[d] <= c /\ c <= b.hi[d]
  <2>1. Desired(node) \in Nat \ {0} /\ Desired(left(node)) \in Nat /\ Desired(left(node)) <= Desired(node)
    BY InputTypes, DesiredParts
  <2> QED BY <1>1, <2>1, FirstCutInBox
<1>4. coord \in Layouts
  BY DEF Types
<1>5. FirstCut(b, d) = CutAt(w, b, d, c)
  BY DEF FirstCut
<1> HIDE DEF w, c
<1>6. /\ CutAt(w, b, d, c) \in Windows
      /\ CutAt(w, b, d, c).at = c /\ CutAt(w, b, d, c).n = CountEntities(b, d, c)
      /\ CutAt(w, b, d, c).min = b.lo[d] /\ CutAt(w, b, d, c).max = b.hi[d]
  BY <1>1, <1>2, <1>3, <1>4, CutAtIs
<1> QED BY <1>1, <1>3, <1>5, <1>6 DEF WindowFor

LEMMA NextWindow ==
  ASSUME Types, BoxInv, WindowHolds, axes # <<>>, TooFew(Counted) \/ TooMany(Counted)
  PROVE  LET w == Middle([Narrowed EXCEPT !.same = SameAgain])
         IN w \in Windows /\ WindowFor(box[node], Head(axes), w)
<1> DEFINE b == box[node]
           d == Head(axes)
           v == [[Narrowed EXCEPT !.same = SameAgain] EXCEPT !.prev = Counted[1]]
           c == (v.min + v.max) \div 2
<1>1. b \in Boxes /\ d \in Axes /\ node[1] > 0 /\ coord \in Layouts
  BY NodeAtHand DEF Types
<1>2. b.lo[d] \in Int /\ b.hi[d] \in Int
  BY <1>1, BoxFields
<1>3. WindowFor(b, d, cut)
  BY DEF WindowHolds
<1>4. cut \in Windows
  BY DEF Types
<1>5. /\ cut.min \in Int /\ cut.max \in Int /\ cut.at \in Int /\ cut.n \in Nat \X Nat /\ cut.prev \in Int
      /\ cut.same \in Int
  BY <1>4 DEF Windows
<1>6. SameAgain \in Int /\ Counted[1] \in Int
  BY <1>5 DEF SameAgain, Counted
<1>7. Narrowed \in Windows
  BY <1>4, <1>5 DEF Narrowed, Windows
<1>8. v \in Windows /\ v.min = Narrowed.min /\ v.max = Narrowed.max
  BY <1>6, <1>7 DEF Windows
<1>9. /\ Narrowed.min = IF TooFew(Counted) THEN cut.at ELSE cut.min
      /\ Narrowed.max = IF TooFew(Counted) THEN cut.max ELSE cut.at
  BY <1>4 DEF Narrowed, Windows
<1> HIDE DEF b, d, v
<1>10. /\ v.min \in Int /\ v.max \in Int
       /\ b.lo[d] <= v.min /\ v.min <= v.max /\ v.max <= b.hi[d]
  BY <1>2, <1>3, <1>5, <1>8, <1>9 DEF WindowFor
<1>11. c \in Int /\ v.min <= c /\ c <= v.max
  BY <1>10
<1>12. ASSUME NEW k \in b.lo[d] .. b.hi[d]
       PROVE  /\ k < v.min => TooFew(CountEntities(b, d, k))
              /\ k > v.max => TooMany(CountEntities(b, d, k))
  <2>1. nParts \in Nat \ {0} /\ node \in Nodes(nParts)
    BY InputTypes
  <2>2. k \in Int /\ b.lo[d] <= k /\ k <= b.hi[d] /\ b.lo[d] <= cut.at /\ cut.at <= b.hi[d]
    BY <1>2, <1>3, <1>5 DEF WindowFor
  <2>3. cut.n = CountEntities(b, d, cut.at)
    BY <1>3 DEF WindowFor
  <2>4. CountEntities(b, d, k) \in Nat \X Nat
    BY <1>1, <2>2, Counts
  <2>5. ASSUME TooFew(Counted), k < cut.at PROVE TooFew(CountEntities(b, d, k))
    <3>1. /\ CountEntities(b, d, k)[1] <= cut.n[1]
          /\ CountEntities(b, d, k)[1] + CountEntities(b, d, k)[2] = cut.n[1] + cut.n[2]
      BY <1>1, <1>5, <2>2, <2>3, <2>5, CountsGrow
    <3> QED BY <1>1, <1>5, <2>1, <2>4, <2>5, <3>1, Deviations DEF Counted
  <2>6. ASSUME TooMany(Counted), k > cut.at PROVE TooMany(CountEntities(b, d, k))
    <3>1. /\ cut.n[1] <= CountEntities(b, d, k)[1]
          /\ CountEntities(b, d, k)[1] + CountEntities(b, d, k)[2] = cut.n[1] + cut.n[2]
      BY <1>1, <1>5, <2>2, <2>3, <2>6, CountsGrow
    <3> QED BY <1>1, <1>5, <2>1, <2>4, <2>6, <3>1, Deviations DEF Counted
  <2>7. /\ k < cut.min => TooFew(CountEntities(b, d, k))
        /\ k > cut.max => TooMany(CountEntities(b, d, k))
    BY <1>3 DEF WindowFor
  <2> QED BY <1>8, <1>9, <2>5, <2>6, <2>7
<1>13. Middle([Narrowed EXCEPT !.same = SameAgain]) = CutAt(v, b, d, c)
  <2>1. [Narrowed EXCEPT !.same = SameAgain].min = v.min /\ [Narrowed EXCEPT !.same = SameAgain].max = v.max
    BY <1>7 DEF v, Windows
  <2> QED BY <2>1 DEF Middle, v, b, d
<1> HIDE DEF c
<1>14. b.lo[d] <= c /\ c <= b.hi[d]
  BY <1>2, <1>10, <1>11
<1>15. /\ CutAt(v, b, d, c) \in Windows
       /\ CutAt(v, b, d, c).at = c /\ CutAt(v, b, d, c).n = CountEntities(b, d, c)
       /\ CutAt(v, b, d, c).min = v.min /\ CutAt(v, b, d, c).max = v.max
  BY <1>1, <1>8, <1>11, <1>14, CutAtIs
<1>16. WindowFor(b, d, CutAt(v, b, d, c))
  BY <1>10, <1>11, <1>12, <1>15 DEF WindowFor
<1> QED BY <1>13, <1>15, <1>16 DEF b, d

\* As long as the node at hand and its box stay, so does what the window means.
LEMMA WindowStays ==
  ASSUME UNCHANGED <<inputs, todo>>, box'[node] = box[node],
         axes' # <<>> => WindowFor(box[node], Head(axes'), cut')
  PROVE  WindowHolds'
<1>1. coord' = coord /\ nParts' = nParts /\ node' = node
  BY DEF inputs, node
<1> SUFFICES ASSUME axes' # <<>> PROVE WindowFor(box[node], Head(axes), cut)'
  BY DEF WindowHolds
<1>2. WindowFor(box[node], Head(axes'), cut')
  OBVIOUS
<1>3. \A c : CountEntities(box[node], Head(axes), c)' = CountEntities(box[node], Head(axes'), c)
  BY <1>1, Zenon DEF CountEntities
<1>4. \A n : (TooFew(n)' <=> TooFew(n)) /\ (TooMany(n)' <=> TooMany(n))
  BY <1>1, Zenon DEF TooFew, TooMany, Deviation, Tolerance, Desired
<1>5. box'[node'] = box[node]
  BY <1>1
<1> QED BY <1>2, <1>3, <1>4, <1>5, Zenon DEF WindowFor

-----------------------------------------------------------------------------
(* The steps. *)

LEMMA Begins == PartitionInit => PartitionIInv
<1> SUFFICES ASSUME PartitionInit PROVE PartitionIInv
  OBVIOUS
<1> USE DEF PartitionInit
<1>1. nParts \in Nat \ {0} /\ coord \in Layouts
  BY PartitionAssumption
<1>2. node = top /\ todo = <<top>> /\ top \in Nodes(nParts) /\ top[1] = Top(nParts)
  BY <1>1, TopNode DEF node, top
<1>3. /\ Solid(DomainBoundingBox) /\ DomainBoundingBox \in Boxes
      /\ \A e \in Entities : contains(DomainBoundingBox, coord[e])
  BY <1>1, WholeBox DEF Solid
<1>4. /\ \A x \in Nodes(nParts) : /\ box[x] = IF x = top THEN DomainBoundingBox ELSE Empty
                                /\ ghostBox[x] = Empty
      /\ box \in [Nodes(nParts) -> Boxes] /\ ghostBox \in [Nodes(nParts) -> Boxes]
  BY <1>2, <1>3, EmptyBox DEF node
<1>5. \A x \in Nodes(nParts) : ~Before(x, top)
  <2> SUFFICES ASSUME NEW x \in Nodes(nParts), Before(x, top) PROVE FALSE
    OBVIOUS
  <2>1. x[1] \in Nat /\ x[1] <= Top(nParts) /\ Top(nParts) \in Nat /\ x[2] \in Nat
    BY <1>1, NodeFields
  <2>2. x[2] < 0
    BY <2>1 DEF Before, top
  <2> QED BY <2>1, <2>2
<1>6. Types
  <2>1. NoCut \in Windows
    BY DEF NoCut, Windows
  <2> QED BY <1>2, <1>4, <2>1 DEF Types, AxesLeft
<1>7. PlacedBoxes
  <2> SUFFICES ASSUME NEW x \in Nodes(nParts)
               PROVE  IF Placed(x) THEN Solid(box[x]) /\ ghostBox[x] \in {Empty, Expanded(box[x], ghostLen)}
                                   ELSE ghostBox[x] = Empty
    BY DEF PlacedBoxes
  <2>1. CASE x = top
    BY <1>3, <1>4, <2>1
  <2>2. CASE x # top
    <3>1. x[1] # Top(nParts)
      BY <1>1, <2>2, TopNode DEF top
    <3>2. x[1] < Top(nParts)
      BY <1>1, <3>1, NodeFields
    <3>3. root(x) \in Nodes(nParts)
      BY <1>1, <3>2, Above
    <3>4. ~Placed(x)
      BY <1>2, <1>5, <2>2, <3>3 DEF Placed
    <3> QED BY <1>4, <3>4
  <2> QED BY <2>1, <2>2
<1>8. CutsKeepEntities
  BY <1>2, <1>5 DEF CutsKeepEntities
<1>9. TopHasAll
  BY <1>2, <1>3, <1>4 DEF TopHasAll
<1>10. WindowHolds /\ PartsLast /\ OwnedInBox /\ NearEntitiesMeet
  BY DEF WindowHolds, PartsLast, OwnedInBox, NearEntitiesMeet
<1> QED BY <1>6, <1>7, <1>8, <1>9, <1>10 DEF PartitionIInv, Machine

LEMMA PassDownKeeps ==
  ASSUME Machine, PassDown
  PROVE  Machine'
<1> DEFINE l == left(node)
<1>1. Types /\ BoxInv /\ node[1] > 0 /\ axes = <<>> /\ axes' = <<>> /\ UNCHANGED inputs
  BY DEF Machine, BoxInv, PassDown
<1>2. /\ nParts \in Nat \ {0} /\ node \in Nodes(nParts) /\ l \in Nodes(nParts)
      /\ right(node) \notin Nodes(nParts)
  BY <1>1, InputTypes, Below DEF PassDown
<1>3. /\ box \in [Nodes(nParts) -> Boxes] /\ ghostBox \in [Nodes(nParts) -> Boxes]
      /\ box' = [box EXCEPT ![l] = box[node]] /\ ghostBox' = [ghostBox EXCEPT ![l] = ghostBox[node]]
  BY <1>1 DEF Types, PassDown
<1>4. Solid(box[node]) /\ ghostBox[node] \in {Empty, Expanded(box[node], ghostLen)}
  BY <1>1, <1>2, PlacedNodes DEF BoxInv, PlacedBoxes
<1> HIDE DEF l
<1>5. /\ box'[l] = box[node] /\ ghostBox'[l] = ghostBox[node]
      /\ \A y \in Nodes(nParts) : y # l => box'[y] = box[y] /\ ghostBox'[y] = ghostBox[y]
      /\ box' \in [Nodes(nParts) -> Boxes] /\ ghostBox' \in [Nodes(nParts) -> Boxes]
  BY <1>2, <1>3
<1>6. NextNode(node) \in Nodes(nParts) /\ todo' = <<NextNode(node)>>
  BY <1>1, <1>2, NextNodeFacts DEF PassDown
<1>7. Types'
  BY <1>1, <1>5, <1>6 DEF Types, PassDown, inputs
<1>8. BoxInv'
  <2>1. ASSUME NEW y \in Nodes(nParts)
        PROVE  IF y \in {left(node), right(node)}
               THEN Solid(box'[y]) /\ ghostBox'[y] \in {Empty, Expanded(box'[y], ghostLen)}
               ELSE box'[y] = box[y] /\ ghostBox'[y] = ghostBox[y]
    BY <1>2, <1>4, <1>5 DEF l
  <2>2. \A e \in Entities : contains(box[node], coord[e]) => contains(box'[left(node)], coord[e])
    BY <1>5 DEF l
  <2> QED BY <1>1, <1>6, <2>1, <2>2, Advance
<1>9. WindowHolds'
  BY <1>1 DEF WindowHolds
<1> QED BY <1>7, <1>8, <1>9 DEF Machine, BoxInv

LEMMA BeginNodeKeeps ==
  ASSUME Machine, BeginNode
  PROVE  Machine'
<1>1. Types /\ BoxInv /\ node[1] > 0 /\ HasRight(nParts, node) /\ UNCHANGED <<inputs, todo, box, ghostBox>>
  BY DEF Machine, BoxInv, BeginNode
<1>2. axes' \in {<<1, 2>>, <<2, 1>>}
  BY DEF BeginNode, best_axes
<1>3. Head(axes') \in Axes
  BY <1>2 DEF Axes
<1>4. cut' \in Windows /\ WindowFor(box[node], Head(axes'), cut')
  BY <1>1, <1>3, NodeAtHand, FirstWindow DEF BeginNode
<1>5. node' = node
  BY <1>1 DEF node
<1>6. Types'
  BY <1>1, <1>2, <1>4, <1>5 DEF Types, inputs, AxesLeft
<1>7. BoxInv'
  BY <1>1, BoxesStay
<1>8. WindowHolds'
  BY <1>1, <1>4, WindowStays
<1> QED BY <1>6, <1>7, <1>8 DEF Machine, BoxInv

\* The boxes of the two sides of a cut.
LEMMA TwoSides ==
  ASSUME Machine, axes # <<>>, WithBoxes
  PROVE  /\ box' \in [Nodes(nParts) -> Boxes]
         /\ box'[left(node)] \in Boxes /\ box'[right(node)] \in Boxes
         /\ Solid(box'[left(node)]) /\ Solid(box'[right(node)])
         /\ \A y \in Nodes(nParts) : y \notin {left(node), right(node)} => box'[y] = box[y]
         /\ \A e \in Entities : contains(box[node], coord[e]) =>
              contains(box'[left(node)], coord[e]) \/ contains(box'[right(node)], coord[e])
<1> DEFINE l == left(node)
           r == right(node)
           b == box[node]
           d == Head(axes)
           c == cut.at
<1>1. Types /\ BoxInv /\ WindowFor(b, d, cut)
  BY DEF Machine, BoxInv, WindowHolds
<1>2. /\ Solid(b) /\ b \in Boxes /\ d \in Axes
      /\ l \in Nodes(nParts) /\ r \in Nodes(nParts) /\ l # r
  BY <1>1, NodeAtHand
<1>3. c \in Int /\ cut.min \in Int /\ cut.max \in Int /\ b.lo[d] \in Int /\ b.hi[d] \in Int
  <2>1. cut \in Windows
    BY <1>1 DEF Types
  <2>2. c \in Int /\ cut.min \in Int /\ cut.max \in Int
    BY <2>1 DEF Windows
  <2> HIDE DEF b, d
  <2> QED BY <1>2, <2>2, BoxFields
<1>4. /\ box \in [Nodes(nParts) -> Boxes]
      /\ box' = [box EXCEPT ![l] = LeftOf(b, d, c), ![r] = RightOf(b, d, c)]
  BY <1>1 DEF Types, WithBoxes
<1>5. \A e \in Entities : coord[e] \in [Axes -> Int]
  BY <1>1, Places DEF Types
<1> HIDE DEF l, r, b, d, c
<1>6. b.lo[d] <= c /\ c <= b.hi[d]
  BY <1>1, <1>3 DEF WindowFor, c
<1>7. /\ Solid(LeftOf(b, d, c)) /\ Solid(RightOf(b, d, c))
      /\ \A p \in [Axes -> Int] :
           contains(b, p) => contains(LeftOf(b, d, c), p) \/ contains(RightOf(b, d, c), p)
  BY <1>2, <1>3, <1>6, HalvesOfBox
<1>8. LeftOf(b, d, c) \in Boxes /\ RightOf(b, d, c) \in Boxes
  BY <1>7 DEF Solid
<1>9. /\ box'[l] = LeftOf(b, d, c) /\ box'[r] = RightOf(b, d, c)
      /\ box' \in [Nodes(nParts) -> Boxes]
      /\ \A y \in Nodes(nParts) : y \notin {l, r} => box'[y] = box[y]
  BY <1>2, <1>4, <1>8
<1> QED BY <1>5, <1>7, <1>8, <1>9 DEF l, r, b

LEMMA AcceptKeeps ==
  ASSUME Machine, Accept
  PROVE  Machine'
<1> DEFINE l == left(node)
           r == right(node)
<1>1. Types /\ BoxInv /\ axes # <<>> /\ axes' = <<>> /\ UNCHANGED <<inputs, cut>>
  BY DEF Machine, BoxInv, Accept, Cutting
<1>2. /\ node[1] > 0 /\ HasRight(nParts, node) /\ nParts \in Nat \ {0} /\ node \in Nodes(nParts)
      /\ l \in Nodes(nParts) /\ r \in Nodes(nParts) /\ l # r /\ ghostLen \in Int
  BY <1>1, NodeAtHand, InputTypes
<1>3. /\ box' \in [Nodes(nParts) -> Boxes] /\ box'[l] \in Boxes /\ box'[r] \in Boxes
      /\ Solid(box'[l]) /\ Solid(box'[r])
      /\ \A y \in Nodes(nParts) : y \notin {l, r} => box'[y] = box[y]
      /\ \A e \in Entities : contains(box[node], coord[e]) =>
           contains(box'[l], coord[e]) \/ contains(box'[r], coord[e])
  BY <1>1, TwoSides DEF Accept
<1>4. /\ ghostBox \in [Nodes(nParts) -> Boxes]
      /\ ghostBox' = [ghostBox EXCEPT ![l] = Expanded(box'[l], ghostLen),
                                      ![r] = Expanded(box'[r], ghostLen)]
  BY <1>1 DEF Types, Accept
<1>5. Expanded(box'[l], ghostLen) \in Boxes /\ Expanded(box'[r], ghostLen) \in Boxes
  BY <1>2, <1>3, ExpandedBox
<1> HIDE DEF l, r
<1>6. /\ ghostBox' \in [Nodes(nParts) -> Boxes]
      /\ ghostBox'[l] = Expanded(box'[l], ghostLen) /\ ghostBox'[r] = Expanded(box'[r], ghostLen)
      /\ \A y \in Nodes(nParts) : y \notin {l, r} => ghostBox'[y] = ghostBox[y]
  BY <1>2, <1>4, <1>5
<1>7. NextNode(node) \in Nodes(nParts) /\ todo' = <<NextNode(node)>>
  BY <1>2, NextNodeFacts DEF Accept
<1>8. Types'
  BY <1>1, <1>3, <1>6, <1>7 DEF Types, inputs, AxesLeft
<1>9. BoxInv'
  <2>1. ASSUME NEW y \in Nodes(nParts)
        PROVE  IF y \in {left(node), right(node)}
               THEN Solid(box'[y]) /\ ghostBox'[y] \in {Empty, Expanded(box'[y], ghostLen)}
               ELSE box'[y] = box[y] /\ ghostBox'[y] = ghostBox[y]
    BY <1>3, <1>6 DEF l, r
  <2>2. \A e \in Entities : contains(box[node], coord[e]) =>
          \/ contains(box'[left(node)], coord[e])
          \/ HasRight(nParts, node) /\ contains(box'[right(node)], coord[e])
    BY <1>2, <1>3 DEF l, r
  <2> QED BY <1>1, <1>2, <1>7, <2>1, <2>2, Advance
<1>10. WindowHolds'
  BY <1>1 DEF WindowHolds
<1> QED BY <1>8, <1>9, <1>10 DEF Machine, BoxInv

LEMMA CutAgainKeeps ==
  ASSUME Machine, CutAgain
  PROVE  Machine'
<1>1. /\ Types /\ BoxInv /\ WindowHolds /\ axes # <<>> /\ UNCHANGED <<inputs, todo, axes, ghostBox>>
      /\ TooFew(Counted) \/ TooMany(Counted)
  BY DEF Machine, BoxInv, CutAgain, Cutting
<1>2. node[1] > 0 /\ node' = node /\ node \in Nodes(nParts)
  BY <1>1, NodeAtHand, InputTypes DEF node
<1>3. cut' \in Windows /\ WindowFor(box[node], Head(axes'), cut')
  BY <1>1, NextWindow DEF CutAgain
<1>4. /\ box' \in [Nodes(nParts) -> Boxes]
      /\ \A y \in Nodes(nParts) : y \notin {left(node), right(node)} => box'[y] = box[y]
  BY <1>1, TwoSides DEF CutAgain
<1>5. Types'
  BY <1>1, <1>2, <1>3, <1>4 DEF Types, inputs
<1>6. BoxInv'
  BY <1>1, <1>2, <1>4, BoxesStay
<1>7. box'[node] = box[node]
  BY <1>1, <1>2, <1>4, ChildrenOpen
<1>8. WindowHolds'
  BY <1>1, <1>3, <1>7, WindowStays
<1> QED BY <1>5, <1>6, <1>8 DEF Machine, BoxInv

LEMMA NewAxisKeeps ==
  ASSUME Machine, NewAxis
  PROVE  Machine'
<1>1. /\ Types /\ BoxInv /\ axes # <<>> /\ UNCHANGED <<inputs, ghostBox>> /\ axes' = Tail(axes)
      /\ axes' = <<>> => todo' = <<NextNode(node)>> /\ cut' = cut
      /\ axes' # <<>> => cut' = FirstCut(box[node], Head(axes')) /\ todo' = todo
  BY DEF Machine, BoxInv, NewAxis, Cutting
<1>2. /\ node[1] > 0 /\ HasRight(nParts, node) /\ node \in Nodes(nParts) /\ nParts \in Nat \ {0}
      /\ left(node) \in Nodes(nParts) /\ right(node) \in Nodes(nParts)
      /\ Solid(box[node]) /\ axes' \in AxesLeft
  BY <1>1, NodeAtHand, InputTypes
<1>3. /\ box' \in [Nodes(nParts) -> Boxes]
      /\ Solid(box'[left(node)]) /\ Solid(box'[right(node)])
      /\ \A y \in Nodes(nParts) : y \notin {left(node), right(node)} => box'[y] = box[y]
      /\ \A e \in Entities : contains(box[node], coord[e]) =>
           contains(box'[left(node)], coord[e]) \/ contains(box'[right(node)], coord[e])
  BY <1>1, TwoSides DEF NewAxis
<1>4. CASE axes' # <<>>
  <2>1. node' = node /\ UNCHANGED <<inputs, todo, ghostBox>>
    BY <1>1, <1>4 DEF node
  <2>2. Head(axes') \in Axes
    BY <1>2, <1>4 DEF AxesLeft, Axes
  <2>3. cut' \in Windows /\ WindowFor(box[node], Head(axes'), cut')
    BY <1>1, <1>2, <1>4, <2>2, FirstWindow
  <2>4. Types'
    BY <1>1, <1>2, <1>3, <2>1, <2>3 DEF Types, inputs
  <2>5. BoxInv'
    BY <1>1, <1>2, <1>3, <2>1, BoxesStay
  <2>6. box'[node] = box[node]
    BY <1>1, <1>2, <1>3, ChildrenOpen
  <2>7. WindowHolds'
    BY <2>1, <2>3, <2>6, WindowStays
  <2> QED BY <2>4, <2>5, <2>7 DEF Machine, BoxInv
<1>5. CASE axes' = <<>>
  <2>1. NextNode(node) \in Nodes(nParts) /\ todo' = <<NextNode(node)>> /\ cut' = cut
    BY <1>1, <1>2, <1>5, NextNodeFacts
  <2>2. Types'
    BY <1>1, <1>2, <1>3, <1>5, <2>1 DEF Types, inputs
  <2>3. ASSUME NEW y \in Nodes(nParts)
        PROVE  IF y \in {left(node), right(node)}
               THEN Solid(box'[y]) /\ ghostBox'[y] \in {Empty, Expanded(box'[y], ghostLen)}
               ELSE box'[y] = box[y] /\ ghostBox'[y] = ghostBox[y]
    <3>1. ghostBox'[y] = ghostBox[y]
      BY <1>1
    <3>2. y \in {left(node), right(node)} => ghostBox[y] = Empty
      BY <1>1, <1>2, ChildrenOpen DEF BoxInv, PlacedBoxes
    <3> QED BY <1>3, <3>1, <3>2
  <2>4. BoxInv'
    <3>1. UNCHANGED inputs
      BY <1>1
    <3>2. \A e \in Entities : contains(box[node], coord[e]) =>
            \/ contains(box'[left(node)], coord[e])
            \/ HasRight(nParts, node) /\ contains(box'[right(node)], coord[e])
      BY <1>2, <1>3
    <3> QED BY <1>1, <1>2, <2>1, <2>3, <3>1, <3>2, Advance
  <2>5. WindowHolds'
    BY <1>5 DEF WindowHolds
  <2> QED BY <2>2, <2>4, <2>5 DEF Machine, BoxInv
<1> QED BY <1>4, <1>5

LEMMA MachineStays ==
  ASSUME Machine, UNCHANGED <<inputs, todo, axes, cut, box, ghostBox>>
  PROVE  Machine'
<1>1. /\ coord' = coord /\ nParts' = nParts /\ ghostLen' = ghostLen /\ todo' = todo /\ axes' = axes
      /\ cut' = cut /\ box' = box /\ ghostBox' = ghostBox /\ node' = node /\ top' = top
  BY DEF inputs, node, top
<1>2. Types'
  BY <1>1 DEF Machine, Types
<1>3. PlacedBoxes'
  BY <1>1, Zenon DEF Machine, PlacedBoxes, Placed
<1>4. CutsKeepEntities'
  BY <1>1, Zenon DEF Machine, CutsKeepEntities, Splits
<1>5. TopHasAll'
  BY <1>1, Zenon DEF Machine, TopHasAll
<1>6. WindowHolds'
  BY <1>1, WindowStays DEF Machine, WindowHolds
<1> QED BY <1>2, <1>3, <1>4, <1>5, <1>6 DEF Machine

-----------------------------------------------------------------------------
(* The way down. *)

\* The nodes an entity at p comes by, a level lower each.
WayDown(g, m, p) ==
  g = [i \in 0 .. m |->
         IF i = 0 THEN <<Top(nParts), 0>>
         ELSE IF contains(box[left(g[i - 1])], p) THEN left(g[i - 1]) ELSE right(g[i - 1])]

LEMMA WayExists ==
  ASSUME NEW p, NEW m \in Nat
  PROVE  \E g : WayDown(g, m, p)
<1> DEFINE Bad == {k \in Nat : ~\E g : WayDown(g, k, p)}
<1> SUFFICES ASSUME Bad # {} PROVE FALSE
  OBVIOUS
<1>1. PICK k \in Bad : \A j \in Bad : k <= j
  <2>1. Bad \subseteq Nat
    OBVIOUS
  <2> HIDE DEF Bad
  <2> QED BY <2>1, LeastNumber
<1>2. k \in Nat /\ ~\E g : WayDown(g, k, p)
  OBVIOUS
<1>3. CASE k = 0
  <2> DEFINE g == [i \in 0 .. 0 |-> <<Top(nParts), 0>>]
  <2>1. WayDown(g, 0, p)
    BY DEF WayDown
  <2> QED BY <1>2, <1>3, <2>1
<1>4. CASE k # 0
  <2>1. k - 1 \in Nat /\ ~(k <= k - 1)
    BY <1>2, <1>4
  <2>2. PICK g : WayDown(g, k - 1, p)
    <3>1. k - 1 \notin Bad
      BY <1>1, <2>1, Zenon
    <3> QED BY <2>1, <3>1
  <2> DEFINE next(x) == IF contains(box[left(x)], p) THEN left(x) ELSE right(x)
             f == [i \in 0 .. k |-> IF i = k THEN next(g[k - 1]) ELSE g[i]]
  <2>3. \A i \in 0 .. k - 1 : g[i] = IF i = 0 THEN <<Top(nParts), 0>> ELSE next(g[i - 1])
    BY <2>2 DEF WayDown
  <2>4. \A i \in 0 .. k : f[i] = IF i = k THEN next(g[k - 1]) ELSE g[i]
    OBVIOUS
  <2>5. f = [i \in 0 .. k |-> f[i]]
    OBVIOUS
  <2> HIDE DEF f, next
  <2>6. ASSUME NEW i \in 0 .. k
        PROVE  f[i] = IF i = 0 THEN <<Top(nParts), 0>> ELSE next(f[i - 1])
    <3>1. CASE i = 0
      BY <1>2, <1>4, <2>3, <2>4, <3>1
    <3>2. CASE i # 0
      <4>1. i - 1 \in 0 .. k /\ i - 1 # k /\ i - 1 \in 0 .. k - 1
        BY <1>2, <3>2
      <4>2. f[i - 1] = g[i - 1]
        BY <2>4, <4>1
      <4>3. f[i] = next(g[i - 1])
        <5>1. CASE i = k
          BY <2>4, <5>1
        <5>2. CASE i # k
          <6>1. i \in 0 .. k - 1
            BY <1>2, <5>2
          <6> QED BY <2>3, <2>4, <3>2, <5>2, <6>1
        <5> QED BY <5>1, <5>2
      <4> QED BY <3>2, <4>2, <4>3
    <3> QED BY <3>1, <3>2
  <2>7. f = [i \in 0 .. k |-> IF i = 0 THEN <<Top(nParts), 0>> ELSE next(f[i - 1])]
    BY <2>5, <2>6
  <2>8. WayDown(f, k, p)
    BY <2>7 DEF WayDown, next
  <2> QED BY <1>2, <2>8
<1> QED BY <1>3, <1>4

\* Once all nodes are cut, every entity comes down to a part whose box it is in.
LEMMA DomainHasEntity ==
  ASSUME Machine, node[1] = 0, NEW e \in Entities
  PROVE  /\ DetermineDomain(coord[e]) \in PartIds
         /\ contains(box[Leaf(DetermineDomain(coord[e]))], coord[e])
<1> DEFINE T == Top(nParts)
           p == coord[e]
           g == CHOOSE f : WayDown(f, T, p)
<1>1. nParts \in Nat \ {0} /\ T \in Nat /\ node \in Nodes(nParts)
  BY InputTypes, TopFacts DEF Machine
<1>2. WayDown(g, T, p)
  BY <1>1, WayExists
<1>3. DetermineDomain(p) = g[T][2]
  BY DEF DetermineDomain, WayDown
<1> DEFINE OnWay(i) == g[i] \in Nodes(nParts) /\ g[i][1] = T - i /\ contains(box[g[i]], p)
           Bad == {i \in Nat : i <= T /\ ~OnWay(i)}
<1> HIDE DEF g, T, p
<1>4. \A i \in 0 .. T : g[i] = IF i = 0 THEN <<T, 0>>
                                ELSE IF contains(box[left(g[i - 1])], p) THEN left(g[i - 1]) ELSE right(g[i - 1])
  BY <1>2 DEF WayDown, T
<1>5. OnWay(0)
  <2>1. g[0] = top /\ top \in Nodes(nParts) /\ top[1] = T
    BY <1>1, <1>4, TopNode DEF top, T
  <2>2. contains(box[top], p)
    BY DEF Machine, TopHasAll, p
  <2> QED BY <1>1, <2>1, <2>2
<1>6. Bad = {}
  <2> SUFFICES ASSUME Bad # {} PROVE FALSE
    OBVIOUS
  <2>1. PICK i \in Bad : \A j \in Bad : i <= j
    <3>1. Bad \subseteq Nat
      OBVIOUS
    <3> HIDE DEF Bad
    <3> QED BY <3>1, LeastNumber
  <2>2. i \in Nat /\ i <= T /\ ~OnWay(i)
    OBVIOUS
  <2>3. i # 0
    BY <1>5, <2>2
  <2>4. i - 1 \in Nat /\ i - 1 <= T /\ ~(i <= i - 1) /\ i \in 0 .. T
    BY <1>1, <2>2, <2>3
  <2>5. OnWay(i - 1)
    <3>1. i - 1 \notin Bad
      BY <2>1, <2>4, Zenon
    <3> QED BY <2>4, <3>1
  <2> DEFINE x == g[i - 1]
  <2>6. x \in Nodes(nParts) /\ x[1] = T - (i - 1) /\ x[1] > 0 /\ contains(box[x], p)
    BY <1>1, <2>2, <2>4, <2>5
  <2>7. g[i] = IF contains(box[left(x)], p) THEN left(x) ELSE right(x)
    BY <1>4, <2>3, <2>4
  <2> HIDE DEF x, OnWay, Bad
  <2>8. Splits(x)
    BY <2>6 DEF Machine, CutsKeepEntities, Before
  <2>9. contains(box[left(x)], p) \/ (HasRight(nParts, x) /\ contains(box[right(x)], p))
    BY <2>6, <2>8 DEF Splits, p
  <2>10. /\ left(x) \in Nodes(nParts) /\ (HasRight(nParts, x) => right(x) \in Nodes(nParts))
         /\ left(x)[1] = x[1] - 1 /\ right(x)[1] = x[1] - 1
    BY <1>1, <2>6, Below
  <2>11. g[i] \in Nodes(nParts) /\ g[i][1] = x[1] - 1 /\ contains(box[g[i]], p)
    BY <2>7, <2>9, <2>10
  <2>12. x[1] - 1 = T - i
    BY <1>1, <2>2, <2>6
  <2> QED BY <2>2, <2>11, <2>12 DEF OnWay
<1>7. OnWay(T)
  <2>1. T \notin Bad
    BY <1>6
  <2> QED BY <1>1, <2>1
<1>8. g[T] \in Nodes(nParts) /\ g[T][1] = 0 /\ contains(box[g[T]], p)
  BY <1>1, <1>7
<1>9. g[T] = <<0, g[T][2]>> /\ g[T][2] \in Nat /\ g[T][2] * 2^0 < nParts
  BY <1>1, <1>8, NodeIs
<1>10. g[T][2] < nParts
  BY <1>9, PowerOfZero
<1>11. g[T][2] \in PartIds /\ g[T] = Leaf(g[T][2])
  BY <1>1, <1>9, <1>10 DEF PartIds, Leaf
<1> QED BY <1>3, <1>8, <1>11 DEF p

\* Two entities near each other: each is in the ghost box of the other's part, and so the
\* two ghost boxes overlap.
LEMMA NearBoxes ==
  ASSUME NEW a, Solid(a), NEW b, Solid(b), NEW len \in Nat, NEW p \in [Axes -> Int], NEW q \in [Axes -> Int],
         contains(a, p), contains(b, q), \A d \in Axes : p[d] - q[d] \in -len .. len
  PROVE  /\ contains(Expanded(a, len), q)
         /\ intersectsWith(Expanded(b, len), Expanded(a, len))
<1> DEFINE wa == Expanded(a, len)
           wb == Expanded(b, len)
<1>1. \A d \in Axes : /\ a.lo[d] \in Int /\ a.hi[d] \in Int /\ b.lo[d] \in Int /\ b.hi[d] \in Int
                     /\ a.lo[d] <= a.hi[d] /\ b.lo[d] <= b.hi[d]
  BY BoxFields DEF Solid
<1>2. \A d \in Axes : wa.lo[d] = a.lo[d] - len /\ wa.hi[d] = a.hi[d] + len
  BY ExpandedBox DEF Solid
<1>3. \A d \in Axes : wb.lo[d] = b.lo[d] - len /\ wb.hi[d] = b.hi[d] + len
  BY ExpandedBox DEF Solid
<1>4. \A d \in Axes : /\ p[d] \in Int /\ q[d] \in Int /\ p[d] - q[d] <= len /\ q[d] - p[d] <= len
                     /\ a.lo[d] <= p[d] /\ p[d] <= a.hi[d] /\ b.lo[d] <= q[d] /\ q[d] <= b.hi[d]
  BY DEF contains
<1> HIDE DEF wa, wb
<1>5. contains(wa, q)
  BY <1>1, <1>2, <1>4 DEF contains
<1>6. intersectsWith(wb, wa)
  BY <1>1, <1>2, <1>3, <1>4 DEF intersectsWith
<1> QED BY <1>5, <1>6 DEF wa, wb

LEMMA GenerateKeeps ==
  ASSUME Machine, generatePartitioning
  PROVE  PartitionIInv'
<1> DEFINE domain == [e \in Entities |-> DetermineDomain(coord[e])]
<1>1. /\ node[1] = 0 /\ UNCHANGED <<inputs, todo, axes, cut, box, ghostBox>> /\ UNCHANGED inputs
      /\ parts' = [i \in PartIds |->
           [ own |-> {e \in Entities : domain[e] = i},
             ghost |-> {e \in Entities : /\ i \in Neighbours(domain[e])
                                         /\ contains(ghostBox[Leaf(i)], coord[e])} ]]
  BY DEF generatePartitioning
<1>2. \A e \in Entities : domain[e] \in PartIds /\ contains(box[Leaf(domain[e])], coord[e])
  BY <1>1, DomainHasEntity
<1>3. coord' = coord /\ nParts' = nParts /\ ghostLen' = ghostLen /\ box' = box /\ ghostBox' = ghostBox
  BY <1>1 DEF inputs
<1>4. PartIds' = PartIds
  BY <1>3 DEF PartIds
<1>5. Types /\ nParts \in Nat \ {0} /\ ghostLen \in Nat /\ axes = <<>>
  <2>1. Types
    BY DEF Machine
  <2>2. axes # <<>> => node[1] > 0
    BY <2>1 DEF Types
  <2> QED BY <1>1, <2>1, <2>2, InputTypes
<1>6. \A i \in PartIds :
        /\ Solid(box[Leaf(i)])
        /\ ghostBox[Leaf(i)] # Empty => ghostBox[Leaf(i)] = Expanded(box[Leaf(i)], ghostLen)
  <2> SUFFICES ASSUME NEW i \in PartIds
               PROVE  /\ Solid(box[Leaf(i)])
                      /\ ghostBox[Leaf(i)] # Empty => ghostBox[Leaf(i)] = Expanded(box[Leaf(i)], ghostLen)
    OBVIOUS
  <2>1. Leaf(i) \in Nodes(nParts)
    BY <1>5, LeafIsNode DEF PartIds
  <2>2. Placed(Leaf(i))
    BY <1>1, <1>5, <2>1, PlacedNodes
  <2> QED BY <2>1, <2>2 DEF Machine, PlacedBoxes
<1> HIDE DEF domain
<1>7. \A i \in PartIds :
        /\ parts'[i].own = {e \in Entities : domain[e] = i}
        /\ parts'[i].ghost = {e \in Entities : /\ i \in Neighbours(domain[e])
                                              /\ contains(ghostBox[Leaf(i)], coord[e])}
  BY <1>1
<1>8. Machine'
  BY <1>1, MachineStays
<1>9. PartsLast'
  <2>1. node' = node /\ axes' = axes
    BY <1>1 DEF node
  <2> QED BY <1>1, <1>5, <2>1 DEF PartsLast
<1>10. OwnedInBox'
  <2> SUFFICES ASSUME NEW i \in PartIds, NEW e \in parts'[i].own PROVE contains(box[Leaf(i)], coord[e])
    BY <1>3, <1>4 DEF OwnedInBox
  <2> QED BY <1>2, <1>7
<1>11. NearEntitiesMeet'
  <2> SUFFICES ASSUME AllCutsFound, NEW i \in PartIds, NEW e \in parts'[i].own, NEW f \in Entities, Near(e, f)
               PROVE  f \in parts'[i].own \cup parts'[i].ghost
    <3>1. AllCutsFound' <=> AllCutsFound
      BY <1>3, <1>4, Zenon DEF AllCutsFound
    <3>2. \A e, f : Near(e, f)' <=> Near(e, f)
      BY <1>3, Zenon DEF Near
    <3> QED BY <1>4, <3>1, <3>2, Zenon DEF NearEntitiesMeet
  <2> DEFINE j == domain[f]
  <2>1. e \in Entities /\ domain[e] = i /\ j \in PartIds
    BY <1>2, <1>7
  <2>2. contains(box[Leaf(i)], coord[e]) /\ contains(box[Leaf(j)], coord[f])
    BY <1>2, <2>1
  <2>3. CASE j = i
    BY <1>7, <2>3
  <2>4. CASE j # i
    <3>1. /\ ghostBox[Leaf(i)] = Expanded(box[Leaf(i)], ghostLen)
          /\ ghostBox[Leaf(j)] = Expanded(box[Leaf(j)], ghostLen)
          /\ Solid(box[Leaf(i)]) /\ Solid(box[Leaf(j)])
      BY <1>6, <2>1 DEF AllCutsFound
    <3>2. coord[e] \in [Axes -> Int] /\ coord[f] \in [Axes -> Int]
      BY <1>5, <2>1, Places DEF Types
    <3>3. \A d \in Axes : coord[e][d] - coord[f][d] \in -ghostLen .. ghostLen
      BY DEF Near
    <3> HIDE DEF j
    <3>4. /\ contains(Expanded(box[Leaf(i)], ghostLen), coord[f])
          /\ intersectsWith(Expanded(box[Leaf(j)], ghostLen), Expanded(box[Leaf(i)], ghostLen))
      BY <1>5, <2>2, <3>1, <3>2, <3>3, NearBoxes
    <3>5. i \in Neighbours(j)
      BY <2>4, <3>1, <3>4 DEF Neighbours
    <3> QED BY <1>7, <3>1, <3>4, <3>5 DEF j
  <2> QED BY <2>3, <2>4
<1> QED BY <1>8, <1>9, <1>10, <1>11 DEF PartitionIInv

LEMMA Keeps == PartitionIInv /\ [PartitionNext]_partitionVars => PartitionIInv'
<1> SUFFICES ASSUME PartitionIInv, [PartitionNext]_partitionVars PROVE PartitionIInv'
  OBVIOUS
<1>1. Machine
  BY DEF PartitionIInv
<1>2. CASE Cut
  <2>1. Machine'
    BY <1>1, <1>2, PassDownKeeps, BeginNodeKeeps, AcceptKeeps, CutAgainKeeps, NewAxisKeeps DEF Cut
  <2>2. parts' = <<>>
    BY <1>2 DEF Cut, PassDown, BeginNode, Accept, CutAgain, NewAxis, Cutting
  <2> QED BY <2>1, <2>2 DEF PartitionIInv, PartsLast, OwnedInBox, NearEntitiesMeet
<1>3. CASE generatePartitioning
  BY <1>1, <1>3, GenerateKeeps
<1>4. CASE UNCHANGED partitionVars
  <2>1. UNCHANGED <<inputs, todo, axes, cut, box, ghostBox>>
    BY <1>4 DEF partitionVars
  <2>2. Machine'
    BY <1>1, <2>1, MachineStays
  <2>3. /\ parts' = parts /\ axes' = axes /\ node' = node /\ coord' = coord /\ nParts' = nParts
        /\ ghostLen' = ghostLen /\ box' = box /\ ghostBox' = ghostBox
    BY <1>4 DEF partitionVars, inputs, node
  <2>4. PartsLast' /\ OwnedInBox' /\ NearEntitiesMeet'
    BY <2>3, Zenon DEF PartitionIInv, PartsLast, OwnedInBox, NearEntitiesMeet, AllCutsFound, Near, PartIds
  <2> QED BY <2>2, <2>4 DEF PartitionIInv
<1> QED BY <1>2, <1>3, <1>4 DEF PartitionNext, Done

LEMMA WindowKept == Machine => WindowKeepsGoodCuts
<1> SUFFICES ASSUME Machine, Cutting, NEW c \in box[node].lo[Head(axes)] .. box[node].hi[Head(axes)],
                    c < cut.min \/ c > cut.max
             PROVE  LET n == CountEntities(box[node], Head(axes), c) IN TooFew(n) \/ TooMany(n)
  BY DEF WindowKeepsGoodCuts
<1>1. WindowFor(box[node], Head(axes), cut)
  BY DEF Machine, WindowHolds, Cutting
<1> QED BY <1>1 DEF WindowFor

-----------------------------------------------------------------------------
\* RCB for any number of entities and parts: an entity is sent to a part whose box it is in,
\* entities within the ghost length meet, and the bisection never loses a cut that would do.
THEOREM PartitionComplete == PartitionSpec => []PartsAreComplete
<1>1. PartitionIInv => PartsAreComplete
  BY WindowKept DEF PartitionIInv, PartsAreComplete
<1> QED BY <1>1, Begins, Keeps, PTL DEF PartitionSpec

-----------------------------------------------------------------------------
(***************************************************************************)
(* What the tree of SendTree carries. A node is above the rank it carries; *)
(* it carries the root if it is above the root, and otherwise the first of *)
(* its leaves.                                                             *)
(***************************************************************************)
Carried(from, x) == IF from \div 2^x[1] = x[2] THEN from ELSE x[2] * 2^x[1]

\* The rule by which the tree is filled, from the leaves up.
Filled(g, from) ==
  g = [x \in Nodes(TreeSize) |->
         IF x[1] = 0 THEN x[2]
         ELSE IF HasRight(TreeSize, x) /\ g[right(x)] = from THEN from ELSE g[left(x)]]

\* The rank a node carries is below it.
LEMMA CarriedBelow ==
  ASSUME SendTreeAssumption, NEW from \in Members, NEW x \in Nodes(TreeSize)
  PROVE  /\ Carried(from, x) \in Members
         /\ Carried(from, x) \div 2^x[1] = x[2]
         /\ x[1] = 0 => Carried(from, x) = x[2]
<1>1. TreeSize \in Nat \ {0} /\ from \in Nat
  BY DEF SendTreeAssumption, Members
<1>2. x[1] \in Nat /\ x[2] \in Nat /\ x[2] * 2^x[1] < TreeSize
  BY <1>1, NodeIs, TopFacts
<1>3. 2^x[1] \in Nat \ {0} /\ 2^0 = 1
  BY <1>2, Powers
<1> DEFINE p == x[2] * 2^x[1]
<1>4. p \in Nat /\ p \div 2^x[1] = x[2]
  <2>1. p \in Nat
    BY <1>2, <1>3
  <2> QED BY <1>2, <2>1, AncestorIs
<1>5. p \in Members
  BY <1>1, <1>2, <1>4 DEF Members
<1>6. x[1] = 0 => p = x[2] /\ from \div 2^x[1] = from
  <2> SUFFICES ASSUME x[1] = 0 PROVE p = x[2] /\ from \div 2^x[1] = from
    OBVIOUS
  <2>1. 2^x[1] = 1
    BY <1>3, Zenon
  <2> QED BY <1>1, <1>2, <2>1
<1> HIDE DEF p
<1>7. Carried(from, x) = IF from \div 2^x[1] = x[2] THEN from ELSE p
  BY DEF Carried, p
<1> QED BY <1>4, <1>5, <1>6, <1>7

\* What the children of a node carry, and the node with them.
LEMMA CarriedUp ==
  ASSUME SendTreeAssumption, NEW from \in Members, NEW x \in Nodes(TreeSize), x[1] > 0
  PROVE  Carried(from, x) = IF HasRight(TreeSize, x) /\ Carried(from, right(x)) = from
                            THEN from ELSE Carried(from, left(x))
<1> DEFINE h == x[1] - 1
           i == x[2]
           m == 2^h
           q == from \div m
<1>1. TreeSize \in Nat \ {0} /\ from \in Nat /\ from < TreeSize
  BY DEF SendTreeAssumption, Members
<1>2. x[1] \in Nat /\ i \in Nat /\ h \in Nat /\ h + 1 = x[1] /\ i * 2^x[1] < TreeSize
  BY <1>1, NodeIs, TopFacts
<1>3. m \in Nat \ {0} /\ 2^x[1] = 2 * m
  BY <1>2, Powers
<1>4. from \div 2^x[1] = q \div 2
  BY <1>1, <1>2, NextQuotient
<1>5. left(x) = <<h, 2 * i>> /\ right(x) = <<h, 2 * i + 1>>
  BY DEF left, right
<1>6. /\ left(x)[1] = h /\ left(x)[2] = 2 * i
      /\ right(x)[1] = h /\ right(x)[2] = 2 * i + 1
  BY <1>5
<1>7. q \in Nat /\ q * m <= from
  BY <1>1, <1>3, Quotient
<1> HIDE DEF h, i, m, q
<1>8. q \div 2 = i <=> q = 2 * i \/ q = 2 * i + 1
  BY <1>2, <1>7
<1>9. /\ Carried(from, left(x)) = IF q = 2 * i THEN from ELSE (2 * i) * m
      /\ Carried(from, right(x)) = IF q = 2 * i + 1 THEN from ELSE (2 * i + 1) * m
      /\ Carried(from, x) = IF q = 2 * i \/ q = 2 * i + 1 THEN from ELSE i * (2 * m)
  <2>1. Carried(from, left(x)) = IF q = 2 * i THEN from ELSE (2 * i) * m
    BY <1>6, Zenon DEF Carried, q, m
  <2>2. Carried(from, right(x)) = IF q = 2 * i + 1 THEN from ELSE (2 * i + 1) * m
    BY <1>6, Zenon DEF Carried, q, m
  <2>3. Carried(from, x) = IF q \div 2 = i THEN from ELSE i * (2 * m)
    BY <1>3, <1>4, Zenon DEF Carried, i
  <2> QED BY <1>8, <2>1, <2>2, <2>3
<1>10. (2 * i) * m = i * (2 * m)
  BY <1>2, <1>3
<1>11. (2 * i + 1) * m = from => q = 2 * i + 1
  <2> SUFFICES ASSUME (2 * i + 1) * m = from PROVE q = 2 * i + 1
    OBVIOUS
  <2>1. 2 * i + 1 \in Nat
    BY <1>2
  <2> QED BY <1>1, <1>2, <2>1, AncestorIs DEF q, m
<1>12. q = 2 * i + 1 => HasRight(TreeSize, x)
  <2> SUFFICES ASSUME q = 2 * i + 1 PROVE HasRight(TreeSize, x)
    OBVIOUS
  <2>1. (2 * i + 1) * m <= from
    BY <1>7
  <2>2. (2 * i + 1) * m < TreeSize /\ 2 * i + 1 \in Nat
    BY <1>1, <1>2, <1>3, <2>1
  <2>3. 2 * i + 1 < Width(TreeSize, h)
    BY <1>1, <1>2, <2>2, WidthFacts DEF m
  <2> QED BY <2>3 DEF HasRight, h, i
<1> QED BY <1>9, <1>10, <1>11, <1>12, Zenon

\* BuildSendTree carries just that.
LEMMA TreeCarries ==
  ASSUME SendTreeAssumption, NEW from \in Members, NEW x \in Nodes(TreeSize)
  PROVE  BuildSendTree(from)[x] = Carried(from, x)
<1> DEFINE w == [y \in Nodes(TreeSize) |-> Carried(from, y)]
           g == CHOOSE f : Filled(f, from)
<1>1. TreeSize \in Nat \ {0}
  BY DEF SendTreeAssumption
<1>2. Filled(w, from)
  <2>1. ASSUME NEW y \in Nodes(TreeSize)
        PROVE  Carried(from, y) = IF y[1] = 0 THEN y[2]
                 ELSE IF HasRight(TreeSize, y) /\ w[right(y)] = from THEN from ELSE w[left(y)]
    <3>1. CASE y[1] = 0
      BY <3>1, CarriedBelow
    <3>2. CASE y[1] # 0
      <4>1. y[1] > 0
        BY <1>1, <3>2, NodeIs, TopFacts
      <4>2. left(y) \in Nodes(TreeSize) /\ (HasRight(TreeSize, y) => right(y) \in Nodes(TreeSize))
        BY <1>1, <4>1, Below
      <4>3. w[left(y)] = Carried(from, left(y)) /\ (HasRight(TreeSize, y) => w[right(y)] = Carried(from, right(y)))
        BY <4>2
      <4> HIDE DEF w
      <4> QED BY <3>2, <4>1, <4>3, CarriedUp
    <3> QED BY <3>1, <3>2
  <2> QED BY <2>1 DEF Filled
<1>3. Filled(g, from)
  BY <1>2
<1>4. BuildSendTree(from) = [y \in Nodes(TreeSize) |-> g[y]]
  BY DEF BuildSendTree, Filled
<1> DEFINE Same(h) == \A y \in Nodes(TreeSize) : y[1] = h => g[y] = Carried(from, y)
           Bad == {h \in Nat : ~Same(h)}
<1> HIDE DEF g
<1>5. Bad = {}
  <2> SUFFICES ASSUME Bad # {} PROVE FALSE
    OBVIOUS
  <2>1. PICK h \in Bad : \A k \in Bad : h <= k
    <3>1. Bad \subseteq Nat
      OBVIOUS
    <3> HIDE DEF Bad
    <3> QED BY <3>1, LeastNumber
  <2>2. h \in Nat /\ ~Same(h)
    OBVIOUS
  <2>3. h > 0 => Same(h - 1)
    <3> SUFFICES ASSUME h > 0 PROVE Same(h - 1)
      OBVIOUS
    <3>1. h - 1 \in Nat /\ ~(h <= h - 1)
      BY <2>2
    <3>2. h - 1 \notin Bad
      BY <2>1, <3>1, Zenon
    <3> QED BY <3>1, <3>2
  <2>4. PICK y \in Nodes(TreeSize) : y[1] = h /\ g[y] # Carried(from, y)
    BY <2>2
  <2> HIDE DEF Bad
  <2>5. g[y] = IF y[1] = 0 THEN y[2]
               ELSE IF HasRight(TreeSize, y) /\ g[right(y)] = from THEN from ELSE g[left(y)]
    BY <1>3 DEF Filled
  <2>6. CASE h = 0
    BY <2>4, <2>5, <2>6, CarriedBelow
  <2>7. CASE h > 0
    <3>1. /\ left(y) \in Nodes(TreeSize) /\ (HasRight(TreeSize, y) => right(y) \in Nodes(TreeSize))
          /\ left(y)[1] = h - 1 /\ right(y)[1] = h - 1
      BY <1>1, <2>4, <2>7, Below
    <3>2. g[left(y)] = Carried(from, left(y)) /\ (HasRight(TreeSize, y) => g[right(y)] = Carried(from, right(y)))
      BY <2>3, <2>7, <3>1
    <3>3. g[y] = IF HasRight(TreeSize, y) /\ Carried(from, right(y)) = from
                 THEN from ELSE Carried(from, left(y))
      BY <2>2, <2>4, <2>5, <2>7, <3>2
    <3> QED BY <2>4, <2>7, <3>3, CarriedUp
  <2> QED BY <2>2, <2>6, <2>7
<1>6. x[1] \in Nat
  BY <1>1, NodeIs, TopFacts
<1>7. Same(x[1])
  <2>1. x[1] \notin Bad
    BY <1>5
  <2> QED BY <1>6, <2>1
<1>8. g[x] = Carried(from, x)
  BY <1>7
<1> QED BY <1>4, <1>8

-----------------------------------------------------------------------------
(***************************************************************************)
(* The nodes that carry a rank are a way down to its leaf; the highest of  *)
(* them hangs below a node of the rank it hears from.                      *)
(***************************************************************************)
peak == <<Top(TreeSize), 0>>
Parent(carries, r) == carries[root(Entry(carries, r))]

LEMMA NodesCarry ==
  ASSUME SendTreeAssumption, NEW from \in Members, NEW x \in Nodes(TreeSize), NEW T, T = BuildSendTree(from)
  PROVE  /\ T[x] \in Members /\ T[x] \div 2^x[1] = x[2]
         /\ x[1] \in Nat /\ x[1] <= Top(TreeSize) /\ Top(TreeSize) \in Nat
         /\ x = <<x[1], x[2]>>
BY CarriedBelow, TreeCarries, NodeIs, TopFacts DEF SendTreeAssumption

\* On every level at most one node carries a rank.
LEMMA OnePerLevel ==
  ASSUME SendTreeAssumption, NEW from \in Members, NEW T, T = BuildSendTree(from),
         NEW x \in Nodes(TreeSize), NEW y \in Nodes(TreeSize), x[1] = y[1], T[x] = T[y]
  PROVE  x = y
<1>1. x = <<x[1], T[x] \div 2^x[1]>>
  BY NodesCarry
<1>2. y = <<y[1], T[y] \div 2^y[1]>>
  BY NodesCarry
<1> QED BY <1>1, <1>2

LEMMA LeafCarries ==
  ASSUME SendTreeAssumption, NEW from \in Members, NEW T, T = BuildSendTree(from), NEW r \in Members
  PROVE  /\ Leaf(r) \in Nodes(TreeSize) /\ T[Leaf(r)] = r /\ Leaf(r)[1] = 0
         /\ peak \in Nodes(TreeSize) /\ T[peak] = from /\ peak[1] = Top(TreeSize)
<1>1. TreeSize \in Nat \ {0} /\ from \in 0 .. TreeSize - 1 /\ r \in 0 .. TreeSize - 1
  BY DEF SendTreeAssumption, Members
<1>2. Leaf(r) \in Nodes(TreeSize) /\ Leaf(r)[1] = 0 /\ Leaf(r)[2] = r
  BY <1>1, LeafIsNode DEF Leaf
<1>3. T[Leaf(r)] = r
  BY <1>2, TreeCarries, CarriedBelow
<1>4. peak \in Nodes(TreeSize) /\ peak[1] = Top(TreeSize) /\ peak[2] = 0
  BY <1>1, TopNode DEF peak
<1>5. from \div 2^Top(TreeSize) = 0
  <2>1. Top(TreeSize) \in 0 .. Top(TreeSize)
    BY <1>1, TopFacts
  <2>2. Ancestor(from, Top(TreeSize)) = <<Top(TreeSize), 0>>
    BY <1>1, <2>1, Ancestors
  <2> QED BY <2>2 DEF Ancestor
<1>6. T[peak] = from
  BY <1>4, <1>5, TreeCarries, Zenon DEF Carried
<1> QED BY <1>2, <1>3, <1>4, <1>6

\* The climb ends somewhere.
LEMMA EntryIs ==
  ASSUME SendTreeAssumption, NEW from \in Members, NEW T, T = BuildSendTree(from), NEW r \in Members
  PROVE  /\ Entry(T, r) \in Nodes(TreeSize) /\ T[Entry(T, r)] = r
         /\ Entry(T, r)[1] \in Nat /\ Entry(T, r)[1] <= Top(TreeSize)
         /\ \A y \in Nodes(TreeSize) : T[y] = r => y[1] <= Entry(T, r)[1]
<1> DEFINE Mine == {y \in Nodes(TreeSize) : T[y] = r}
           Depths == {Top(TreeSize) - y[1] : y \in Mine}
<1>1. Top(TreeSize) \in Nat /\ \A y \in Mine : y[1] \in Nat /\ y[1] <= Top(TreeSize)
  BY NodesCarry, LeafCarries
<1>2. Leaf(r) \in Mine
  BY LeafCarries
<1>3. \E x \in Mine : \A y \in Mine : y[1] <= x[1]
  <2>1. Depths \subseteq Nat /\ Depths # {}
    BY <1>1, <1>2
  <2>2. PICK n \in Depths : \A m \in Depths : n <= m
    <3> HIDE DEF Depths
    <3> QED BY <2>1, LeastNumber
  <2>3. PICK x \in Mine : n = Top(TreeSize) - x[1]
    OBVIOUS
  <2>4. ASSUME NEW y \in Mine PROVE y[1] <= x[1]
    <3>1. n <= Top(TreeSize) - y[1]
      BY <2>2
    <3> HIDE DEF Mine, Depths
    <3> QED BY <1>1, <2>3, <3>1
  <2> QED BY <2>3, <2>4
<1>4. Entry(T, r) \in Mine /\ \A y \in Nodes(TreeSize) : T[y] = r => y[1] <= Entry(T, r)[1]
  BY <1>3 DEF Entry
<1> QED BY <1>1, <1>4

\* Own(x) is a child of x that carries the same rank; the other child, if there is one,
\* carries another.
LEMMA OwnIs ==
  ASSUME SendTreeAssumption, NEW from \in Members, NEW T, T = BuildSendTree(from),
         NEW x \in Nodes(TreeSize), x[1] > 0
  PROVE  /\ Own(T, x) \in Children(x) /\ T[Own(T, x)] = T[x]
         /\ \A y \in Children(x) : /\ y \in Nodes(TreeSize) /\ y[1] = x[1] - 1 /\ root(y) = x
                                   /\ y # Own(T, x) => T[y] # T[x]
<1>1. TreeSize \in Nat \ {0}
  BY DEF SendTreeAssumption
<1>2. /\ left(x) \in Nodes(TreeSize) /\ (HasRight(TreeSize, x) => right(x) \in Nodes(TreeSize))
      /\ root(left(x)) = x /\ root(right(x)) = x
      /\ left(x)[1] = x[1] - 1 /\ right(x)[1] = x[1] - 1
  BY <1>1, Below
<1>3. \A y \in Children(x) : y \in Nodes(TreeSize) /\ y[1] = x[1] - 1 /\ root(y) = x
  BY <1>2 DEF Children
<1>4. T[x] = IF HasRight(TreeSize, x) /\ T[right(x)] = from THEN from ELSE T[left(x)]
  BY <1>2, TreeCarries, CarriedUp
<1>5. Own(T, x) \in Children(x) /\ T[Own(T, x)] = T[x]
  BY <1>4 DEF Own, Children
<1>6. \A y \in Children(x) : y # Own(T, x) => T[y] # T[x]
  BY <1>3, <1>5, OnePerLevel
<1> QED BY <1>3, <1>5, <1>6

\* The other children are where the ranks come in that hear from this one.
LEMMA OthersAre ==
  ASSUME SendTreeAssumption, NEW from \in Members, NEW T, T = BuildSendTree(from),
         NEW x \in Nodes(TreeSize), x[1] > 0, NEW s \in Members
  PROVE  s \in Others(T, x) <=> s # from /\ Parent(T, s) = T[x] /\ Entry(T, s)[1] = x[1] - 1
<1>1. TreeSize \in Nat \ {0}
  BY DEF SendTreeAssumption
<1>2. /\ Own(T, x) \in Children(x) /\ T[Own(T, x)] = T[x]
      /\ \A y \in Children(x) : /\ y \in Nodes(TreeSize) /\ y[1] = x[1] - 1 /\ root(y) = x
                                /\ y # Own(T, x) => T[y] # T[x]
  BY OwnIs
<1>3. ASSUME NEW y \in Children(x), y # Own(T, x), T[y] = s
      PROVE  s # from /\ Entry(T, s) = y
  <2>1. y \in Nodes(TreeSize) /\ y[1] = x[1] - 1 /\ root(y) = x /\ s # T[x]
    BY <1>2, <1>3
  <2> DEFINE e == Entry(T, s)
  <2>2. /\ e \in Nodes(TreeSize) /\ T[e] = s /\ e[1] \in Nat /\ y[1] <= e[1]
        /\ y[1] \in Nat /\ x[1] \in Nat /\ e[1] <= Top(TreeSize) /\ x[1] <= Top(TreeSize) /\ Top(TreeSize) \in Nat
    BY <1>3, <2>1, EntryIs, NodesCarry
  <2>3. ASSUME NEW z \in Nodes(TreeSize), T[z] = s, z[1] > y[1] PROVE FALSE
    <3> DEFINE Bad == {k \in Nat : k > y[1] /\ \E v \in Nodes(TreeSize) : T[v] = s /\ v[1] = k}
    <3>1. Bad \subseteq Nat /\ Bad # {}
      BY <2>3, NodesCarry
    <3>2. PICK k \in Bad : \A j \in Bad : k <= j
      <4> HIDE DEF Bad
      <4> QED BY <3>1, LeastNumber
    <3>3. PICK v \in Nodes(TreeSize) : T[v] = s /\ v[1] = k /\ k > y[1] /\ k \in Nat
      BY <3>2
    <3>4. v[1] > 0
      BY <2>2, <3>3
    <3> DEFINE u == Own(T, v)
    <3>5. u \in Nodes(TreeSize) /\ T[u] = s /\ u[1] = k - 1 /\ root(u) = v
      BY <3>3, <3>4, OwnIs
    <3> HIDE DEF u
    <3>6. CASE k - 1 > y[1]
      <4>1. k - 1 \in Nat /\ ~(k <= k - 1)
        BY <2>2, <3>3, <3>6
      <4>2. k - 1 \in Bad
        BY <3>5, <3>6, <4>1
      <4> HIDE DEF Bad
      <4> QED BY <3>2, <4>1, <4>2
    <3>7. CASE ~(k - 1 > y[1])
      <4>1. u[1] = y[1]
        BY <2>2, <3>3, <3>5, <3>7
      <4>2. u = y
        BY <1>3, <2>1, <3>5, <4>1, OnePerLevel
      <4>3. v = x
        BY <2>1, <3>5, <4>2
      <4> QED BY <2>1, <3>3, <4>3
    <3> QED BY <3>6, <3>7
  <2>4. e[1] = y[1]
    BY <2>2, <2>3
  <2>5. e = y
    BY <1>3, <2>1, <2>2, <2>4, OnePerLevel
  <2>6. s # from
    <3> SUFFICES ASSUME s = from PROVE FALSE
      OBVIOUS
    <3>1. peak \in Nodes(TreeSize) /\ T[peak] = s /\ peak[1] = Top(TreeSize)
      BY LeafCarries
    <3>2. peak[1] > y[1]
      BY <2>1, <2>2, <3>1
    <3> QED BY <2>3, <3>1, <3>2
  <2> QED BY <2>5, <2>6
<1>4. ASSUME s \in Others(T, x)
      PROVE  s # from /\ Parent(T, s) = T[x] /\ Entry(T, s)[1] = x[1] - 1
  <2>1. PICK y \in Children(x) : y # Own(T, x) /\ T[y] = s
    BY <1>4 DEF Others
  <2>2. s # from /\ Entry(T, s) = y
    BY <1>3, <2>1
  <2> QED BY <1>2, <2>1, <2>2 DEF Parent
<1>5. ASSUME s # from, Parent(T, s) = T[x], Entry(T, s)[1] = x[1] - 1
      PROVE  s \in Others(T, x)
  <2> DEFINE e == Entry(T, s)
  <2>1. e \in Nodes(TreeSize) /\ T[e] = s /\ \A y \in Nodes(TreeSize) : T[y] = s => y[1] <= e[1]
    BY EntryIs
  <2>2. x[1] \in Nat /\ x[1] <= Top(TreeSize) /\ Top(TreeSize) \in Nat
    BY NodesCarry
  <2>3. e[1] < Top(TreeSize)
    BY <1>5, <2>2
  <2> HIDE DEF e
  <2>4. /\ root(e) \in Nodes(TreeSize) /\ root(e)[1] = e[1] + 1
        /\ e = left(root(e)) \/ (e = right(root(e)) /\ HasRight(TreeSize, root(e)))
    BY <1>1, <2>1, <2>3, Above
  <2>5. root(e) = x
    BY <1>5, <2>2, <2>4, OnePerLevel DEF Parent, e
  <2>6. e \in Children(x)
    BY <2>4, <2>5 DEF Children
  <2>7. T[e] # T[x]
    <3>1. ~(x[1] <= e[1])
      BY <1>5, <2>2 DEF e
    <3> QED BY <2>1, <3>1
  <2> QED BY <1>2, <2>1, <2>6, <2>7 DEF Others
<1> QED BY <1>4, <1>5

\* Every rank but the root hears from another one.
LEMMA Hears ==
  ASSUME SendTreeAssumption, NEW from \in Members, NEW T, T = BuildSendTree(from),
         NEW s \in Members, s # from
  PROVE  /\ Parent(T, s) \in Members /\ Parent(T, s) # s
         /\ Entry(T, s)[1] < Entry(T, Parent(T, s))[1]
<1> DEFINE e == Entry(T, s)
<1>1. TreeSize \in Nat \ {0}
  BY DEF SendTreeAssumption
<1>2. /\ e \in Nodes(TreeSize) /\ T[e] = s /\ e[1] \in Nat /\ e[1] <= Top(TreeSize)
      /\ \A y \in Nodes(TreeSize) : T[y] = s => y[1] <= e[1]
  BY EntryIs
<1>3. Top(TreeSize) \in Nat
  BY <1>1, TopFacts
<1> HIDE DEF e
<1>4. e[1] # Top(TreeSize)
  <2> SUFFICES ASSUME e[1] = Top(TreeSize) PROVE FALSE
    OBVIOUS
  <2>1. e = peak
    BY <1>1, <1>2, TopNode DEF peak
  <2> QED BY <1>2, <2>1, LeafCarries
<1>5. root(e) \in Nodes(TreeSize) /\ root(e)[1] = e[1] + 1
  BY <1>1, <1>2, <1>3, <1>4, Above
<1> DEFINE a == T[root(e)]
<1>6. a \in Members /\ a = Parent(T, s)
  BY <1>5, NodesCarry DEF Parent, e
<1>7. a # s
  BY <1>2, <1>5
<1>8. e[1] < Entry(T, a)[1]
  <2>1. root(e)[1] <= Entry(T, a)[1] /\ Entry(T, a)[1] \in Nat
    BY <1>5, <1>6, EntryIs
  <2> QED BY <1>2, <1>5, <2>1
<1> QED BY <1>6, <1>7, <1>8 DEF e

-----------------------------------------------------------------------------
(***************************************************************************)
(* The inductive invariant: between two ranks are the containers of those  *)
(* calls, in their order, in which the one has sent to the other and the   *)
(* other has not come that far.                                            *)
(***************************************************************************)
Tree(t) == BuildSendTree(Roots[t])
Height(t, r) == Entry(Tree(t), r)[1]
Sender(t, r) == Parent(Tree(t), r)

\* f has come by all its nodes above height h in call t.
Passed(f, t, h) ==
  \/ turn[f] > t
  \/ turn[f] = t /\ \/ mode[f] = "out"
                    \/ mode[f] \in {"rest", "sending"} /\ at[f][1] <= h
Sent(f, r, t) == r # Roots[t] /\ Sender(t, r) = f /\ Passed(f, t, Height(t, r))

TreeTypes ==
  /\ turn \in [Members -> 0 .. Len(Roots)]
  /\ mode \in [Members -> {"out", "recv", "rest", "sending"}]
  /\ at \in [Members -> Nodes(TreeSize)]
  /\ tree = [r \in Members |-> tree[r]]
  /\ letters \in [Members \X Members -> Seq(Members \X Nat)]
  /\ taken \in [Members -> Seq(Members \X Nat)]

RanksFit ==
  \A r \in Members :
    /\ mode[r] # "out" => turn[r] >= 1 /\ tree[r] = Tree(turn[r])
    /\ mode[r] = "recv" => r # Roots[turn[r]] /\ at[r] = Entry(tree[r], r)
    /\ mode[r] \in {"rest", "sending"} => tree[r][at[r]] = r
    /\ Len(taken[r]) = IF mode[r] = "recv" THEN turn[r] - 1 ELSE turn[r]

TakenWereSent ==
  \A r \in Members : \A t \in 1 .. Len(taken[r]) : r # Roots[t] => Sent(Sender(t, r), r, t)

Pending(f, r, t) == Sent(f, r, t) /\ t > Len(taken[r])

\* The letters q from f to r.
Fits(f, r, q) ==
  /\ \A i \in 1 .. Len(q) : q[i][2] \in 1 .. Len(Roots) /\ q[i] = Container(q[i][2]) /\ Pending(f, r, q[i][2])
  /\ \A i \in 1 .. Len(q), j \in 1 .. Len(q) : i < j => q[i][2] < q[j][2]
  /\ \A t \in 1 .. Len(Roots) : Pending(f, r, t) => \E i \in 1 .. Len(q) : q[i][2] = t
LettersFit == \A f \in Members, r \in Members : Fits(f, r, letters[<<f, r>>])

TreeIInv ==
  /\ TreeTypes /\ RanksFit /\ EveryRankServed /\ TakenWereSent /\ LettersFit

-----------------------------------------------------------------------------
(* What is known of the calls. *)

LEMMA CallFacts ==
  ASSUME SendTreeAssumption, NEW t \in 1 .. Len(Roots)
  PROVE  /\ Roots[t] \in Members /\ t \in Nat
         /\ Container(t) \in Members \X Nat /\ Container(t)[2] = t
         /\ Container(t) = Container(Container(t)[2])
         /\ \A r \in Members :
              /\ Height(t, r) \in Nat /\ Height(t, r) <= Top(TreeSize)
              /\ Entry(Tree(t), r) \in Nodes(TreeSize) /\ Tree(t)[Entry(Tree(t), r)] = r
              /\ r # Roots[t] => /\ Sender(t, r) \in Members /\ Sender(t, r) # r
                                 /\ Height(t, r) < Height(t, Sender(t, r))
              /\ \A y \in Nodes(TreeSize) : Tree(t)[y] = r => y[1] <= Height(t, r)
         /\ peak \in Nodes(TreeSize) /\ Tree(t)[peak] = Roots[t] /\ peak[1] = Top(TreeSize)
         /\ Top(TreeSize) \in Nat
<1>1. Roots[t] \in Members /\ t \in Nat
  BY DEF SendTreeAssumption, Members
<1>2. Container(t) = <<Roots[t], t>> /\ Container(t)[2] = t
  BY DEF Container
<1>3. ASSUME NEW r \in Members
      PROVE  /\ Height(t, r) \in Nat /\ Height(t, r) <= Top(TreeSize)
             /\ Entry(Tree(t), r) \in Nodes(TreeSize) /\ Tree(t)[Entry(Tree(t), r)] = r
             /\ \A y \in Nodes(TreeSize) : Tree(t)[y] = r => y[1] <= Height(t, r)
  BY <1>1, EntryIs DEF Height, Tree
<1>4. ASSUME NEW r \in Members, r # Roots[t]
      PROVE  /\ Sender(t, r) \in Members /\ Sender(t, r) # r
             /\ Height(t, r) < Height(t, Sender(t, r))
  BY <1>1, <1>4, Hears DEF Height, Tree, Sender
<1>5. /\ peak \in Nodes(TreeSize) /\ Tree(t)[peak] = Roots[t] /\ peak[1] = Top(TreeSize)
      /\ Top(TreeSize) \in Nat
  <2>1. Top(TreeSize) \in Nat
    BY TopFacts DEF SendTreeAssumption
  <2> QED BY <1>1, <2>1, LeafCarries DEF Tree
<1>6. Container(t) \in Members \X Nat /\ Container(t) = Container(Container(t)[2])
  BY <1>1, <1>2
<1> QED BY <1>1, <1>2, <1>3, <1>4, <1>5, <1>6

LEMMA AtRank ==
  ASSUME TreeTypes, RanksFit, NEW r \in Members
  PROVE  /\ turn[r] \in Nat /\ turn[r] <= Len(Roots) /\ Len(Roots) \in Nat
         /\ mode[r] # "out" => turn[r] \in 1 .. Len(Roots) /\ tree[r] = Tree(turn[r])
         /\ mode[r] = "recv" => r # Roots[turn[r]] /\ at[r] = Entry(tree[r], r)
         /\ mode[r] \in {"rest", "sending"} => tree[r][at[r]] = r
         /\ Len(taken[r]) \in Nat /\ Len(taken[r]) <= turn[r]
         /\ Len(taken[r]) = IF mode[r] = "recv" THEN turn[r] - 1 ELSE turn[r]
         /\ at[r] \in Nodes(TreeSize)
         /\ mode[r] \in {"out", "recv", "rest", "sending"}
         /\ taken[r] \in Seq(Members \X Nat)
<1>1. turn[r] \in 0 .. Len(Roots) /\ taken[r] \in Seq(Members \X Nat) /\ at[r] \in Nodes(TreeSize)
      /\ mode[r] \in {"out", "recv", "rest", "sending"}
  BY DEF TreeTypes
<1>2. /\ mode[r] # "out" => turn[r] >= 1 /\ tree[r] = Tree(turn[r])
      /\ mode[r] = "recv" => r # Roots[turn[r]] /\ at[r] = Entry(tree[r], r)
      /\ mode[r] \in {"rest", "sending"} => tree[r][at[r]] = r
      /\ Len(taken[r]) = IF mode[r] = "recv" THEN turn[r] - 1 ELSE turn[r]
  BY DEF RanksFit
<1>3. Len(taken[r]) \in Nat
  BY <1>1
<1>4. turn[r] \in Nat /\ turn[r] <= Len(Roots) /\ Len(Roots) \in Nat
  BY <1>1
<1>5. mode[r] # "out" => turn[r] \in 1 .. Len(Roots)
  BY <1>2, <1>4
<1> QED BY <1>1, <1>2, <1>3, <1>4, <1>5

\* What is sent was sent in a call that the sender has begun.
LEMMA SentBegun ==
  ASSUME SendTreeAssumption, TreeTypes, RanksFit, NEW f \in Members, NEW r \in Members,
         NEW t \in 1 .. Len(Roots), Sent(f, r, t)
  PROVE  t <= turn[f] /\ (mode[f] = "recv" => t < turn[f])
<1>1. turn[f] \in Nat /\ t \in Nat
  BY AtRank
<1> QED BY <1>1 DEF Sent, Passed

-----------------------------------------------------------------------------
(* What steps leave alone. *)

\* The messages stay right while nothing is sent or received: a rank may only go past a call
\* in which it has nothing to receive.
LEMMA LettersStay ==
  ASSUME TreeTypes, LettersFit, letters' = letters, NEW r \in Members,
         \A f \in Members, s \in Members, t \in 1 .. Len(Roots) : Sent(f, s, t)' <=> Sent(f, s, t),
         \A s \in Members : s # r => taken'[s] = taken[s],
         \/ taken'[r] = taken[r]
         \/ /\ Len(taken'[r]) = Len(taken[r]) + 1
            /\ \A f \in Members : ~Sent(f, r, Len(taken'[r]))
  PROVE  LettersFit'
<1>1. \A f \in Members, s \in Members, t \in 1 .. Len(Roots) : Pending(f, s, t)' <=> Pending(f, s, t)
  <2> SUFFICES ASSUME NEW f \in Members, NEW s \in Members, NEW t \in 1 .. Len(Roots)
               PROVE  Pending(f, s, t)' <=> Pending(f, s, t)
    OBVIOUS
  <2>1. Sent(f, s, t)' <=> Sent(f, s, t)
    OBVIOUS
  <2>2. CASE taken'[s] = taken[s]
    BY <2>1, <2>2 DEF Pending
  <2>3. CASE taken'[s] # taken[s]
    <3>1. s = r /\ Len(taken'[r]) = Len(taken[r]) + 1 /\ ~Sent(f, r, Len(taken'[r]))
      BY <2>3
    <3>2. taken[r] \in Seq(Members \X Nat)
      BY DEF TreeTypes
    <3>3. Len(taken[r]) \in Nat
      BY <3>2
    <3>4. t > Len(taken[r]) <=> t > Len(taken'[r]) \/ t = Len(taken'[r])
      BY <3>1, <3>3
    <3> QED BY <2>1, <3>1, <3>4 DEF Pending
  <2> QED BY <2>2, <2>3
<1>2. \A f \in Members, s \in Members : \A q : Fits(f, s, q) => Fits(f, s, q)'
  BY <1>1 DEF Fits
<1> QED BY <1>2, Zenon DEF LettersFit

\* Where a step of r leaves what r has sent, it leaves what anyone has.
LEMMA SentStays ==
  ASSUME NEW r \in Members,
         \A g \in Members : g # r => turn'[g] = turn[g] /\ mode'[g] = mode[g] /\ at'[g] = at[g],
         \A s \in Members, t \in 1 .. Len(Roots) :
           s # Roots[t] /\ Sender(t, s) = r => (Passed(r, t, Height(t, s))' <=> Passed(r, t, Height(t, s)))
  PROVE  \A f \in Members, s \in Members, t \in 1 .. Len(Roots) : Sent(f, s, t)' <=> Sent(f, s, t)
<1> SUFFICES ASSUME NEW f \in Members, NEW s \in Members, NEW t \in 1 .. Len(Roots)
             PROVE  Sent(f, s, t)' <=> Sent(f, s, t)
  OBVIOUS
<1>1. CASE f = r
  BY <1>1 DEF Sent
<1>2. CASE f # r
  BY <1>2 DEF Sent, Passed
<1> QED BY <1>1, <1>2

\* What was taken has been sent, if all that was sent still is.
LEMMA TakenStay ==
  ASSUME SendTreeAssumption, TreeTypes, RanksFit, TakenWereSent, EveryRankServed, NEW r \in Members,
         \A f \in Members, s \in Members, t \in 1 .. Len(Roots) : Sent(f, s, t) => Sent(f, s, t)',
         \A s \in Members : s # r => taken'[s] = taken[s],
         \/ taken'[r] = taken[r]
         \/ /\ taken'[r] = Append(taken[r], Container(Len(taken[r]) + 1))
            /\ Len(taken[r]) + 1 \in 1 .. Len(Roots)
            /\ \A t \in 1 .. Len(Roots) :
                 t = Len(taken[r]) + 1 => r = Roots[t] \/ Sent(Sender(t, r), r, t)'
  PROVE  TakenWereSent' /\ EveryRankServed'
<1>1. ASSUME NEW s \in Members, NEW t \in 1 .. Len(taken'[s])
      PROVE  /\ s # Roots[t] => Sent(Sender(t, s), s, t)'
             /\ taken'[s][t] = Container(t)
  <2>1. /\ taken[s] \in Seq(Members \X Nat) /\ Len(taken[s]) \in Nat /\ Len(taken[s]) <= Len(Roots)
        /\ Len(Roots) \in Nat
    BY AtRank
  <2>2. CASE t \in 1 .. Len(taken[s])
    <3>1. t \in 1 .. Len(Roots)
      BY <2>1, <2>2
    <3>2. s # Roots[t] => Sender(t, s) \in Members
      BY <3>1, CallFacts
    <3>3. s # Roots[t] => Sent(Sender(t, s), s, t)
      BY <2>2 DEF TakenWereSent
    <3>4. s # Roots[t] => Sent(Sender(t, s), s, t)'
      BY <3>1, <3>2, <3>3
    <3>5. taken[s][t] = Container(t)
      BY <2>2 DEF EveryRankServed
    <3>6. taken'[s][t] = taken[s][t]
      BY <2>1, <2>2
    <3> QED BY <3>4, <3>5, <3>6
  <2>3. CASE t \notin 1 .. Len(taken[s])
    <3>1. s = r /\ taken'[r] = Append(taken[r], Container(Len(taken[r]) + 1))
      BY <1>1, <2>3
    <3>2. t = Len(taken[r]) + 1
      BY <1>1, <2>1, <2>3, <3>1
    <3>3. taken'[r][t] = Container(t)
      BY <2>1, <3>1, <3>2
    <3>4. s = Roots[t] \/ Sent(Sender(t, s), s, t)'
      <4>1. taken'[r] # taken[r]
        BY <2>1, <3>1, <3>2, <1>1
      <4> QED BY <3>1, <3>2, <4>1
    <3> QED BY <3>1, <3>3, <3>4
  <2> QED BY <2>2, <2>3
<1> QED BY <1>1 DEF TakenWereSent, EveryRankServed

-----------------------------------------------------------------------------
(* The steps. *)

LEMMA BeginsCall ==
  ASSUME SendTreeAssumption, TreeIInv, NEW r \in Members, SendAll(r) \/ RecvSendAll(r)
  PROVE  TreeIInv'
<1> DEFINE k == turn[r] + 1
           root_ == r = Roots[k]
<1>1. TreeTypes /\ RanksFit /\ EveryRankServed /\ TakenWereSent /\ LettersFit
  BY DEF TreeIInv
<1>2. mode[r] = "out" /\ turn[r] < Len(Roots)
  BY DEF SendAll, RecvSendAll, Call
<1>3. /\ k \in 1 .. Len(Roots) /\ turn[r] \in Nat /\ turn[r] < k
      /\ Len(taken[r]) = turn[r] /\ taken[r] \in Seq(Members \X Nat)
  BY <1>1, <1>2, AtRank
<1>4. /\ turn' = [turn EXCEPT ![r] = k]
      /\ tree' = [tree EXCEPT ![r] = BuildSendTree(Roots[turn'[r]])]
      /\ at' = [at EXCEPT ![r] = IF root_ THEN peak ELSE Entry(tree'[r], r)]
      /\ mode' = [mode EXCEPT ![r] = IF root_ THEN "rest" ELSE "recv"]
      /\ letters' = letters
      /\ taken' = IF root_ THEN [taken EXCEPT ![r] = Append(@, Container(turn[r] + 1))] ELSE taken
  BY DEF SendAll, RecvSendAll, Call, peak
<1>5. /\ Container(k) \in Members \X Nat /\ peak \in Nodes(TreeSize)
      /\ Entry(Tree(k), r) \in Nodes(TreeSize)
      /\ Tree(k)[peak] = Roots[k] /\ peak[1] = Top(TreeSize) /\ Top(TreeSize) \in Nat
  BY <1>3, CallFacts
<1>6. turn'[r] = k /\ tree'[r] = Tree(k)
  BY <1>1, <1>4 DEF TreeTypes, Tree
<1> HIDE DEF k, root_
<1>7. /\ at'[r] = IF root_ THEN peak ELSE Entry(Tree(k), r)
      /\ mode'[r] = IF root_ THEN "rest" ELSE "recv"
      /\ \A s \in Members : s # r => /\ turn'[s] = turn[s] /\ tree'[s] = tree[s] /\ at'[s] = at[s]
                                     /\ mode'[s] = mode[s] /\ taken'[s] = taken[s]
  BY <1>1, <1>4, <1>6 DEF TreeTypes
<1>8. /\ taken'[r] = IF root_ THEN Append(taken[r], Container(k)) ELSE taken[r]
      /\ Len(taken'[r]) = IF root_ THEN k ELSE k - 1
  <2>1. taken'[r] = IF root_ THEN Append(taken[r], Container(k)) ELSE taken[r]
    BY <1>1, <1>4 DEF TreeTypes, k
  <2> QED BY <1>3, <1>5, <2>1 DEF k
<1>9. TreeTypes'
  <2>1. turn' \in [Members -> 0 .. Len(Roots)]
    <3>1. k \in 0 .. Len(Roots)
      BY <1>3
    <3> QED BY <1>1, <1>4, <3>1 DEF TreeTypes
  <2>5. tree' = [s \in Members |-> tree'[s]]
    BY <1>1, <1>4 DEF TreeTypes
  <2>2. at' \in [Members -> Nodes(TreeSize)]
    BY <1>1, <1>4, <1>5, <1>6 DEF TreeTypes
  <2>3. mode' \in [Members -> {"out", "recv", "rest", "sending"}]
    BY <1>1, <1>4 DEF TreeTypes
  <2>4. taken' \in [Members -> Seq(Members \X Nat)]
    BY <1>1, <1>4, <1>5 DEF TreeTypes, k
  <2> QED BY <1>1, <1>4, <2>1, <2>2, <2>3, <2>4, <2>5 DEF TreeTypes
<1>10. RanksFit'
  <2> SUFFICES ASSUME NEW s \in Members
               PROVE  /\ mode'[s] # "out" => turn'[s] >= 1 /\ tree'[s] = Tree(turn'[s])
                      /\ mode'[s] = "recv" => s # Roots[turn'[s]] /\ at'[s] = Entry(tree'[s], s)
                      /\ mode'[s] \in {"rest", "sending"} => tree'[s][at'[s]] = s
                      /\ Len(taken'[s]) = IF mode'[s] = "recv" THEN turn'[s] - 1 ELSE turn'[s]
    BY DEF RanksFit
  <2>1. CASE s = r
    <3>1. k >= 1 /\ k \in Nat
      BY <1>3
    <3>2. CASE root_
      <4>1. mode'[r] = "rest" /\ at'[r] = peak /\ Len(taken'[r]) = k /\ Tree(k)[peak] = r
        BY <1>5, <1>7, <1>8, <3>2 DEF root_
      <4> QED BY <1>6, <2>1, <3>1, <4>1
    <3>3. CASE ~root_
      <4>1. mode'[r] = "recv" /\ at'[r] = Entry(Tree(k), r) /\ Len(taken'[r]) = k - 1 /\ r # Roots[k]
        BY <1>7, <1>8, <3>3 DEF root_
      <4> QED BY <1>6, <2>1, <3>1, <4>1
    <3> QED BY <3>2, <3>3
  <2>2. CASE s # r
    <3>1. /\ turn'[s] = turn[s] /\ tree'[s] = tree[s] /\ at'[s] = at[s]
          /\ mode'[s] = mode[s] /\ taken'[s] = taken[s]
      BY <1>7, <2>2
    <3>2. /\ mode[s] # "out" => turn[s] >= 1 /\ tree[s] = Tree(turn[s])
          /\ mode[s] = "recv" => s # Roots[turn[s]] /\ at[s] = Entry(tree[s], s)
          /\ mode[s] \in {"rest", "sending"} => tree[s][at[s]] = s
          /\ Len(taken[s]) = IF mode[s] = "recv" THEN turn[s] - 1 ELSE turn[s]
      BY <1>1 DEF RanksFit
    <3> QED BY <3>1, <3>2, SMT
  <2> QED BY <2>1, <2>2
<1>11. \A f \in Members, s \in Members, t \in 1 .. Len(Roots) : Sent(f, s, t)' <=> Sent(f, s, t)
  <2>1. ASSUME NEW s \in Members, NEW t \in 1 .. Len(Roots), s # Roots[t], Sender(t, s) = r
        PROVE  Passed(r, t, Height(t, s))' <=> Passed(r, t, Height(t, s))
    <3>1. /\ Height(t, s) < Height(t, r) /\ Height(t, r) <= Top(TreeSize)
          /\ Height(t, s) \in Nat /\ Height(t, r) \in Nat
      BY <2>1, CallFacts
    <3>2. ~(at'[r][1] <= Height(t, s) /\ mode'[r] \in {"rest", "sending"})
      BY <1>5, <1>7, <3>1
    <3>3. mode'[r] # "out"
      BY <1>7
    <3>4. Passed(r, t, Height(t, s)) <=> turn[r] > t \/ turn[r] = t
      BY <1>2 DEF Passed
    <3>5. Passed(r, t, Height(t, s))' <=> k > t
      BY <1>6, <3>2, <3>3 DEF Passed
    <3>6. k > t <=> turn[r] > t \/ turn[r] = t
      BY <1>3 DEF k
    <3> QED BY <3>4, <3>5, <3>6
  <2> QED BY <1>7, <2>1, SentStays
<1>12. LettersFit'
  <2>1. \/ taken'[r] = taken[r]
        \/ /\ Len(taken'[r]) = Len(taken[r]) + 1
           /\ \A f \in Members : ~Sent(f, r, Len(taken'[r]))
    <3>1. CASE root_
      <4>1. Len(taken'[r]) = k
        BY <1>8, <3>1
      <4> QED BY <1>3, <3>1, <4>1 DEF Sent, root_, k
    <3>2. CASE ~root_
      BY <1>8, <3>2
    <3> QED BY <3>1, <3>2
  <2> QED BY <1>1, <1>4, <1>7, <1>11, <2>1, LettersStay
<1>13. TakenWereSent' /\ EveryRankServed'
  <2>1. \/ taken'[r] = taken[r]
        \/ /\ taken'[r] = Append(taken[r], Container(Len(taken[r]) + 1))
           /\ Len(taken[r]) + 1 \in 1 .. Len(Roots)
           /\ \A t \in 1 .. Len(Roots) : t = Len(taken[r]) + 1 => r = Roots[t] \/ Sent(Sender(t, r), r, t)'
    BY <1>3, <1>8 DEF root_, k
  <2> QED BY <1>1, <1>7, <1>11, <2>1, TakenStay
<1> QED BY <1>9, <1>10, <1>12, <1>13 DEF TreeIInv

\* A step between two points of one call, and its end, at which nothing is sent.
LEMMA MovesOn ==
  ASSUME SendTreeAssumption, TreeIInv, NEW r \in Members, SendReturns(r) \/ Return(r)
  PROVE  TreeIInv'
<1>1. TreeTypes /\ RanksFit /\ EveryRankServed /\ TakenWereSent /\ LettersFit
  BY DEF TreeIInv
<1>2. /\ UNCHANGED <<turn, tree, at, letters, taken>>
      /\ \/ mode[r] = "sending" /\ mode' = [mode EXCEPT ![r] = "rest"]
         \/ mode[r] = "rest" /\ at[r] = Leaf(r) /\ mode' = [mode EXCEPT ![r] = "out"]
  BY DEF SendReturns, Return
<1>3. \A s \in Members : s # r => mode'[s] = mode[s]
  BY <1>1, <1>2 DEF TreeTypes
<1>4. mode[r] \in {"rest", "sending"} /\ mode'[r] \in {"rest", "out"} /\ (mode'[r] = "out" => at[r] = Leaf(r))
  BY <1>1, <1>2 DEF TreeTypes
<1>5. TreeTypes'
  BY <1>1, <1>2 DEF TreeTypes
<1>6. RanksFit'
  <2> SUFFICES ASSUME NEW s \in Members
               PROVE  /\ mode'[s] # "out" => turn[s] >= 1 /\ tree[s] = Tree(turn[s])
                      /\ mode'[s] = "recv" => s # Roots[turn[s]] /\ at[s] = Entry(tree[s], s)
                      /\ mode'[s] \in {"rest", "sending"} => tree[s][at[s]] = s
                      /\ Len(taken[s]) = IF mode'[s] = "recv" THEN turn[s] - 1 ELSE turn[s]
    BY <1>2 DEF RanksFit
  <2>1. CASE s = r
    BY <1>1, <1>4, <2>1 DEF RanksFit
  <2>2. CASE s # r
    BY <1>1, <1>3, <2>2 DEF RanksFit
  <2> QED BY <2>1, <2>2
<1>7. \A f \in Members, s \in Members, t \in 1 .. Len(Roots) : Sent(f, s, t)' <=> Sent(f, s, t)
  <2>1. ASSUME NEW s \in Members, NEW t \in 1 .. Len(Roots), s # Roots[t], Sender(t, s) = r
        PROVE  Passed(r, t, Height(t, s))' <=> Passed(r, t, Height(t, s))
    <3>1. Height(t, s) \in Nat /\ Leaf(r)[1] = 0
      BY CallFacts DEF Leaf
    <3>2. mode'[r] = "out" => at[r][1] <= Height(t, s)
      BY <1>4, <3>1
    <3> QED BY <1>2, <1>4, <3>2 DEF Passed
  <2>2. \A g \in Members : g # r => turn'[g] = turn[g] /\ mode'[g] = mode[g] /\ at'[g] = at[g]
    BY <1>2, <1>3
  <2> QED BY <2>1, <2>2, SentStays
<1>8. \A s \in Members : taken'[s] = taken[s]
  BY <1>2
<1>9. LettersFit'
  BY <1>1, <1>2, <1>7, <1>8, LettersStay
<1>10. TakenWereSent' /\ EveryRankServed'
  BY <1>1, <1>7, <1>8, TakenStay
<1> QED BY <1>5, <1>6, <1>9, <1>10 DEF TreeIInv

\* The letter received is the one of the call at hand: that of an earlier call was taken
\* before, and that of a later one lies behind it.
LEMMA FirstLetter ==
  ASSUME SendTreeAssumption, TreeIInv, NEW r \in Members, mode[r] = "recv",
         letters[<<Sender(turn[r], r), r>>] # <<>>
  PROVE  Head(letters[<<Sender(turn[r], r), r>>]) = Container(turn[r])
<1> DEFINE k == turn[r]
           from == Sender(k, r)
           q == letters[<<from, r>>]
<1>1. TreeTypes /\ RanksFit /\ LettersFit
  BY DEF TreeIInv
<1>2. /\ k \in 1 .. Len(Roots) /\ k \in Nat /\ Len(taken[r]) = k - 1 /\ r # Roots[k]
      /\ Len(taken[r]) \in Nat
  BY <1>1, AtRank
<1>3. from \in Members
  BY <1>2, CallFacts
<1>4. q \in Seq(Members \X Nat) /\ q # <<>>
  BY <1>1, <1>3 DEF TreeTypes
<1>5. Fits(from, r, q)
  BY <1>1, <1>3 DEF LettersFit
<1> HIDE DEF k, from, q
<1>6. 1 \in 1 .. Len(q) /\ Head(q) = q[1] /\ Len(q) \in Nat
  BY <1>4
<1> DEFINE t == q[1][2]
<1>7. t \in 1 .. Len(Roots) /\ q[1] = Container(t) /\ Sent(from, r, t) /\ t > k - 1
  BY <1>2, <1>5, <1>6, Zenon DEF Fits, Pending
<1> HIDE DEF t
<1>8. CASE t = k
  BY <1>6, <1>7, <1>8 DEF q, from, k
<1>9. CASE t # k
  <2>1. t > k
    BY <1>2, <1>7, <1>9
  <2>2. t <= turn[from] /\ turn[from] \in Nat
    BY <1>1, <1>3, <1>7, SentBegun, AtRank
  <2>3. turn[from] > k
    BY <1>2, <1>7, <2>1, <2>2
  <2>4. Sent(from, r, k)
    BY <1>2, <2>3 DEF Sent, Passed, from
  <2>5. k > Len(taken[r])
    BY <1>2
  <2>6. PICK i \in 1 .. Len(q) : q[i][2] = k
    BY <1>2, <1>5, <2>4, <2>5 DEF Fits, Pending
  <2>7. i # 1
    BY <1>9, <2>6 DEF t
  <2>8. 1 < i
    BY <1>6, <2>7
  <2>9. q[1][2] < q[i][2]
    BY <1>5, <1>6, <2>8 DEF Fits
  <2>10. t < k
    BY <2>6, <2>9 DEF t
  <2> QED BY <1>2, <1>7, <2>1, <2>10
<1> QED BY <1>8, <1>9

LEMMA TakesContainer ==
  ASSUME SendTreeAssumption, TreeIInv, NEW r \in Members, RecvContainer(r)
  PROVE  TreeIInv'
<1>k. PICK k : k = turn[r]
  OBVIOUS
<1>f. PICK from : from = Sender(k, r)
  OBVIOUS
<1>q. PICK q : q = letters[<<from, r>>]
  OBVIOUS
<1>1. TreeTypes /\ RanksFit /\ EveryRankServed /\ TakenWereSent /\ LettersFit
  BY DEF TreeIInv
<1>2. mode[r] = "recv"
  BY DEF RecvContainer
<1>3. /\ k \in 1 .. Len(Roots) /\ k \in Nat /\ Len(taken[r]) = k - 1 /\ r # Roots[k]
      /\ tree[r] = Tree(k) /\ at[r] = Entry(Tree(k), r) /\ taken[r] \in Seq(Members \X Nat)
  BY <1>k, <1>1, <1>2, AtRank
<1>4. tree[r][root(at[r])] = from
  BY <1>f, <1>3 DEF Sender, Parent
<1>5. /\ q # <<>>
      /\ taken' = [taken EXCEPT ![r] = Append(@, Head(q))]
      /\ letters' = [letters EXCEPT ![<<from, r>>] = Tail(@)]
      /\ mode' = [mode EXCEPT ![r] = "rest"]
      /\ UNCHANGED <<turn, tree, at>>
  BY <1>q, <1>4 DEF RecvContainer
<1>6. /\ from \in Members /\ Container(k) \in Members \X Nat
      /\ Height(k, r) = at[r][1] /\ Tree(k)[at[r]] = r
  BY <1>f, <1>3, CallFacts DEF Height
<1>7. Head(q) = Container(k)
  BY <1>k, <1>f, <1>q, <1>2, <1>5, FirstLetter
<1>8. q \in Seq(Members \X Nat) /\ Fits(from, r, q)
  BY <1>q, <1>1, <1>6 DEF TreeTypes, LettersFit
<1>9. /\ taken'[r] = Append(taken[r], Container(k)) /\ Len(taken'[r]) = k
      /\ \A s \in Members : s # r => taken'[s] = taken[s] /\ mode'[s] = mode[s]
      /\ taken' \in [Members -> Seq(Members \X Nat)]
      /\ mode'[r] = "rest" /\ mode' \in [Members -> {"out", "recv", "rest", "sending"}]
  <2>1. taken' = [taken EXCEPT ![r] = Append(@, Container(k))] /\ taken \in [Members -> Seq(Members \X Nat)]
    BY <1>1, <1>5, <1>7 DEF TreeTypes
  <2>2. taken'[r] = Append(taken[r], Container(k)) /\ Append(taken[r], Container(k)) \in Seq(Members \X Nat)
    BY <1>3, <1>6, <2>1
  <2>3. Len(taken'[r]) = k
    BY <1>3, <1>6, <2>2
  <2>4. taken' \in [Members -> Seq(Members \X Nat)] /\ \A s \in Members : s # r => taken'[s] = taken[s]
    BY <2>1, <2>2
  <2>5. /\ \A s \in Members : s # r => mode'[s] = mode[s]
        /\ mode'[r] = "rest" /\ mode' \in [Members -> {"out", "recv", "rest", "sending"}]
    BY <1>1, <1>5 DEF TreeTypes
  <2> QED BY <2>2, <2>3, <2>4, <2>5
<1>10. /\ letters' \in [Members \X Members -> Seq(Members \X Nat)]
       /\ letters'[<<from, r>>] = Tail(q)
       /\ \A f \in Members, s \in Members : f # from \/ s # r => letters'[<<f, s>>] = letters[<<f, s>>]
  <2>1. letters \in [Members \X Members -> Seq(Members \X Nat)] /\ <<from, r>> \in Members \X Members
    BY <1>1, <1>6 DEF TreeTypes
  <2>2. Tail(q) \in Seq(Members \X Nat)
    BY <1>5, <1>8
  <2>3. letters' = [letters EXCEPT ![<<from, r>>] = Tail(q)]
    BY <1>q, <1>5, <2>1
  <2> QED BY <2>1, <2>2, <2>3
<1>11. TreeTypes'
  BY <1>1, <1>5, <1>9, <1>10 DEF TreeTypes
<1>12. RanksFit'
  <2>0. turn' = turn /\ tree' = tree /\ at' = at
    BY <1>5
  <2> SUFFICES ASSUME NEW s \in Members
               PROVE  /\ mode'[s] # "out" => turn'[s] >= 1 /\ tree'[s] = Tree(turn'[s])
                      /\ mode'[s] = "recv" => s # Roots[turn'[s]] /\ at'[s] = Entry(tree'[s], s)
                      /\ mode'[s] \in {"rest", "sending"} => tree'[s][at'[s]] = s
                      /\ Len(taken'[s]) = IF mode'[s] = "recv" THEN turn'[s] - 1 ELSE turn'[s]
    BY Zenon DEF RanksFit
  <2>1. CASE s = r
    BY <1>k, <1>3, <1>6, <1>9, <2>0, <2>1
  <2>2. CASE s # r
    <3>1. /\ mode[s] # "out" => turn[s] >= 1 /\ tree[s] = Tree(turn[s])
          /\ mode[s] = "recv" => s # Roots[turn[s]] /\ at[s] = Entry(tree[s], s)
          /\ mode[s] \in {"rest", "sending"} => tree[s][at[s]] = s
          /\ Len(taken[s]) = IF mode[s] = "recv" THEN turn[s] - 1 ELSE turn[s]
      BY <1>1, Zenon DEF RanksFit
    <3>2. mode'[s] = mode[s] /\ taken'[s] = taken[s]
      BY <1>9, <2>2
    <3> QED BY <2>0, <3>1, <3>2, Zenon
  <2> QED BY <2>1, <2>2
<1>13. \A f \in Members, s \in Members, t \in 1 .. Len(Roots) : Sent(f, s, t)' <=> Sent(f, s, t)
  <2>1. ASSUME NEW s \in Members, NEW t \in 1 .. Len(Roots), s # Roots[t], Sender(t, s) = r
        PROVE  Passed(r, t, Height(t, s))' <=> Passed(r, t, Height(t, s))
    <3>1. Height(t, s) < Height(t, r) /\ Height(t, s) \in Nat /\ Height(t, r) \in Nat
      BY <2>1, CallFacts
    <3>2. t = k => ~(at[r][1] <= Height(t, s))
      BY <1>6, <3>1
    <3> QED BY <1>2, <1>5, <1>9, <3>2, <1>k DEF Passed
  <2>2. \A g \in Members : g # r => turn'[g] = turn[g] /\ mode'[g] = mode[g] /\ at'[g] = at[g]
    BY <1>5, <1>9
  <2> QED BY <2>1, <2>2, SentStays
<1>14. Len(q) \in Nat /\ 1 \in 1 .. Len(q) /\ q[1] = Container(k) /\ q[1][2] = k
  <2>1. Len(q) \in Nat /\ 1 \in 1 .. Len(q) /\ Head(q) = q[1]
    BY <1>5, <1>8
  <2> QED BY <1>3, <1>7, <2>1, CallFacts
<1>15. LettersFit'
  <2>1. \A f \in Members, s \in Members, t \in 1 .. Len(Roots) :
          Pending(f, s, t)' <=> Pending(f, s, t) /\ ~(f = from /\ s = r /\ t = k)
    <3> SUFFICES ASSUME NEW f \in Members, NEW s \in Members, NEW t \in 1 .. Len(Roots)
                 PROVE  Pending(f, s, t)' <=> Pending(f, s, t) /\ ~(f = from /\ s = r /\ t = k)
      OBVIOUS
    <3>1. Sent(f, s, t)' <=> Sent(f, s, t)
      BY <1>13
    <3>2. CASE s # r
      BY <1>9, <3>1, <3>2 DEF Pending
    <3>3. CASE s = r
      <4>1. t = k /\ f # from => ~Sent(f, r, t)
        BY <1>f DEF Sent
      <4>2. t > Len(taken[r]) <=> t > Len(taken'[r]) \/ t = k
        BY <1>3, <1>9
      <4>3. t > Len(taken'[r]) => t # k
        BY <1>3, <1>9
      <4> QED BY <3>1, <3>3, <4>1, <4>2, <4>3 DEF Pending
    <3> QED BY <3>2, <3>3
  <2>2. ASSUME NEW f \in Members, NEW s \in Members, f # from \/ s # r
        PROVE  Fits(f, s, letters[<<f, s>>])'
    <3>1. \A v : Fits(f, s, v) => Fits(f, s, v)'
      BY <2>1, <2>2 DEF Fits
    <3>2. Fits(f, s, letters[<<f, s>>])
      BY <1>1 DEF LettersFit
    <3>3. letters'[<<f, s>>] = letters[<<f, s>>]
      BY <1>10, <2>2
    <3> QED BY <3>1, <3>2, <3>3, Zenon
  <2>3. \A v : Fits(from, r, v) /\ v \in Seq(Members \X Nat) /\ v # <<>> /\ v[1][2] = k => Fits(from, r, Tail(v))'
    <3> SUFFICES ASSUME NEW v, Fits(from, r, v), v \in Seq(Members \X Nat), v # <<>>, v[1][2] = k
                 PROVE  Fits(from, r, Tail(v))'
      OBVIOUS
    <3> DEFINE w == Tail(v)
    <3>1. /\ Len(v) \in Nat /\ Len(v) >= 1 /\ Len(w) = Len(v) - 1
          /\ \A i \in 1 .. Len(w) : w[i] = v[i + 1] /\ i + 1 \in 1 .. Len(v)
          /\ \A i \in 1 .. Len(v) : i # 1 => i - 1 \in 1 .. Len(w) /\ w[i - 1] = v[i]
      OBVIOUS
    <3> HIDE DEF w
    <3>2. \A i \in 1 .. Len(w) : w[i][2] \in 1 .. Len(Roots) /\ w[i] = Container(w[i][2]) /\ Pending(from, r, w[i][2])'
      <4> SUFFICES ASSUME NEW i \in 1 .. Len(w)
                   PROVE  w[i][2] \in 1 .. Len(Roots) /\ w[i] = Container(w[i][2]) /\ Pending(from, r, w[i][2])'
        OBVIOUS
      <4>1. w[i] = v[i + 1] /\ i + 1 \in 1 .. Len(v) /\ 1 \in 1 .. Len(v) /\ 1 < i + 1
        BY <3>1
      <4>2. v[1][2] < v[i + 1][2]
        BY <4>1 DEF Fits
      <4>3. w[i][2] \in 1 .. Len(Roots) /\ w[i] = Container(w[i][2]) /\ Pending(from, r, w[i][2])
        BY <4>1 DEF Fits
      <4>4. k < w[i][2]
        BY <4>1, <4>2
      <4>5. w[i][2] # k
        BY <1>3, <4>3, <4>4
      <4> QED BY <1>6, <2>1, <4>3, <4>5
    <3>3. \A i \in 1 .. Len(w), j \in 1 .. Len(w) : i < j => w[i][2] < w[j][2]
      <4> SUFFICES ASSUME NEW i \in 1 .. Len(w), NEW j \in 1 .. Len(w), i < j PROVE w[i][2] < w[j][2]
        OBVIOUS
      <4>1. w[i] = v[i + 1] /\ w[j] = v[j + 1] /\ i + 1 \in 1 .. Len(v) /\ j + 1 \in 1 .. Len(v) /\ i + 1 < j + 1
        BY <3>1
      <4> QED BY <4>1 DEF Fits
    <3>4. \A t \in 1 .. Len(Roots) : Pending(from, r, t)' => \E i \in 1 .. Len(w) : w[i][2] = t
      <4> SUFFICES ASSUME NEW t \in 1 .. Len(Roots), Pending(from, r, t)' PROVE \E i \in 1 .. Len(w) : w[i][2] = t
        OBVIOUS
      <4>1. Pending(from, r, t) /\ t # k
        BY <1>6, <2>1
      <4>2. PICK i \in 1 .. Len(v) : v[i][2] = t
        BY <4>1 DEF Fits
      <4>3. i # 1
        BY <4>1, <4>2
      <4> QED BY <3>1, <4>2, <4>3
    <3> QED BY <3>2, <3>3, <3>4, Zenon DEF Fits, w
  <2>4. Fits(from, r, Tail(q))'
    BY <1>5, <1>8, <1>14, <2>3
  <2> QED BY <1>10, <2>2, <2>4 DEF LettersFit
<1>16. TakenWereSent' /\ EveryRankServed'
  <2>1. Sent(from, r, k)
    BY <1>8, <1>14 DEF Fits, Pending
  <2>2. Sent(from, r, k)'
    BY <1>3, <1>6, <1>13, <2>1
  <2>3. k = Len(taken[r]) + 1
    BY <1>3
  <2>4. \A t \in 1 .. Len(Roots) : t = Len(taken[r]) + 1 => r = Roots[t] \/ Sent(Sender(t, r), r, t)'
    BY <1>3, <1>13, <2>1, <2>3, <1>6, <1>f, <2>2
  <2> QED BY <1>1, <1>3, <1>9, <1>13, <2>3, <2>4, TakenStay
<1> QED BY <1>11, <1>12, <1>15, <1>16 DEF TreeIInv

LEMMA SendsOn ==
  ASSUME SendTreeAssumption, TreeIInv, NEW r \in Members, SendToRest(r)
  PROVE  TreeIInv'
<1>k. PICK k : k = turn[r]
  OBVIOUS
<1>x. PICK x : x = at[r]
  OBVIOUS
<1>t. PICK to : to = Others(tree[r], at[r])
  OBVIOUS
<1>o. PICK own : own = Own(tree[r], at[r])
  OBVIOUS
<1>1. TreeTypes /\ RanksFit /\ EveryRankServed /\ TakenWereSent /\ LettersFit
  BY DEF TreeIInv
<1>2. /\ mode[r] = "rest" /\ x[1] > 0
      /\ letters' = [p \in DOMAIN letters |->
           IF p[1] = r /\ p[2] \in to THEN Append(letters[p], taken[r][turn[r]]) ELSE letters[p]]
      /\ at' = [at EXCEPT ![r] = Own(tree[r], @)]
      /\ mode' = [mode EXCEPT ![r] = IF to = {} THEN "rest" ELSE "sending"]
      /\ UNCHANGED <<turn, tree, taken>>
  BY <1>t, <1>x DEF SendToRest, Forward
<1>3. /\ k \in 1 .. Len(Roots) /\ k \in Nat /\ Len(taken[r]) = k
      /\ tree[r] = Tree(k) /\ Tree(k)[x] = r /\ x \in Nodes(TreeSize)
  BY <1>k, <1>x, <1>1, <1>2, AtRank
<1>4. Container(k) \in Members \X Nat /\ Container(k)[2] = k /\ Roots[k] \in Members
  BY <1>3, CallFacts
<1>5. taken[r][turn[r]] = Container(k)
  BY <1>k, <1>1, <1>3 DEF EveryRankServed
<1>6. own \in Nodes(TreeSize) /\ own[1] = x[1] - 1 /\ Tree(k)[own] = r /\ x[1] \in Nat
  BY <1>o, <1>x, <1>2, <1>3, <1>4, OwnIs, NodesCarry DEF Tree
<1>7. \A s \in Members : s \in to <=> s # Roots[k] /\ Sender(k, s) = r /\ Height(k, s) = x[1] - 1
  BY <1>t, <1>x, <1>2, <1>3, <1>4, OthersAre DEF Tree, Sender, Height
<1>8. /\ at'[r] = own /\ \A s \in Members : s # r => at'[s] = at[s] /\ mode'[s] = mode[s]
      /\ at' \in [Members -> Nodes(TreeSize)]
      /\ mode'[r] \in {"rest", "sending"} /\ mode' \in [Members -> {"out", "recv", "rest", "sending"}]
  BY <1>o, <1>1, <1>2, <1>6 DEF TreeTypes
<1>9. /\ letters' \in [Members \X Members -> Seq(Members \X Nat)]
      /\ \A f \in Members, s \in Members :
           letters'[<<f, s>>] = IF f = r /\ s \in to THEN Append(letters[<<f, s>>], Container(k)) ELSE letters[<<f, s>>]
  <2>1. letters \in [Members \X Members -> Seq(Members \X Nat)]
    BY <1>1 DEF TreeTypes
  <2>2. letters' = [p \in Members \X Members |->
           IF p[1] = r /\ p[2] \in to THEN Append(letters[p], Container(k)) ELSE letters[p]]
    BY <1>2, <1>5, <2>1
  <2>3. \A p \in Members \X Members : Append(letters[p], Container(k)) \in Seq(Members \X Nat)
    BY <1>4, <2>1
  <2> QED BY <2>1, <2>2, <2>3
<1>10. TreeTypes'
  BY <1>1, <1>2, <1>8, <1>9 DEF TreeTypes
<1>11. RanksFit'
  <2> SUFFICES ASSUME NEW s \in Members
               PROVE  /\ mode'[s] # "out" => turn[s] >= 1 /\ tree[s] = Tree(turn[s])
                      /\ mode'[s] = "recv" => s # Roots[turn[s]] /\ at'[s] = Entry(tree[s], s)
                      /\ mode'[s] \in {"rest", "sending"} => tree[s][at'[s]] = s
                      /\ Len(taken[s]) = IF mode'[s] = "recv" THEN turn[s] - 1 ELSE turn[s]
    BY <1>2 DEF RanksFit
  <2>1. CASE s = r
    BY <1>k, <1>3, <1>6, <1>8, <2>1
  <2>2. CASE s # r
    BY <1>1, <1>8, <2>2 DEF RanksFit
  <2> QED BY <2>1, <2>2
<1>12. \A f \in Members, s \in Members, t \in 1 .. Len(Roots) :
         /\ Sent(f, s, t)' <=> Sent(f, s, t) \/ (f = r /\ s \in to /\ t = k)
         /\ f = r /\ s \in to /\ t = k => ~Sent(f, s, t)
  <2> SUFFICES ASSUME NEW f \in Members, NEW s \in Members, NEW t \in 1 .. Len(Roots)
               PROVE  /\ Sent(f, s, t)' <=> Sent(f, s, t) \/ (f = r /\ s \in to /\ t = k)
                      /\ f = r /\ s \in to /\ t = k => ~Sent(f, s, t)
    OBVIOUS
  <2>1. CASE f # r
    BY <1>2, <1>8, <2>1 DEF Sent, Passed
  <2>2. CASE f = r
    <3>1. Height(t, s) \in Nat
      BY CallFacts
    <3>2. own[1] <= Height(t, s) <=> x[1] <= Height(t, s) \/ Height(t, s) = x[1] - 1
      BY <1>6, <3>1
    <3>3. Passed(r, t, Height(t, s)) <=> turn[r] > t \/ (t = k /\ x[1] <= Height(t, s))
      BY <1>k, <1>x, <1>2 DEF Passed
    <3>4. Passed(r, t, Height(t, s))' <=> turn[r] > t \/ (t = k /\ own[1] <= Height(t, s))
      <4>1. mode'[r] # "out"
        BY <1>8
      <4> QED BY <1>k, <1>2, <1>8, <4>1 DEF Passed
    <3>5. t = k => ~(turn[r] > t)
      BY <1>k, <1>3
    <3>6. Height(t, s) = x[1] - 1 => ~(x[1] <= Height(t, s))
      BY <1>6, <3>1
    <3> QED BY <1>7, <2>2, <3>2, <3>3, <3>4, <3>5, <3>6 DEF Sent
  <2> QED BY <2>1, <2>2
<1>13. \A s \in to \cap Members : k > Len(taken[s])
  <2> SUFFICES ASSUME NEW s \in Members, s \in to, ~(k > Len(taken[s])) PROVE FALSE
    OBVIOUS
  <2>1. Len(taken[s]) \in Nat
    BY <1>1, AtRank
  <2>2. k \in 1 .. Len(taken[s])
    BY <1>3, <2>1
  <2>3. Sent(Sender(k, s), s, k)
    BY <1>1, <1>7, <2>2 DEF TakenWereSent
  <2> QED BY <1>3, <1>7, <1>12, <2>3
<1>14. LettersFit'
  <2>1. \A f \in Members, s \in Members, t \in 1 .. Len(Roots) :
          /\ Pending(f, s, t)' <=> Pending(f, s, t) \/ (f = r /\ s \in to /\ t = k)
          /\ f = r /\ s \in to /\ Pending(f, s, t) => t < k
    <3> SUFFICES ASSUME NEW f \in Members, NEW s \in Members, NEW t \in 1 .. Len(Roots)
                 PROVE  /\ Pending(f, s, t)' <=> Pending(f, s, t) \/ (f = r /\ s \in to /\ t = k)
                        /\ f = r /\ s \in to /\ Pending(f, s, t) => t < k
      OBVIOUS
    <3>1. taken'[s] = taken[s]
      BY <1>2
    <3>2. f = r /\ s \in to /\ Sent(f, s, t) => t <= k /\ t # k
      BY <1>k, <1>1, <1>12, SentBegun
    <3>3. f = r /\ s \in to /\ Sent(f, s, t) => t < k
      BY <1>3, <3>2
    <3> QED BY <1>12, <1>13, <3>1, <3>3 DEF Pending
  <2> SUFFICES ASSUME NEW f \in Members, NEW s \in Members PROVE Fits(f, s, letters[<<f, s>>])'
    BY DEF LettersFit
  <2>2. Fits(f, s, letters[<<f, s>>]) /\ letters[<<f, s>>] \in Seq(Members \X Nat)
    BY <1>1 DEF LettersFit, TreeTypes
  <2>3. CASE ~(f = r /\ s \in to)
    <3>1. \A v : Fits(f, s, v) => Fits(f, s, v)'
      BY <2>1, <2>3 DEF Fits
    <3>2. letters'[<<f, s>>] = letters[<<f, s>>]
      BY <1>9, <2>3
    <3> QED BY <2>2, <3>1, <3>2, Zenon
  <2>4. CASE f = r /\ s \in to
    <3>1. ASSUME NEW v, Fits(f, s, v), v \in Seq(Members \X Nat)
          PROVE  Fits(f, s, Append(v, Container(k)))'
      <4> DEFINE w == Append(v, Container(k))
      <4>1. /\ Len(v) \in Nat /\ Len(w) = Len(v) + 1 /\ w[Len(w)] = Container(k) /\ Len(w) \in 1 .. Len(w)
            /\ \A i \in 1 .. Len(v) : w[i] = v[i] /\ i \in 1 .. Len(w)
            /\ \A i \in 1 .. Len(w) : i = Len(w) \/ i \in 1 .. Len(v)
        BY <3>1, <1>4
      <4> HIDE DEF w
      <4>2. \A i \in 1 .. Len(v) : /\ w[i][2] \in 1 .. Len(Roots) /\ w[i] = Container(w[i][2])
                                   /\ Pending(f, s, w[i][2])
        BY <3>1, <4>1 DEF Fits
      <4>3. \A i \in 1 .. Len(w) : w[i][2] \in 1 .. Len(Roots) /\ w[i] = Container(w[i][2]) /\ Pending(f, s, w[i][2])'
        BY <1>3, <1>4, <2>1, <2>4, <4>1, <4>2
      <4>4. ASSUME NEW i \in 1 .. Len(w), NEW j \in 1 .. Len(w), i < j PROVE w[i][2] < w[j][2]
        <5>1. i \in 1 .. Len(v)
          BY <4>1, <4>4
        <5>2. CASE j = Len(w)
          <6>1. w[i][2] < k
            BY <2>1, <2>4, <4>2, <5>1
          <6> QED BY <1>4, <4>1, <5>2, <6>1
        <5>3. CASE j \in 1 .. Len(v)
          BY <3>1, <4>1, <4>4, <5>1, <5>3 DEF Fits
        <5> QED BY <4>1, <5>2, <5>3
      <4>5. ASSUME NEW t \in 1 .. Len(Roots), Pending(f, s, t)' PROVE \E i \in 1 .. Len(w) : w[i][2] = t
        <5>1. CASE t = k
          BY <1>4, <4>1, <5>1
        <5>2. CASE t # k
          <6>1. PICK i \in 1 .. Len(v) : v[i][2] = t
            BY <2>1, <3>1, <4>5, <5>2 DEF Fits
          <6> QED BY <4>1, <6>1
        <5> QED BY <5>1, <5>2
      <4> QED BY <4>3, <4>4, <4>5, Zenon DEF Fits, w
    <3>2. letters'[<<f, s>>] = Append(letters[<<f, s>>], Container(k))
      BY <1>9, <2>4
    <3>3. PICK v : v = letters[<<f, s>>]
      OBVIOUS
    <3>4. Fits(f, s, Append(v, Container(k)))'
      BY <2>2, <3>1, <3>3
    <3> QED BY <3>2, <3>3, <3>4
  <2> QED BY <2>3, <2>4
<1>15. TakenWereSent' /\ EveryRankServed'
  <2>1. \A s \in Members : taken'[s] = taken[s]
    BY <1>2
  <2>2. \A f \in Members, s \in Members, t \in 1 .. Len(Roots) : Sent(f, s, t) => Sent(f, s, t)'
    BY <1>12
  <2> QED BY <1>1, <2>1, <2>2, TakenStay
<1> QED BY <1>10, <1>11, <1>14, <1>15 DEF TreeIInv

LEMMA TreeBegins == ASSUME SendTreeAssumption, TreeInit PROVE TreeIInv
<1> USE DEF TreeInit
<1>1. Len(Roots) \in Nat /\ TreeSize \in Nat \ {0}
  BY DEF SendTreeAssumption
<1>2. \A r \in Members : Leaf(r) \in Nodes(TreeSize)
  BY <1>1, LeafIsNode DEF Members
<1>3. TreeTypes
  BY <1>1, <1>2 DEF TreeTypes
<1>4. /\ \A r \in Members : turn[r] = 0 /\ mode[r] = "out" /\ taken[r] = <<>> /\ Len(taken[r]) = 0
      /\ \A f \in Members, r \in Members : letters[<<f, r>>] = <<>>
  OBVIOUS
<1> HIDE DEF TreeInit
<1>5. RanksFit
  BY <1>4 DEF RanksFit
<1>6. EveryRankServed /\ TakenWereSent
  BY <1>4 DEF EveryRankServed, TakenWereSent
<1>7. LettersFit
  <2>1. \A f \in Members, r \in Members, t \in 1 .. Len(Roots) : ~Sent(f, r, t)
    BY <1>1, <1>4 DEF Sent, Passed
  <2> SUFFICES ASSUME NEW f \in Members, NEW r \in Members PROVE Fits(f, r, letters[<<f, r>>])
    BY DEF LettersFit
  <2>2. PICK q : q = letters[<<f, r>>]
    OBVIOUS
  <2>3. q = <<>>
    BY <1>4, <2>2
  <2>4. 1 .. Len(q) = {}
    BY <2>3
  <2>5. \A t \in 1 .. Len(Roots) : ~Pending(f, r, t)
    BY <2>1 DEF Pending
  <2>6. Fits(f, r, q)
    BY <2>4, <2>5, Zenon DEF Fits
  <2> QED BY <2>2, <2>6
<1> QED BY <1>3, <1>5, <1>6, <1>7 DEF TreeIInv

LEMMA TreeKeeps == ASSUME SendTreeAssumption, TreeIInv, [TreeNext]_treeVars PROVE TreeIInv'
<1>1. ASSUME NEW r \in Members, TreeStep(r) \/ SendReturns(r) PROVE TreeIInv'
  BY <1>1, BeginsCall, TakesContainer, SendsOn, MovesOn DEF TreeStep
<1>2. CASE UNCHANGED treeVars
  <2>1. UNCHANGED <<turn, tree, at, mode, letters, taken>>
    BY <1>2 DEF treeVars
  <2>2. TreeTypes'
    BY <2>1 DEF TreeIInv, TreeTypes
  <2>3. RanksFit' /\ EveryRankServed'
    BY <2>1, Zenon DEF TreeIInv, RanksFit, EveryRankServed
  <2>4. TakenWereSent'
    BY <2>1, Zenon DEF TreeIInv, TakenWereSent, Sent, Passed
  <2>5. LettersFit'
    <3>1. \A f \in Members, s \in Members, t \in 1 .. Len(Roots) : Sent(f, s, t)' <=> Sent(f, s, t)
      BY <2>1, Zenon DEF Sent, Passed
    <3>3. CASE Members = {}
      BY <3>3 DEF LettersFit
    <3>4. ASSUME NEW r \in Members PROVE LettersFit'
      BY <2>1, <3>1, LettersStay DEF TreeIInv
    <3> QED BY <3>3, <3>4
  <2> QED BY <2>2, <2>3, <2>4, <2>5 DEF TreeIInv
<1> QED BY <1>1, <1>2 DEF TreeNext

-----------------------------------------------------------------------------
\* Every variable holds a value of its type, and between two ranks is what the one has sent
\* and the other has not received.
THEOREM TreeHolds == ASSUME SendTreeAssumption PROVE TreeSpec => []TreeIInv
<1>1. TreeInit => TreeIInv
  BY TreeBegins
<1>2. TreeIInv /\ [TreeNext]_treeVars => TreeIInv'
  BY TreeKeeps
<1> QED BY <1>1, <1>2, PTL DEF TreeSpec

\* For any number of ranks and calls: every rank comes out of a call with the container of
\* that call, and no message is left for a later one.
THEOREM ContainersReachAll == ASSUME SendTreeAssumption PROVE TreeSpec => []ContainersArrive
<1>1. TreeIInv => ContainersArrive
  <2> SUFFICES ASSUME TreeIInv PROVE ContainersArrive
    OBVIOUS
  <2>1. EveryRankServed
    BY DEF TreeIInv
  <2>2. NothingLeftOver
    <3> SUFFICES ASSUME TreeFinished, NEW f \in Members, NEW r \in Members PROVE letters[<<f, r>>] = <<>>
      BY DEF NothingLeftOver, TreeIInv, TreeTypes
    <3>1. Len(taken[r]) = Len(Roots) /\ Len(Roots) \in Nat
      BY AtRank DEF TreeIInv, TreeFinished
    <3>2. Fits(f, r, letters[<<f, r>>]) /\ letters[<<f, r>>] \in Seq(Members \X Nat)
      BY DEF TreeIInv, LettersFit, TreeTypes
    <3>3. PICK q : q = letters[<<f, r>>]
      OBVIOUS
    <3>4. \A i \in 1 .. Len(q) : q[i][2] \in 1 .. Len(Roots) /\ q[i][2] > Len(Roots)
      BY <3>1, <3>2, <3>3 DEF Fits, Pending
    <3>5. 1 \notin 1 .. Len(q)
      BY <3>1, <3>4
    <3>6. q \in Seq(Members \X Nat) /\ Len(q) \in Nat
      BY <3>2, <3>3
    <3>7. Len(q) = 0
      BY <3>5, <3>6
    <3>8. q = <<>>
      BY <3>6, <3>7
    <3> QED BY <3>3, <3>8
  <2> QED BY <2>1, <2>2 DEF ContainersArrive
<1> QED BY <1>1, TreeHolds, PTL
=============================================================================
