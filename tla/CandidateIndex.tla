---------------------------- MODULE CandidateIndex ----------------------------
(***************************************************************************)
(* Which two elements an iteration of a search looks at, from its number:  *)
(* the candidates of CartesianProduct (search/InterfacePairFinder.cpp),    *)
(* all pairs of two meshes or the lower triangle of one, and those of      *)
(* BvhSearch, whose ranges axom lists one query after the other.  A row is *)
(* found by binarySearch (utils/Algorithm.hpp), whose loop takes one step  *)
(* here for each step there.                                               *)
(*                                                                         *)
(* Iterations share nothing but where they store (module PairCompaction),  *)
(* and are made one after the other here.  Arithmetic that leaves IndexT   *)
(* is undefined: the model stops there.                                    *)
(***************************************************************************)
EXTENDS Integers, Sequences

CONSTANTS
  MaxIndex,      \* the largest number of IndexT
  Searches       \* the searches considered: [kind, n1, n2, offsets, counts, ids]

Kinds == {"product", "triangle", "bvh", "sameBvh"}

Below(n) == 0 .. n - 1
RangeEnd(s, q) == s.offsets[q] + s.counts[q]

\* bvh.findBoundingBoxes: for each query of mesh 2 a range of ids, in the order of the queries and without holes, and
\* in it the elements of mesh 1 that the query meets, each once.
Listed(s) ==
  /\ s.offsets \in [Below(s.n2) -> Nat] /\ s.counts \in [Below(s.n2) -> Nat]
  /\ s.ids \in Seq(Below(s.n1))
  /\ s.n2 > 0 /\ s.offsets[0] = 0 /\ RangeEnd(s, s.n2 - 1) = Len(s.ids)
  /\ \A q \in Below(s.n2) : q + 1 < s.n2 => s.offsets[q + 1] = RangeEnd(s, q)
  /\ \A p, q \in Below(s.n2) : p < q => RangeEnd(s, p) <= s.offsets[q]
  /\ \A q \in Below(s.n2) : \A k, m \in s.offsets[q] + 1 .. RangeEnd(s, q) : s.ids[k] = s.ids[m] => k = m

\* Two boxes of one mesh meet or do not, whichever is the query.
Met(s) == {x \in Below(s.n1) \X Below(s.n2) :
             \E k \in s.offsets[x[2]] + 1 .. RangeEnd(s, x[2]) : s.ids[k] = x[1]}
Symmetric(s) == \A x \in Met(s) : <<x[2], x[1]>> \in Met(s)

\* For the BVH, twice the elements of a mesh, and all candidates, are in IndexT.
ASSUME CandidateAssumption ==
  /\ MaxIndex \in Nat
  /\ \A s \in Searches :
       /\ s.kind \in Kinds /\ s.n1 \in Nat /\ s.n2 \in Nat
       /\ s.kind \in {"triangle", "sameBvh"} => s.n1 = s.n2
       /\ s.kind \in {"bvh", "sameBvh"} => Listed(s) /\ 2 * s.n2 <= MaxIndex /\ Len(s.ids) <= MaxIndex
       /\ s.kind = "sameBvh" => Symmetric(s)

VARIABLES
  search,        \* the search at hand
  count,         \* maximum_pair_count, or the number of candidates of the BVH
  candidate,     \* the iteration
  l, r,          \* of binarySearch
  pairs,         \* candidate -> the pair stored for it
  indexStep      \* "count", "next", "search", or how it went wrong: "undefined", "not found"

indexVars == <<search, count, candidate, l, r, pairs, indexStep>>

NoPairs == [c \in {} |-> <<0, 0>>]

IndexInit ==
  /\ search \in Searches
  /\ count = 0 /\ candidate = 0 /\ l = 0 /\ r = 0
  /\ pairs = NoPairs
  /\ indexStep = "count"

-----------------------------------------------------------------------------
Fits(n) == n <= MaxIndex
Triangular == search.kind = "triangle"
Rows == IF Triangular THEN search.n1 ELSE search.n2

\* The product under the size of the mask; the candidates of the BVH, of meshes that have elements, are
\* counted by axom.
LargestProduct ==
  CASE search.kind = "product" -> search.n1 * search.n2
    [] Triangular -> search.n1 * (search.n1 + 1)
    [] OTHER -> Len(search.ids)
Maximum == IF Triangular THEN LargestProduct \div 2 ELSE LargestProduct

\* Mutant of CountCandidates: the lower triangle without the diagonal.
CountsBelowDiagonal ==
  /\ indexStep = "count"
  /\ IF Fits(LargestProduct)
     THEN /\ count' = IF Triangular THEN (search.n1 * (search.n1 - 1)) \div 2 ELSE Maximum
          /\ indexStep' = "next"
     ELSE UNCHANGED count /\ indexStep' = "undefined"
  /\ UNCHANGED <<search, candidate, l, r, pairs>>

CountCandidates ==
  /\ indexStep = "count"
  /\ IF Fits(LargestProduct)
     THEN count' = Maximum /\ indexStep' = "next"
     ELSE UNCHANGED count /\ indexStep' = "undefined"
  /\ UNCHANGED <<search, candidate, l, r, pairs>>

Stored(x) == pairs' = [c \in DOMAIN pairs \cup {candidate} |-> IF c = candidate THEN x ELSE pairs[c]]
NextIteration == candidate' = candidate + 1 /\ indexStep' = "next"

\* All pairs of two meshes: the rows of a full matrix.
DivideCandidate ==
  /\ indexStep = "next" /\ candidate < count /\ search.kind = "product"
  /\ Stored(<<candidate \div search.n2, candidate % search.n2>>)
  /\ NextIteration
  /\ UNCHANGED <<search, count, l, r>>

\* binarySearch goes on, has nothing left, or meets a number that is no IndexT.
Halves(lo, hi) == (lo + hi) \div 2
Computable(lo, hi) == Fits(lo + hi) /\ (Triangular => Fits((Halves(lo, hi) + 1) * (Halves(lo, hi) + 2)))
Goes(lo, hi) == IF lo > hi THEN "not found" ELSE IF Computable(lo, hi) THEN "search" ELSE "undefined"

BeginSearch ==
  /\ indexStep = "next" /\ candidate < count /\ search.kind # "product"
  /\ l' = 0 /\ r' = Rows - 1
  /\ indexStep' = Goes(0, Rows - 1)
  /\ UNCHANGED <<search, count, candidate, pairs>>

-----------------------------------------------------------------------------
(* A round of binarySearch, for symmMatrixRow and for the ranges of the BVH. *)

Mid == Halves(l, r)
RowStart(i) == (i * (i + 1)) \div 2

lo_comparison(i) == IF Triangular THEN RowStart(i + 1) <= candidate ELSE RangeEnd(search, i) <= candidate
hi_comparison(i) == IF Triangular THEN RowStart(i) > candidate ELSE search.offsets[i] > candidate

SearchAbove ==
  /\ indexStep = "search" /\ lo_comparison(Mid)
  /\ l' = Mid + 1
  /\ indexStep' = Goes(Mid + 1, r)
  /\ UNCHANGED <<search, count, candidate, r, pairs>>

\* Mutant of SearchBelow: the end of the search is past the last element, as in a search of a half-open range.
SkipsOne ==
  /\ indexStep = "search" /\ ~lo_comparison(Mid) /\ hi_comparison(Mid)
  /\ r' = Mid - 2
  /\ indexStep' = Goes(l, Mid - 2)
  /\ UNCHANGED <<search, count, candidate, l, pairs>>

SearchBelow ==
  /\ indexStep = "search" /\ ~lo_comparison(Mid) /\ hi_comparison(Mid)
  /\ r' = Mid - 1
  /\ indexStep' = Goes(l, Mid - 1)
  /\ UNCHANGED <<search, count, candidate, l, pairs>>

\* The pair, and whether it is kept: of a mesh and itself one direction is.
PairAt(row) ==
  IF Triangular THEN <<row, candidate - RowStart(row)>> ELSE <<search.ids[candidate + 1], row>>
Retained(x) == search.kind = "sameBvh" => x[1] > x[2]

\* Mutant of FoundRow: both directions are kept.
KeepsBoth ==
  /\ indexStep = "search" /\ ~lo_comparison(Mid) /\ ~hi_comparison(Mid)
  /\ Stored(PairAt(Mid))
  /\ NextIteration
  /\ UNCHANGED <<search, count, l, r>>

FoundRow ==
  /\ indexStep = "search" /\ ~lo_comparison(Mid) /\ ~hi_comparison(Mid)
  /\ IF Retained(PairAt(Mid)) THEN Stored(PairAt(Mid)) ELSE UNCHANGED pairs
  /\ NextIteration
  /\ UNCHANGED <<search, count, l, r>>

IndexNext ==
  \/ CountCandidates \/ DivideCandidate \/ BeginSearch
  \/ SearchAbove \/ SearchBelow \/ FoundRow

IndexSpec == IndexInit /\ [][IndexNext]_indexVars

-----------------------------------------------------------------------------
\* What a search is for: all pairs of elements, or those whose boxes meet; of a mesh and itself one of each two, and
\* of the BVH none of an element with itself.
OneMesh == search.kind \in {"triangle", "sameBvh"}
Wanted ==
  CASE search.kind \in {"product", "triangle"} -> Below(search.n1) \X Below(search.n2)
    [] search.kind = "bvh" -> Met(search)
    [] search.kind = "sameBvh" -> {x \in Met(search) : x[1] # x[2]}
Same(x, y) == x = y \/ (OneMesh /\ x = <<y[2], y[1]>>)

\* The iterations of a search look at every pair it is for once, in one direction: no row is missed for an empty
\* range or at the ends of a binary search, and where the number of pairs is in IndexT all else is.
\* (Algorithm.hpp:29-106, InterfacePairFinder.cpp:123-186, BvhSearch.hpp:96-151)
EachPairOnce ==
  /\ indexStep # "not found"
  /\ indexStep = "undefined" => count = 0
  /\ indexStep = "next" /\ candidate = count =>
       /\ \A c \in DOMAIN pairs : pairs[c] \in Wanted
       /\ \A c, d \in DOMAIN pairs : Same(pairs[c], pairs[d]) => c = d
       /\ \A x \in Wanted : \E c \in DOMAIN pairs : Same(pairs[c], x)
=============================================================================
