---------------------------- MODULE Search_proofs ----------------------------
(***************************************************************************)
(* The parallel search for pairs, for meshes of any size, any width of the *)
(* index type and any finite set of candidates.                            *)
(*                                                                         *)
(* Of CandidateIndex: every pair is looked at once.  What makes a binary   *)
(* search find its row is that its bounds always enclose the candidate:    *)
(* the row at l starts at or before it, the row after r behind it.         *)
(*                                                                         *)
(* Of PairCompaction: types, exclusive slots, entries that are written     *)
(* once, and the refinement of PairSelection.                              *)
(***************************************************************************)
EXTENDS CandidateIndex, PairCompaction, FiniteSetTheorems, TLAPS

-----------------------------------------------------------------------------
(* Which two elements an iteration looks at. *)

Listing == search.kind \in {"bvh", "sameBvh"}

\* The number of candidates before row i.
Start(i) == IF Triangular THEN RowStart(i) ELSE IF i < search.n2 THEN search.offsets[i] ELSE Len(search.ids)

InRow(c, i) == i \in Below(Rows) /\ Start(i) <= c /\ c < Start(i + 1)

\* The pair x was made of candidate c.
MadeOf(c, x) ==
  CASE search.kind = "product" -> x = <<c \div search.n2, c % search.n2>>
    [] search.kind = "triangle" -> \E i \in Nat : InRow(c, i) /\ x = <<i, c - RowStart(i)>>
    [] search.kind = "bvh" -> \E i \in Nat : InRow(c, i) /\ x = <<search.ids[c + 1], i>>
    [] search.kind = "sameBvh" -> \E i \in Nat : InRow(c, i) /\ x = <<search.ids[c + 1], i>> /\ x[1] > x[2]

\* Candidates of which no pair is kept.
Dropped(c) == search.kind = "sameBvh" /\ \E i \in Nat : InRow(c, i) /\ search.ids[c + 1] <= i

SearchCounted == indexStep \in {"next", "search"} => count = Maximum /\ Fits(LargestProduct)
Kept ==
  /\ \A c \in DOMAIN pairs : c \in Below(candidate) /\ MadeOf(c, pairs[c])
  /\ \A c \in Below(candidate) : c \in DOMAIN pairs \/ Dropped(c)
Enclosed ==
  indexStep = "search" =>
    /\ candidate < count /\ search.kind # "product"
    /\ l \in Nat /\ r \in Nat /\ l <= r /\ r < Rows
    /\ Start(l) <= candidate /\ candidate < Start(r + 1)

SearchIInv ==
  /\ search \in Searches
  /\ candidate \in Nat /\ count \in Nat /\ candidate <= count
  /\ indexStep \in {"count", "next", "search", "undefined"}
  /\ indexStep \in {"count", "undefined"} => count = 0
  /\ SearchCounted
  /\ Kept
  /\ Enclosed

-----------------------------------------------------------------------------
(* Arithmetic. *)

LEMMA RowLength ==
  ASSUME NEW i \in Nat
  PROVE  RowStart(i) \in Nat /\ RowStart(i + 1) = RowStart(i) + i + 1
<1>1. (i + 1) * (i + 2) = i * (i + 1) + 2 * (i + 1)
  OBVIOUS
<1>2. i * (i + 1) \in Nat
  OBVIOUS
<1>3. \A x \in Nat, k \in Nat : (x + 2 * k) \div 2 = (x \div 2) + k /\ x \div 2 \in Nat
  OBVIOUS
<1> QED BY <1>1, <1>2, <1>3 DEF RowStart

LEMMA RowsInOrder ==
  ASSUME NEW i \in Nat, NEW j \in Nat, i < j
  PROVE  RowStart(i + 1) <= RowStart(j)
<1>1. (i + 1) * (i + 2) <= j * (j + 1)
  <2>1. i + 1 <= j /\ i + 2 <= j + 1
    OBVIOUS
  <2>2. (i + 1) * (i + 2) <= j * (i + 2)
    BY <2>1
  <2>3. j * (i + 2) <= j * (j + 1)
    BY <2>1
  <2> QED BY <2>2, <2>3
<1>2. \A x, y \in Nat : x <= y => x \div 2 <= y \div 2
  OBVIOUS
<1>3. (i + 1) * (i + 2) \in Nat /\ j * (j + 1) \in Nat
  OBVIOUS
<1> QED BY <1>1, <1>2, <1>3 DEF RowStart

\* Nothing the search of a triangle computes is larger than the product the triangle was counted by.
LEMMA SmallerThanCount ==
  ASSUME NEW n \in Nat, NEW lo \in Nat, NEW hi \in Nat, lo <= hi, hi < n
  PROVE  /\ Halves(lo, hi) \in Nat /\ lo <= Halves(lo, hi) /\ Halves(lo, hi) <= hi
         /\ lo + hi <= n * (n + 1)
         /\ (Halves(lo, hi) + 1) * (Halves(lo, hi) + 2) <= n * (n + 1)
<1> DEFINE m == Halves(lo, hi)
<1>1. m \in Nat /\ lo <= m /\ m <= hi
  BY DEF Halves
<1>2. lo + hi <= n * (n + 1)
  <2>1. lo + hi <= n + n /\ n >= 1
    OBVIOUS
  <2>2. n + n <= n * (n + 1)
    BY <2>1
  <2> QED BY <2>1, <2>2
<1>3. (m + 1) * (m + 2) <= n * (n + 1)
  <2>1. m + 1 <= n /\ m + 2 <= n + 1 /\ m + 1 \in Nat
    BY <1>1
  <2> HIDE DEF m
  <2>2. (m + 1) * (m + 2) <= n * (m + 2)
    BY <1>1, <2>1
  <2>3. n * (m + 2) <= n * (n + 1)
    BY <1>1, <2>1
  <2> QED BY <1>1, <2>2, <2>3
<1> QED BY <1>1, <1>2, <1>3

LEMMA Division ==
  ASSUME NEW c \in Nat, NEW n \in Nat, n > 0
  PROVE  c = n * (c \div n) + (c % n) /\ c \div n \in Nat /\ c % n \in Below(n)
BY DEF Below

LEMMA Quotient ==
  ASSUME NEW i \in Nat, NEW j \in Nat, NEW n \in Nat, j < n
  PROVE  (i * n + j) \div n = i /\ (i * n + j) % n = j
OBVIOUS

LEMMA QuotientBound ==
  ASSUME NEW c \in Nat, NEW n \in Nat, NEW k \in Nat, c < k * n
  PROVE  n > 0 /\ c \div n < k
OBVIOUS

-----------------------------------------------------------------------------
(* Rows of a search. *)

LEMMA Input ==
  ASSUME search \in Searches
  PROVE  /\ MaxIndex \in Nat
         /\ search.kind \in Kinds /\ search.n1 \in Nat /\ search.n2 \in Nat
         /\ search.kind \in {"triangle", "sameBvh"} => search.n1 = search.n2
         /\ Listing => Listed(search) /\ 2 * search.n2 <= MaxIndex /\ Len(search.ids) <= MaxIndex
         /\ search.kind = "sameBvh" => Symmetric(search)
         /\ Rows \in Nat
BY CandidateAssumption DEF Listing, Rows, Triangular

\* The two comparisons are those of the candidate with the starts of a row and of the next.
LEMMA Comparisons ==
  ASSUME search \in Searches, search.kind # "product", candidate \in Nat, NEW i \in Below(Rows)
  PROVE  /\ Start(i) \in Nat /\ Start(i + 1) \in Nat
         /\ lo_comparison(i) <=> Start(i + 1) <= candidate
         /\ hi_comparison(i) <=> Start(i) > candidate
<1>1. i \in Nat /\ i < Rows
  BY Input DEF Below
<1>2. CASE Triangular
  <2>1. RowStart(i) \in Nat /\ RowStart(i + 1) \in Nat
    BY <1>1, RowLength
  <2> QED BY <1>2, <2>1 DEF Start, lo_comparison, hi_comparison
<1>3. CASE ~Triangular
  <2>1. Listed(search) /\ Rows = search.n2 /\ search.n2 \in Nat
    BY <1>3, Input DEF Listing, Rows, Triangular, Kinds
  <2>2. Start(i) = search.offsets[i] /\ search.offsets[i] \in Nat /\ search.counts[i] \in Nat
    BY <1>1, <1>3, <2>1 DEF Start, Listed, Below
  <2>3. Start(i + 1) = RangeEnd(search, i)
    <3>1. CASE i + 1 < search.n2
      BY <1>1, <1>3, <2>1, <3>1 DEF Start, Listed, Below
    <3>2. CASE ~(i + 1 < search.n2)
      <4>1. i = search.n2 - 1
        BY <1>1, <2>1, <3>2
      <4> QED BY <1>3, <2>1, <3>2, <4>1 DEF Start, Listed
    <3> QED BY <3>1, <3>2
  <2> QED BY <1>3, <2>2, <2>3 DEF lo_comparison, hi_comparison, RangeEnd
<1> QED BY <1>2, <1>3

LEMMA StartsInOrder ==
  ASSUME search \in Searches, search.kind # "product",
         NEW i \in Below(Rows), NEW j \in Below(Rows), i < j
  PROVE  Start(i + 1) <= Start(j)
<1>1. i \in Nat /\ j \in Nat /\ j < Rows
  BY Input DEF Below
<1>2. CASE Triangular
  BY <1>1, <1>2, RowsInOrder DEF Start
<1>3. CASE ~Triangular
  <2>1. Listed(search) /\ Rows = search.n2 /\ search.n2 \in Nat
    BY <1>3, Input DEF Listing, Rows, Triangular, Kinds
  <2>2. i + 1 < search.n2 /\ Start(i + 1) = search.offsets[i + 1] /\ Start(j) = search.offsets[j]
    BY <1>1, <1>3, <2>1 DEF Start
  <2> QED BY <1>1, <2>1, <2>2 DEF Listed, Below
<1> QED BY <1>2, <1>3

LEMMA OneRow ==
  ASSUME search \in Searches, search.kind # "product", candidate \in Nat,
         NEW c \in Nat, NEW i, NEW j, InRow(c, i), InRow(c, j)
  PROVE  i = j
<1>1. i \in Below(Rows) /\ j \in Below(Rows) /\ i \in Int /\ j \in Int
  BY Input DEF InRow, Below
<1>2. /\ Start(i) \in Nat /\ Start(i + 1) \in Nat /\ Start(j) \in Nat /\ Start(j + 1) \in Nat
  BY <1>1, Comparisons
<1>3. ~(i < j)
  BY <1>1, <1>2, StartsInOrder DEF InRow
<1>4. ~(j < i)
  BY <1>1, <1>2, StartsInOrder DEF InRow
<1> QED BY <1>1, <1>3, <1>4

\* The first row starts at 0, and there are as many candidates as the last row ends at.
LEMMA Ends ==
  ASSUME search \in Searches, search.kind # "product"
  PROVE  Start(0) = 0 /\ Start(Rows) = Maximum /\ (Maximum > 0 => Rows > 0)
<1>1. CASE Triangular
  BY <1>1, Input DEF Start, Rows, Maximum, LargestProduct, Triangular, RowStart
<1>2. CASE ~Triangular
  <2>1. Listed(search) /\ Rows = search.n2 /\ search.n2 \in Nat
    BY <1>2, Input DEF Listing, Rows, Triangular, Kinds
  <2> QED BY <1>2, <2>1 DEF Start, Listed, Maximum, LargestProduct, Triangular
<1> QED BY <1>1, <1>2

LEMMA MaximumType ==
  ASSUME search \in Searches
  PROVE  Maximum \in Nat /\ LargestProduct \in Nat
<1>1. CASE search.kind = "product"
  BY <1>1, Input DEF Maximum, LargestProduct, Triangular
<1>2. CASE Triangular
  <2>1. search.n1 * (search.n1 + 1) \in Nat
    BY Input
  <2>2. \A x \in Nat : x \div 2 \in Nat
    OBVIOUS
  <2> QED BY <1>2, <2>1, <2>2 DEF Maximum, LargestProduct, Triangular
<1>3. CASE search.kind # "product" /\ ~Triangular
  <2>1. Listed(search)
    BY <1>3, Input DEF Listing, Triangular, Kinds
  <2> QED BY <1>3, <2>1 DEF Maximum, LargestProduct, Triangular, Listed
<1> QED BY <1>1, <1>2, <1>3

\* A binary search that has not ended computes in IndexT, wherever the product it was counted by is.
LEMMA StaysInIndexT ==
  ASSUME search \in Searches, search.kind # "product", Fits(LargestProduct),
         NEW lo \in Nat, NEW hi \in Nat, lo <= hi, hi < Rows
  PROVE  Goes(lo, hi) = "search"
<1>1. CASE Triangular
  <2>1. search.n1 \in Nat /\ Rows = search.n1 /\ LargestProduct = search.n1 * (search.n1 + 1)
    BY <1>1, Input DEF Rows, LargestProduct, Triangular
  <2>2. /\ lo + hi <= LargestProduct
        /\ (Halves(lo, hi) + 1) * (Halves(lo, hi) + 2) <= LargestProduct
        /\ Halves(lo, hi) \in Nat
    BY <2>1, SmallerThanCount
  <2>3. LargestProduct \in Nat /\ MaxIndex \in Nat /\ LargestProduct <= MaxIndex
    BY MaximumType, Input DEF Fits
  <2>4. (Halves(lo, hi) + 1) * (Halves(lo, hi) + 2) \in Nat
    BY <2>2
  <2> QED BY <1>1, <2>2, <2>3, <2>4 DEF Goes, Computable, Fits
<1>2. CASE ~Triangular
  <2>1. search.n2 \in Nat /\ Rows = search.n2 /\ MaxIndex \in Nat /\ 2 * search.n2 <= MaxIndex
    BY <1>2, Input DEF Listing, Rows, Triangular, Kinds
  <2> QED BY <1>2, <2>1 DEF Goes, Computable, Fits
<1> QED BY <1>1, <1>2

-----------------------------------------------------------------------------
(* The invariant. *)

\* A middle between the bounds.
LEMMA MidBetween ==
  ASSUME SearchIInv, indexStep = "search"
  PROVE  /\ Mid \in Below(Rows) /\ Mid \in Nat /\ l <= Mid /\ Mid <= r
         /\ Start(Mid) \in Nat /\ Start(Mid + 1) \in Nat
         /\ lo_comparison(Mid) <=> Start(Mid + 1) <= candidate
         /\ hi_comparison(Mid) <=> Start(Mid) > candidate
<1>1. l \in Nat /\ r \in Nat /\ l <= r /\ r < Rows /\ Rows \in Nat
  BY Input DEF SearchIInv, Enclosed
<1>2. Mid \in Nat /\ l <= Mid /\ Mid <= r
  BY <1>1 DEF Mid, Halves
<1>3. Mid \in Below(Rows)
  BY <1>1, <1>2 DEF Below
<1> QED BY <1>2, <1>3, Comparisons DEF SearchIInv, Enclosed

LEMMA InitSearchIInv == IndexInit => SearchIInv
<1> SUFFICES ASSUME IndexInit PROVE SearchIInv
  OBVIOUS
<1>1. Kept
  BY DEF IndexInit, Kept, NoPairs, Below
<1> QED BY <1>1 DEF IndexInit, SearchIInv, SearchCounted, Enclosed

\* A search that stays the same keeps its rows, and the pairs made of them.
LEMMA SameSearch ==
  ASSUME search' = search
  PROVE  /\ Rows' = Rows /\ Maximum' = Maximum /\ LargestProduct' = LargestProduct
         /\ \A i : Start(i)' = Start(i)
         /\ \A c, x : MadeOf(c, x)' <=> MadeOf(c, x)
         /\ \A c : Dropped(c)' <=> Dropped(c)
BY DEF Rows, Maximum, LargestProduct, Triangular, Start, RowStart, MadeOf, Dropped, InRow, Below

\* An iteration that stores the pair x, or drops its candidate.
LEMMA KeptNext ==
  ASSUME SearchIInv, search' = search, candidate' = candidate + 1,
         \/ \E x : Stored(x) /\ MadeOf(candidate, x)
         \/ pairs' = pairs /\ Dropped(candidate)
  PROVE  Kept'
<1>1. candidate \in Nat /\ candidate' = candidate + 1 /\ Below(candidate + 1) = Below(candidate) \cup {candidate}
  BY DEF SearchIInv, Below
<1>2. ASSUME NEW c \in DOMAIN pairs'
      PROVE  c \in Below(candidate + 1) /\ MadeOf(c, pairs[c])'
  <2>1. PICK y : y = pairs'[c]
    OBVIOUS
  <2>2. c \in Below(candidate + 1) /\ MadeOf(c, y)
    BY <1>1, <2>1 DEF Stored, SearchIInv, Kept
  <2>3. MadeOf(c, y)'
    BY <2>2, SameSearch
  <2> QED BY <2>1, <2>2, <2>3
<1>3. ASSUME NEW c \in Below(candidate + 1)
      PROVE  c \in DOMAIN pairs' \/ Dropped(c)'
  <2>1. CASE c = candidate
    BY <2>1, SameSearch DEF Stored
  <2>2. CASE c \in Below(candidate)
    <3>1. c \in DOMAIN pairs \/ Dropped(c)
      BY <2>2 DEF SearchIInv, Kept
    <3> QED BY <3>1, SameSearch DEF Stored
  <2> QED BY <1>1, <2>1, <2>2
<1>4. Below(candidate)' = Below(candidate + 1)
  BY <1>1 DEF Below
<1> QED BY <1>2, <1>3, <1>4 DEF Kept

LEMMA NextSearchIInv == SearchIInv /\ [IndexNext]_indexVars => SearchIInv'
<1> SUFFICES ASSUME SearchIInv, [IndexNext]_indexVars PROVE SearchIInv'
  OBVIOUS
<1>1. CASE CountCandidates
  <2>1. Kept'
    BY <1>1, SameSearch DEF CountCandidates, SearchIInv, Kept
  <2>2. Maximum \in Nat
    BY MaximumType DEF SearchIInv
  <2> QED BY <1>1, <2>1, <2>2, SameSearch DEF CountCandidates, SearchIInv, SearchCounted, Enclosed, Fits
<1>2. CASE DivideCandidate
  <2>1. MadeOf(candidate, <<candidate \div search.n2, candidate % search.n2>>)
    BY <1>2, Zenon DEF DivideCandidate, MadeOf
  <2>2. Kept'
    BY <1>2, <2>1, KeptNext DEF DivideCandidate, NextIteration
  <2> QED BY <1>2, <2>2, SameSearch DEF DivideCandidate, NextIteration, SearchIInv, SearchCounted, Enclosed, Fits
<1>3. CASE BeginSearch
  <2>1. Rows \in Nat /\ Rows > 0 /\ Start(0) = 0 /\ Start(Rows) = count
    BY <1>3, Input, Ends, MaximumType DEF BeginSearch, SearchIInv, SearchCounted
  <2>2. Goes(0, Rows - 1) = "search"
    BY <1>3, <2>1, StaysInIndexT DEF BeginSearch, SearchIInv, SearchCounted
  <2>3. Kept'
    BY <1>3, SameSearch DEF BeginSearch, SearchIInv, Kept
  <2>4. Enclosed'
    BY <1>3, <2>1, SameSearch DEF BeginSearch, Enclosed, SearchIInv
  <2> QED BY <1>3, <2>2, <2>3, <2>4, SameSearch DEF BeginSearch, SearchIInv, SearchCounted, Fits
<1>4. CASE SearchAbove
  <2>1. Mid \in Nat /\ Mid <= r /\ Start(Mid + 1) <= candidate /\ Start(Mid + 1) \in Nat
    BY <1>4, MidBetween DEF SearchAbove
  <2>2. r \in Nat /\ r < Rows /\ candidate < Start(r + 1) /\ candidate \in Nat
    BY <1>4 DEF SearchAbove, SearchIInv, Enclosed
  <2>3. Mid + 1 <= r
    <3>1. Mid # r
      BY <2>1, <2>2
    <3> QED BY <2>1, <2>2, <3>1
  <2>4. Goes(Mid + 1, r) = "search"
    BY <1>4, <2>1, <2>2, <2>3, StaysInIndexT DEF SearchAbove, SearchIInv, SearchCounted, Enclosed
  <2>5. Kept'
    BY <1>4, SameSearch DEF SearchAbove, SearchIInv, Kept
  <2>6. Enclosed'
    BY <1>4, <2>1, <2>2, <2>3, SameSearch DEF SearchAbove, Enclosed, SearchIInv
  <2> QED BY <1>4, <2>4, <2>5, <2>6, SameSearch DEF SearchAbove, SearchIInv, SearchCounted, Fits
<1>5. CASE SearchBelow
  <2>1. Mid \in Nat /\ l <= Mid /\ Mid <= r /\ candidate < Start(Mid) /\ Start(Mid) \in Nat
    BY <1>5, MidBetween DEF SearchBelow
  <2>2. l \in Nat /\ r \in Nat /\ r < Rows /\ Rows \in Nat /\ Start(l) <= candidate /\ candidate \in Nat
    BY <1>5, Input DEF SearchBelow, SearchIInv, Enclosed
  <2>3. l <= Mid - 1 /\ Mid - 1 \in Nat /\ Mid - 1 < Rows
    <3>1. Mid # l
      BY <2>1, <2>2
    <3> QED BY <2>1, <2>2, <3>1
  <2>4. Goes(l, Mid - 1) = "search"
    BY <1>5, <2>2, <2>3, StaysInIndexT DEF SearchBelow, SearchIInv, SearchCounted, Enclosed
  <2>5. Kept'
    BY <1>5, SameSearch DEF SearchBelow, SearchIInv, Kept
  <2>6. (Mid - 1) + 1 = Mid
    BY <2>1
  <2>7. Enclosed'
    BY <1>5, <2>1, <2>2, <2>3, <2>6, SameSearch DEF SearchBelow, Enclosed, SearchIInv
  <2> QED BY <1>5, <2>4, <2>5, <2>7, SameSearch DEF SearchBelow, SearchIInv, SearchCounted, Fits
<1>6. CASE FoundRow
  <2>1. /\ Mid \in Below(Rows) /\ Mid \in Nat /\ Start(Mid) \in Nat /\ Start(Mid + 1) \in Nat
        /\ Start(Mid) <= candidate /\ candidate < Start(Mid + 1) /\ candidate \in Nat
    BY <1>6, MidBetween DEF FoundRow, SearchIInv
  <2>2. InRow(candidate, Mid)
    BY <2>1 DEF InRow
  <2>3. search.kind \in Kinds /\ search.kind # "product"
    BY <1>6, Input DEF FoundRow, SearchIInv, Enclosed
  <2>4. CASE Retained(PairAt(Mid))
    <3>1. MadeOf(candidate, PairAt(Mid))
      BY <2>1, <2>2, <2>3, <2>4 DEF MadeOf, PairAt, Retained, Triangular, Kinds
    <3> QED BY <1>6, <2>4, <3>1, KeptNext, SameSearch
            DEF FoundRow, NextIteration, SearchIInv, SearchCounted, Enclosed, Fits
  <2>5. CASE ~Retained(PairAt(Mid))
    <3>1. search.kind = "sameBvh" /\ ~(search.ids[candidate + 1] > Mid)
      BY <2>5 DEF Retained, PairAt, Triangular
    <3>2. search.ids[candidate + 1] \in Int
      <4>1. Listed(search) /\ search.n1 \in Nat /\ count = Len(search.ids) /\ candidate < count
        BY <1>6, <3>1, Input DEF Listing, FoundRow, SearchIInv, SearchCounted, Enclosed, Maximum, LargestProduct, Triangular
      <4>2. candidate + 1 \in 1 .. Len(search.ids)
        BY <2>1, <4>1 DEF Listed
      <4> QED BY <4>1, <4>2 DEF Listed, Below
    <3>3. Dropped(candidate)
      BY <2>1, <2>2, <3>1, <3>2 DEF Dropped
    <3> QED BY <1>6, <2>5, <3>3, KeptNext, SameSearch
            DEF FoundRow, NextIteration, SearchIInv, SearchCounted, Enclosed, Fits
  <2> QED BY <2>4, <2>5
<1>7. CASE UNCHANGED indexVars
  BY <1>7, SameSearch DEF indexVars, SearchIInv, SearchCounted, Kept, Enclosed, Fits
<1> QED BY <1>1, <1>2, <1>3, <1>4, <1>5, <1>6, <1>7 DEF IndexNext

\* The bounds of every search enclose the candidate, and numbers stay in the index type once the count did.
THEOREM SearchEncloses == IndexSpec => []SearchIInv
BY InitSearchIInv, NextSearchIInv, PTL DEF IndexSpec

-----------------------------------------------------------------------------
(* What the invariant says once the last iteration is over. *)

Finished == SearchIInv /\ indexStep = "next" /\ candidate = count

LEMMA Totals ==
  ASSUME Finished
  PROVE  /\ search \in Searches /\ candidate \in Nat /\ candidate = Maximum
         /\ Below(candidate) \subseteq Nat
         /\ \A c \in DOMAIN pairs : c \in Below(candidate) /\ MadeOf(c, pairs[c])
         /\ \A c \in Below(candidate) : c \in DOMAIN pairs \/ Dropped(c)
BY DEF Finished, SearchIInv, SearchCounted, Kept, Below

LEMMA ProductDone ==
  ASSUME Finished, search.kind = "product"
  PROVE  /\ \A c \in DOMAIN pairs : pairs[c] \in Wanted
         /\ \A c, d \in DOMAIN pairs : Same(pairs[c], pairs[d]) => c = d
         /\ \A x \in Wanted : \E c \in DOMAIN pairs : Same(pairs[c], x)
<1> DEFINE n1 == search.n1
           n2 == search.n2
<1>1. n1 \in Nat /\ n2 \in Nat /\ candidate = n1 * n2
  BY Totals, Input DEF Maximum, LargestProduct, Triangular
<1>2. Wanted = Below(n1) \X Below(n2) /\ \A x, y : Same(x, y) <=> x = y
  BY DEF Wanted, Same, OneMesh
<1>3. ASSUME NEW c \in DOMAIN pairs
      PROVE  /\ c \in Nat /\ pairs[c] = <<c \div n2, c % n2>> /\ n2 > 0
             /\ c \div n2 \in Below(n1) /\ c % n2 \in Below(n2) /\ c = n2 * (c \div n2) + (c % n2)
  <2>1. c \in Nat /\ c < n1 * n2 /\ MadeOf(c, pairs[c])
    BY <1>1, Totals DEF Below
  <2>2. pairs[c] = <<c \div n2, c % n2>>
    BY <2>1 DEF MadeOf
  <2>3. n2 > 0 /\ c \div n2 < n1
    BY <1>1, <2>1, QuotientBound
  <2>4. c = n2 * (c \div n2) + (c % n2) /\ c \div n2 \in Nat /\ c % n2 \in Below(n2)
    BY <1>1, <2>1, <2>3, Division
  <2>5. \A k \in Nat : k < n1 => k \in Below(n1)
    BY <1>1 DEF Below
  <2> HIDE DEF n1, n2
  <2> QED BY <2>1, <2>2, <2>3, <2>4, <2>5
<1>4. ASSUME NEW c \in DOMAIN pairs, NEW d \in DOMAIN pairs, pairs[c] = pairs[d]
      PROVE  c = d
  <2>1. c \div n2 = d \div n2 /\ c % n2 = d % n2
    BY <1>3, <1>4
  <2> QED BY <1>3, <2>1
<1>5. ASSUME NEW i \in Below(n1), NEW j \in Below(n2)
      PROVE  \E c \in DOMAIN pairs : pairs[c] = <<i, j>>
  <2> DEFINE c == i * n2 + j
  <2>1. i \in Nat /\ j \in Nat /\ j < n2 /\ i + 1 <= n1
    BY <1>1, <1>5 DEF Below
  <2>2. c \in Nat /\ c < n1 * n2
    <3>1. c < (i + 1) * n2 /\ c \in Nat
      BY <1>1, <2>1
    <3>2. (i + 1) * n2 <= n1 * n2
      BY <1>1, <2>1
    <3> HIDE DEF c
    <3> QED BY <1>1, <2>1, <3>1, <3>2
  <2>3. c \div n2 = i /\ c % n2 = j
    BY <1>1, <2>1, Quotient
  <2> HIDE DEF c
  <2>4. c \in DOMAIN pairs
    BY <1>1, <2>2, Totals DEF Below, Dropped
  <2> QED BY <1>3, <2>3, <2>4
<1> QED BY <1>2, <1>3, <1>4, <1>5

LEMMA TriangleDone ==
  ASSUME Finished, search.kind = "triangle"
  PROVE  /\ \A c \in DOMAIN pairs : pairs[c] \in Wanted
         /\ \A c, d \in DOMAIN pairs : Same(pairs[c], pairs[d]) => c = d
         /\ \A x \in Wanted : \E c \in DOMAIN pairs : Same(pairs[c], x)
<1> DEFINE n == search.n1
<1>1. n \in Nat /\ search.n2 = n /\ Rows = n /\ Triangular /\ candidate = Start(n)
  BY Totals, Input, Ends DEF Rows, Triangular
<1>2. Wanted = Below(n) \X Below(n) /\ \A x, y : Same(x, y) <=> x = y \/ x = <<y[2], y[1]>>
  BY <1>1 DEF Wanted, Same, OneMesh
<1>3. \A i : Start(i) = RowStart(i)
  BY <1>1 DEF Start
<1>4. ASSUME NEW c \in DOMAIN pairs
      PROVE  /\ c \in Nat
             /\ \E i, j \in Below(n) : j <= i /\ pairs[c] = <<i, j>> /\ c = RowStart(i) + j
  <2>1. c \in Nat /\ MadeOf(c, pairs[c])
    BY Totals
  <2>2. PICK i \in Nat : InRow(c, i) /\ pairs[c] = <<i, c - RowStart(i)>>
    BY <2>1 DEF MadeOf
  <2>3. i < n /\ RowStart(i) <= c /\ c < RowStart(i + 1)
    BY <1>1, <1>3, <2>2 DEF InRow, Below
  <2>4. RowStart(i) \in Nat /\ RowStart(i + 1) = RowStart(i) + i + 1
    BY RowLength
  <2>5. c - RowStart(i) \in Below(n) /\ c - RowStart(i) <= i /\ i \in Below(n)
    BY <1>1, <2>1, <2>3, <2>4 DEF Below
  <2>6. c = RowStart(i) + (c - RowStart(i))
    BY <2>1, <2>4
  <2> QED BY <2>1, <2>2, <2>5, <2>6
<1>5. ASSUME NEW c \in DOMAIN pairs, NEW d \in DOMAIN pairs, Same(pairs[c], pairs[d])
      PROVE  c = d
  <2>1. PICK i, j \in Below(n) : j <= i /\ pairs[c] = <<i, j>> /\ c = RowStart(i) + j
    BY <1>4
  <2>2. PICK h, k \in Below(n) : k <= h /\ pairs[d] = <<h, k>> /\ d = RowStart(h) + k
    BY <1>4
  <2>3. (i = h /\ j = k) \/ (i = k /\ j = h)
    BY <1>2, <1>5, <2>1, <2>2
  <2>4. i = h /\ j = k
    BY <1>1, <2>1, <2>2, <2>3 DEF Below
  <2> QED BY <2>1, <2>2, <2>4
<1>6. ASSUME NEW i \in Below(n), NEW j \in Below(n), j <= i
      PROVE  \E c \in DOMAIN pairs : pairs[c] = <<i, j>>
  <2> DEFINE c == RowStart(i) + j
  <2>1. i \in Nat /\ j \in Nat /\ i < n
    BY <1>1, <1>6 DEF Below
  <2>2. RowStart(i) \in Nat /\ RowStart(i + 1) = RowStart(i) + i + 1 /\ RowStart(n) \in Nat
    BY <1>1, <2>1, RowLength
  <2>3. RowStart(i + 1) <= RowStart(n)
    BY <1>1, <2>1, RowsInOrder
  <2>4. c \in Nat /\ c < candidate /\ RowStart(i) <= c /\ c < RowStart(i + 1)
    BY <1>1, <1>3, <1>6, <2>1, <2>2, <2>3
  <2>5. c \in DOMAIN pairs
    <3>1. c \in Below(candidate)
      BY <2>4, Totals DEF Below
    <3> QED BY <3>1, Totals DEF Dropped
  <2>6. InRow(c, i)
    BY <1>1, <1>3, <2>4 DEF InRow
  <2>7. PICK h \in Nat : InRow(c, h) /\ pairs[c] = <<h, c - RowStart(h)>>
    <3>1. MadeOf(c, pairs[c])
      BY <2>5, Totals
    <3> QED BY <3>1 DEF MadeOf
  <2>8. h = i
    <3> HIDE DEF c
    <3> QED BY <2>4, <2>6, <2>7, OneRow, Totals
  <2>9. c - RowStart(i) = j
    BY <2>1, <2>2
  <2> QED BY <2>5, <2>7, <2>8, <2>9
<1>7. ASSUME NEW x \in Wanted
      PROVE  \E c \in DOMAIN pairs : Same(pairs[c], x)
  <2>1. PICK i, j \in Below(n) : x = <<i, j>>
    BY <1>2
  <2>2. CASE j <= i
    BY <1>2, <1>6, <2>1, <2>2
  <2>3. CASE ~(j <= i)
    <3>1. i <= j
      BY <1>1, <2>1, <2>3 DEF Below
    <3> QED BY <1>2, <1>6, <2>1, <3>1
  <2> QED BY <2>2, <2>3
<1>8. \A c \in DOMAIN pairs : pairs[c] \in Wanted
  BY <1>2, <1>4
<1> QED BY <1>5, <1>7, <1>8

\* A candidate of the BVH, its row and its element.
LEMMA ListedRow ==
  ASSUME Finished, Listing
  PROVE  /\ search.n1 \in Nat /\ search.n2 \in Nat /\ Listed(search)
         /\ candidate = Len(search.ids)
         /\ \A c \in Nat, q \in Nat : InRow(c, q) <=>
              q \in Below(search.n2) /\ c + 1 \in search.offsets[q] + 1 .. RangeEnd(search, q)
         /\ \A c \in Nat, q \in Nat : InRow(c, q) => c \in Below(candidate) /\ search.ids[c + 1] \in Below(search.n1)
<1>1. /\ search.n1 \in Nat /\ search.n2 \in Nat /\ Listed(search) /\ ~Triangular
      /\ search.kind # "product" /\ Rows = search.n2
  BY Totals, Input DEF Listing, Rows, Triangular
<1>2. candidate = Len(search.ids) /\ Len(search.ids) \in Nat
  BY <1>1, Totals DEF Maximum, LargestProduct, Listed, Listing, Triangular
<1>3. ASSUME NEW q \in Below(search.n2)
      PROVE  /\ q \in Nat /\ Start(q) = search.offsets[q] /\ Start(q + 1) = RangeEnd(search, q)
             /\ Start(q) \in Nat /\ Start(q + 1) \in Nat /\ Start(q + 1) <= candidate
  <2>1. q \in Nat /\ q < search.n2
    BY <1>1 DEF Below
  <2>2. Start(q) = search.offsets[q] /\ search.offsets[q] \in Nat /\ search.counts[q] \in Nat
    BY <1>1, <2>1 DEF Start, Listed
  <2>3. CASE q + 1 < search.n2
    <3>1. search.n2 - 1 \in Below(search.n2) /\ q < search.n2 - 1
      BY <1>1, <2>1, <2>3 DEF Below
    <3>2. RangeEnd(search, q) <= search.offsets[search.n2 - 1]
      BY <1>1, <3>1 DEF Listed
    <3>3. search.offsets[search.n2 - 1] \in Nat /\ search.counts[search.n2 - 1] \in Nat
      BY <1>1, <3>1 DEF Listed
    <3>4. RangeEnd(search, search.n2 - 1) = candidate
      BY <1>1, <1>2 DEF Listed
    <3>5. Start(q + 1) = RangeEnd(search, q)
      BY <1>1, <2>1, <2>3 DEF Start, Listed
    <3> QED BY <1>2, <2>1, <2>2, <3>2, <3>3, <3>4, <3>5 DEF RangeEnd
  <2>4. CASE ~(q + 1 < search.n2)
    <3>1. q = search.n2 - 1
      BY <1>1, <2>1, <2>4
    <3>2. RangeEnd(search, q) = Len(search.ids)
      BY <1>1, <3>1 DEF Listed
    <3>3. Start(q + 1) = Len(search.ids)
      BY <1>1, <2>4 DEF Start
    <3> QED BY <1>2, <2>1, <2>2, <3>2, <3>3
  <2> QED BY <2>3, <2>4
<1>4. ASSUME NEW c \in Nat, NEW q \in Nat
      PROVE  InRow(c, q) <=> q \in Below(search.n2) /\ c + 1 \in search.offsets[q] + 1 .. RangeEnd(search, q)
  <2>1. CASE q \in Below(search.n2)
    <3>1. Start(q) \in Nat /\ Start(q + 1) \in Nat
      BY <1>3, <2>1
    <3>2. InRow(c, q) <=> Start(q) <= c /\ c < Start(q + 1)
      BY <1>1, <2>1 DEF InRow
    <3>3. c + 1 \in search.offsets[q] + 1 .. RangeEnd(search, q) <=> c + 1 \in Start(q) + 1 .. Start(q + 1)
      BY <1>3, <2>1
    <3> QED BY <2>1, <3>1, <3>2, <3>3
  <2>2. CASE q \notin Below(search.n2)
    BY <1>1, <2>2 DEF InRow
  <2> QED BY <2>1, <2>2
<1>5. ASSUME NEW c \in Nat, NEW q \in Nat, InRow(c, q)
      PROVE  c \in Below(candidate) /\ search.ids[c + 1] \in Below(search.n1)
  <2>1. c < candidate
    BY <1>1, <1>3, <1>5, <1>2 DEF InRow
  <2>2. c + 1 \in 1 .. Len(search.ids)
    BY <1>2, <2>1
  <2> QED BY <1>1, <1>2, <2>1, <2>2 DEF Listed, Below
<1> QED BY <1>1, <1>2, <1>4, <1>5

LEMMA ListingDone ==
  ASSUME Finished, Listing
  PROVE  /\ \A c \in DOMAIN pairs : pairs[c] \in Wanted
         /\ \A c, d \in DOMAIN pairs : Same(pairs[c], pairs[d]) => c = d
         /\ \A x \in Wanted : \E c \in DOMAIN pairs : Same(pairs[c], x)
<1> DEFINE itself == search.kind = "sameBvh"
<1>1. /\ Wanted = {x \in Met(search) : itself => x[1] # x[2]}
      /\ \A x, y : Same(x, y) <=> x = y \/ (itself /\ x = <<y[2], y[1]>>)
  BY DEF Wanted, Same, OneMesh, Listing
<1>2. ASSUME NEW c \in DOMAIN pairs
      PROVE  /\ c \in Nat
             /\ \E q \in Below(search.n2) :
                  /\ InRow(c, q) /\ q \in Nat /\ search.ids[c + 1] \in Below(search.n1)
                  /\ pairs[c] = <<search.ids[c + 1], q>>
                  /\ itself => search.ids[c + 1] > q
  <2>1. c \in Nat /\ MadeOf(c, pairs[c])
    BY Totals
  <2>2. PICK q \in Nat : InRow(c, q) /\ pairs[c] = <<search.ids[c + 1], q>> /\ (itself => pairs[c][1] > pairs[c][2])
    BY <2>1 DEF MadeOf, Listing
  <2>3. q \in Below(search.n2) /\ search.ids[c + 1] \in Below(search.n1)
    BY <2>1, <2>2, ListedRow
  <2> QED BY <2>1, <2>2, <2>3
<1>3. ASSUME NEW c \in DOMAIN pairs
      PROVE  pairs[c] \in Wanted
  <2>1. PICK q \in Below(search.n2) :
          /\ InRow(c, q) /\ q \in Nat /\ search.ids[c + 1] \in Below(search.n1)
          /\ pairs[c] = <<search.ids[c + 1], q>>
          /\ itself => search.ids[c + 1] > q
    BY <1>2
  <2>2. c \in Nat /\ c + 1 \in search.offsets[q] + 1 .. RangeEnd(search, q)
    BY <1>2, <2>1, ListedRow
  <2>3. pairs[c] \in Met(search)
    BY <2>1, <2>2 DEF Met
  <2>4. itself => pairs[c][1] # pairs[c][2]
    <3>1. search.ids[c + 1] \in Int
      BY <2>1, ListedRow DEF Below
    <3> QED BY <2>1, <3>1
  <2> QED BY <1>1, <2>3, <2>4
<1>4. ASSUME NEW c \in DOMAIN pairs, NEW d \in DOMAIN pairs, Same(pairs[c], pairs[d])
      PROVE  c = d
  <2>1. PICK p \in Below(search.n2) :
          /\ InRow(c, p) /\ p \in Nat /\ search.ids[c + 1] \in Below(search.n1)
          /\ pairs[c] = <<search.ids[c + 1], p>>
          /\ itself => search.ids[c + 1] > p
    BY <1>2
  <2>2. PICK q \in Below(search.n2) :
          /\ InRow(d, q) /\ q \in Nat /\ search.ids[d + 1] \in Below(search.n1)
          /\ pairs[d] = <<search.ids[d + 1], q>>
          /\ itself => search.ids[d + 1] > q
    BY <1>2
  <2>3. search.ids[c + 1] \in Int /\ search.ids[d + 1] \in Int
    BY <2>1, <2>2, ListedRow DEF Below
  <2>4. ~(itself /\ search.ids[c + 1] = q /\ p = search.ids[d + 1])
    BY <2>1, <2>2, <2>3
  <2>5. p = q /\ search.ids[c + 1] = search.ids[d + 1]
    BY <1>1, <1>4, <2>1, <2>2, <2>4
  <2>6. /\ c \in Nat /\ d \in Nat
        /\ c + 1 \in search.offsets[q] + 1 .. RangeEnd(search, q)
        /\ d + 1 \in search.offsets[q] + 1 .. RangeEnd(search, q)
    BY <1>2, <2>1, <2>2, <2>5, ListedRow
  <2>7. c + 1 = d + 1
    BY <2>5, <2>6, ListedRow DEF Listed
  <2> QED BY <2>6, <2>7
<1>5. ASSUME NEW x \in Met(search), itself => x[1] > x[2]
      PROVE  \E c \in DOMAIN pairs : pairs[c] = x
  <2>1. PICK k \in search.offsets[x[2]] + 1 .. RangeEnd(search, x[2]) : search.ids[k] = x[1]
    BY DEF Met
  <2>2. x = <<x[1], x[2]>> /\ x[2] \in Below(search.n2) /\ x[2] \in Nat
    BY ListedRow DEF Met, Below
  <2>3. search.offsets[x[2]] \in Nat /\ search.counts[x[2]] \in Nat
    BY <2>2, ListedRow DEF Listed
  <2>4. k - 1 \in Nat /\ (k - 1) + 1 = k
    BY <2>1, <2>3 DEF RangeEnd
  <2>5. InRow(k - 1, x[2]) /\ k - 1 \in Below(candidate)
    BY <2>1, <2>2, <2>4, ListedRow
  <2>6. search.kind # "product" /\ search \in Searches /\ candidate \in Nat
    BY Totals DEF Listing
  <2>7. k - 1 \in DOMAIN pairs
    <3>1. CASE Dropped(k - 1)
      <4>1. PICK i \in Nat : itself /\ InRow(k - 1, i) /\ search.ids[(k - 1) + 1] <= i
        BY <3>1 DEF Dropped
      <4>2. i = x[2]
        BY <2>4, <2>5, <2>6, <4>1, OneRow
      <4>3. x[1] \in Int /\ x[1] <= x[2] /\ x[1] > x[2]
        BY <1>5, <2>1, <2>4, <4>1, <4>2, ListedRow DEF Met, Below
      <4> QED BY <2>2, <4>3
    <3>2. CASE ~Dropped(k - 1)
      BY <2>5, <3>2, Totals
    <3> QED BY <3>1, <3>2
  <2>8. PICK q \in Below(search.n2) : InRow(k - 1, q) /\ pairs[k - 1] = <<search.ids[(k - 1) + 1], q>>
    BY <1>2, <2>7
  <2>9. q = x[2]
    BY <2>4, <2>5, <2>6, <2>8, OneRow
  <2> QED BY <2>1, <2>2, <2>4, <2>7, <2>8, <2>9
<1>6. ASSUME NEW x \in Wanted
      PROVE  \E c \in DOMAIN pairs : Same(pairs[c], x)
  <2>1. x \in Met(search) /\ (itself => x[1] # x[2])
    BY <1>1
  <2>2. CASE ~itself \/ x[1] > x[2]
    BY <1>1, <1>5, <2>1, <2>2
  <2>3. CASE itself /\ ~(x[1] > x[2])
    <3>1. x[1] \in Int /\ x[2] \in Int
      BY <2>1, ListedRow DEF Met, Below
    <3>2. <<x[2], x[1]>> \in Met(search)
      BY <2>1, <2>3, Totals, Input DEF Symmetric
    <3>3. x[2] > x[1]
      BY <2>1, <2>3, <3>1
    <3>4. PICK c \in DOMAIN pairs : pairs[c] = <<x[2], x[1]>>
      BY <1>5, <3>2, <3>3
    <3> QED BY <1>1, <2>3, <3>4
  <2> QED BY <2>2, <2>3
<1> QED BY <1>3, <1>4, <1>6

\* Every pair is looked at once, for meshes of any size: a binary search always finds a row, no iteration computes what
\* the index type does not hold unless the count did, and the candidates of all iterations are the pairs of the search.
THEOREM PairsOnce == IndexSpec => []EachPairOnce
<1>1. SearchIInv => EachPairOnce
  <2> SUFFICES ASSUME SearchIInv PROVE EachPairOnce
    OBVIOUS
  <2>1. indexStep # "not found" /\ (indexStep = "undefined" => count = 0)
    BY DEF SearchIInv
  <2>2. ASSUME indexStep = "next", candidate = count
        PROVE  /\ \A c \in DOMAIN pairs : pairs[c] \in Wanted
               /\ \A c, d \in DOMAIN pairs : Same(pairs[c], pairs[d]) => c = d
               /\ \A x \in Wanted : \E c \in DOMAIN pairs : Same(pairs[c], x)
    <3>1. Finished
      BY <2>2 DEF Finished
    <3>2. search.kind = "product" \/ search.kind = "triangle" \/ Listing
      BY Input DEF SearchIInv, Kinds, Listing
    <3> QED BY <3>1, <3>2, ProductDone, TriangleDone, ListingDone
  <2> QED BY <2>1, <2>2 DEF EachPairOnce
<1> QED BY <1>1, SearchEncloses, PTL

-----------------------------------------------------------------------------
(* How the iterations of a loop share the output. *)

\* Candidates the first loop has counted.
Counted == {c \in Accepted : at[c] = "done"}

\* Entries of the array once it is allocated for the claiming loop.
Size == IF twoPass THEN Cardinality(Accepted) ELSE Cardinality(Candidates)

CountInv ==
  /\ twoPass
  /\ counter = Cardinality(Counted)
  /\ array = Allocated(0)
  /\ \A c \in Candidates :
       /\ at[c] # "claimed"
       /\ at[c] = "tested" => c \in Accepted
       /\ at[c] # "start" => mask[c] = (c \in Accepted)

ClaimInv ==
  /\ array \in [0 .. Size - 1 -> Candidates \cup {NoEntry}]
  /\ twoPass => \A c \in Candidates : mask[c] = (c \in Accepted)
  /\ counter = Cardinality(Claimed)
  /\ \A c \in Candidates : at[c] # "tested" /\ (at[c] = "claimed" => c \in Accepted)
  /\ \A c \in Claimed : slot[c] \in 0 .. counter - 1
  /\ \A c, d \in Claimed : slot[c] = slot[d] => c = d
  /\ \A i \in 0 .. counter - 1 : \E c \in Claimed : slot[c] = i
  /\ \A c \in Claimed : at[c] = "done" => array[slot[c]] = c
  /\ \A i \in 0 .. Size - 1 : array[i] # NoEntry =>
       array[i] \in Claimed /\ at[array[i]] = "done" /\ slot[array[i]] = i

IInv ==
  /\ twoPass \in BOOLEAN
  /\ phase \in {"count", "claim", "done"}
  /\ at \in [Candidates -> {"start", "tested", "claimed", "done"}]
  /\ mask \in [Candidates -> BOOLEAN]
  /\ counter \in Nat
  /\ slot \in [Candidates -> Nat]
  /\ phase = "count" => CountInv
  /\ phase = "claim" => ClaimInv
  /\ phase = "done" => /\ Selection!IsListing(array, Accepted)
                       /\ DOMAIN array = 0 .. Cardinality(Accepted) - 1

-----------------------------------------------------------------------------
LEMMA Finite ==
  ASSUME NEW S \in SUBSET Candidates
  PROVE  IsFiniteSet(S) /\ Cardinality(S) \in Nat /\ Cardinality(S) <= Cardinality(Candidates)
BY CompactionAssumption, FS_Subset, FS_CardinalityType

LEMMA Sizes == Cardinality(Accepted) \in Nat /\ Size \in Nat /\ Cardinality(Candidates) \in Nat
               /\ Cardinality(Accepted) <= Size /\ Size <= Cardinality(Candidates)
<1>1. Candidates \in SUBSET Candidates /\ Accepted \in SUBSET Candidates
  BY CompactionAssumption
<1>2. Cardinality(Accepted) \in Nat /\ Cardinality(Candidates) \in Nat
      /\ Cardinality(Accepted) <= Cardinality(Candidates)
  BY <1>1, Finite
<1> QED BY <1>2 DEF Size

\* A set that gains an accepted candidate it did not have stays within Accepted.
LEMMA OneMore ==
  ASSUME NEW S \in SUBSET Accepted, NEW c \in Accepted, c \notin S
  PROVE  /\ Cardinality(S \cup {c}) = Cardinality(S) + 1
         /\ Cardinality(S) + 1 <= Cardinality(Accepted)
<1>1. S \in SUBSET Candidates /\ IsFiniteSet(S) /\ Cardinality(S) \in Nat
  BY CompactionAssumption, Finite
<1>2. Cardinality(S \cup {c}) = Cardinality(S) + 1
  BY <1>1, FS_AddElement
<1>3. IsFiniteSet(Accepted) /\ S \cup {c} \in SUBSET Accepted
  BY CompactionAssumption, Finite
<1> QED BY <1>2, <1>3, FS_Subset

-----------------------------------------------------------------------------
LEMMA InitIInv == Init => IInv
<1> SUFFICES ASSUME Init PROVE IInv
  OBVIOUS
<1>1. CASE twoPass
  <2>1. Counted = {} /\ Cardinality({}) = 0
    BY FS_EmptySet, CompactionAssumption DEF Init, NotStarted, Counted
  <2> QED BY <1>1, <2>1, CompactionAssumption DEF Init, IInv, CountInv, NotStarted
<1>2. CASE ~twoPass
  <2>1. Claimed = {} /\ Cardinality({}) = 0
    BY FS_EmptySet, CompactionAssumption DEF Init, NotStarted, Claimed
  <2>2. /\ array = [i \in 0 .. Size - 1 |-> NoEntry]
        /\ counter = 0
        /\ \A c \in Candidates : at[c] = "start"
    BY <1>2 DEF Init, Allocated, Size, NotStarted
  <2>3. ClaimInv
    BY <1>2, <2>1, <2>2, Sizes DEF ClaimInv
  <2> QED BY <1>2, <2>3, CompactionAssumption DEF Init, IInv, NotStarted
<1> QED BY <1>1, <1>2

LEMMA TestStep ==
  ASSUME IInv, NEW c \in Candidates, TestCandidate(c)
  PROVE  IInv'
<1> USE DEF TestCandidate, Goto
<1>1. Counted' = IF c \in Accepted THEN Counted ELSE Counted
  BY CompactionAssumption DEF IInv, Counted
<1>2. CountInv'
  BY <1>1, CompactionAssumption DEF IInv, CountInv, Allocated
<1> QED BY <1>2 DEF IInv

LEMMA CountStep ==
  ASSUME IInv, NEW c \in Candidates, CountCandidate(c)
  PROVE  IInv'
<1> USE DEF CountCandidate, Goto
<1>1. c \in Accepted /\ c \notin Counted /\ Counted \in SUBSET Accepted
  BY DEF IInv, CountInv, Counted
<1>2. Counted' = Counted \cup {c}
  BY <1>1, CompactionAssumption DEF IInv, Counted
<1>3. Cardinality(Counted') = Cardinality(Counted) + 1
  BY <1>1, <1>2, OneMore
<1>4. CountInv'
  BY <1>3 DEF IInv, CountInv, Allocated
<1> QED BY <1>4 DEF IInv

LEMMA ResizeStep == ASSUME IInv, ResizePairs PROVE IInv'
<1> USE DEF ResizePairs
<1>1. Counted = Accepted
  BY CompactionAssumption DEF IInv, CountInv, Counted, LoopOver
<1>2. counter = Size /\ twoPass
  BY <1>1 DEF IInv, CountInv, Size
<1>3. Claimed' = {} /\ Cardinality({}) = 0
  BY FS_EmptySet, CompactionAssumption DEF Claimed, NotStarted
<1>4. ClaimInv'
  <2>1. array' = [i \in 0 .. Size - 1 |-> NoEntry]
    BY <1>2 DEF Allocated
  <2>2. \A x \in Candidates : mask'[x] = (x \in Accepted)
    BY DEF IInv, CountInv, LoopOver
  <2>3. Size' = Size
    BY DEF Size
  <2> QED BY <1>2, <1>3, <2>1, <2>2, <2>3 DEF ClaimInv, NotStarted
<1> QED BY <1>4 DEF IInv, NotStarted

LEMMA RejectStep ==
  ASSUME IInv, NEW c \in Candidates, RejectCandidate(c)
  PROVE  IInv'
<1> USE DEF RejectCandidate, Goto
<1>1. c \notin Accepted
  BY DEF IInv, ClaimInv, Keeps
<1>2. Claimed' = Claimed
  BY <1>1, CompactionAssumption DEF IInv, Claimed
<1>3. Size' = Size /\ c \notin Claimed
  BY <1>1 DEF Size, Claimed
<1>4. \A d \in Candidates : d # c => at'[d] = at[d]
  BY DEF IInv
<1>5. Claimed \subseteq Candidates
  BY CompactionAssumption DEF Claimed
<1>6. \A i \in 0 .. Size - 1 : array'[i] # NoEntry =>
        array'[i] \in Claimed' /\ at'[array'[i]] = "done" /\ slot'[array'[i]] = i
  BY <1>2, <1>3, <1>4, <1>5 DEF IInv, ClaimInv
<1>7. \A d \in Candidates : at'[d] # "tested" /\ (at'[d] = "claimed" => d \in Accepted)
  BY <1>4 DEF IInv, ClaimInv
<1>8. \A d \in Claimed' : at'[d] = "done" => array'[slot'[d]] = d
  BY <1>2, <1>3, <1>4, <1>5 DEF IInv, ClaimInv
<1>9. ClaimInv'
  BY <1>2, <1>3, <1>6, <1>7, <1>8 DEF IInv, ClaimInv
<1> QED BY <1>9 DEF IInv

LEMMA ClaimStep ==
  ASSUME IInv, NEW c \in Candidates, ClaimSlot(c)
  PROVE  IInv'
<1> USE DEF ClaimSlot, Goto
<1>1. c \in Accepted /\ c \notin Claimed /\ Claimed \in SUBSET Accepted
  BY DEF IInv, ClaimInv, Keeps, Claimed
<1>2. Claimed' = Claimed \cup {c}
  BY <1>1, CompactionAssumption DEF IInv, Claimed
<1>3. Cardinality(Claimed') = counter + 1 /\ counter + 1 <= Size
  <2>1. counter = Cardinality(Claimed)
    BY DEF IInv, ClaimInv
  <2>2. Cardinality(Claimed') = counter + 1 /\ counter + 1 <= Cardinality(Accepted)
    BY <1>1, <1>2, <2>1, OneMore
  <2>3. counter \in Nat
    BY DEF IInv
  <2> QED BY <2>2, <2>3, Sizes
<1>4. ClaimInv'
  <2>1. \A d \in Claimed : slot'[d] = slot[d] /\ d # c
    BY <1>1, CompactionAssumption DEF IInv
  <2>2. slot'[c] = counter
    BY DEF IInv
  <2>3. Size' = Size
    BY DEF Size
  <2>4. /\ \A d \in Claimed' : slot'[d] \in 0 .. counter' - 1
        /\ \A d, e \in Claimed' : slot'[d] = slot'[e] => d = e
    BY <1>2, <2>1, <2>2 DEF IInv, ClaimInv
  <2>5. \A i \in 0 .. counter' - 1 : \E d \in Claimed' : slot'[d] = i
    <3> SUFFICES ASSUME NEW i \in 0 .. counter' - 1
                 PROVE  \E d \in Claimed' : slot'[d] = i
      OBVIOUS
    <3>1. CASE i = counter
      BY <3>1, <1>2, <2>2
    <3>2. CASE i # counter
      <4>1. i \in 0 .. counter - 1
        BY <3>2 DEF IInv
      <4> QED BY <4>1, <1>2, <2>1 DEF IInv, ClaimInv
    <3> QED BY <3>1, <3>2
  <2>6. \A d \in Claimed' : at'[d] = "done" => d \in Claimed /\ at[d] = "done"
    BY <1>2, CompactionAssumption DEF IInv
  <2>7. \A d \in Claimed' : at'[d] = "done" => array'[slot'[d]] = d
    BY <2>1, <2>6 DEF IInv, ClaimInv
  <2>8. \A i \in 0 .. Size - 1 : array'[i] # NoEntry =>
          array'[i] \in Claimed' /\ at'[array'[i]] = "done" /\ slot'[array'[i]] = i
    BY <1>1, <1>2, <2>1, CompactionAssumption DEF IInv, ClaimInv, Claimed
  <2>9. \A d \in Candidates : at'[d] # "tested" /\ (at'[d] = "claimed" => d \in Accepted)
    BY <1>1 DEF IInv, ClaimInv
  <2> QED BY <1>3, <2>3, <2>4, <2>5, <2>7, <2>8, <2>9 DEF IInv, ClaimInv
<1> QED BY <1>4 DEF IInv

LEMMA StoreStep ==
  ASSUME IInv, NEW c \in Candidates, Store(c)
  PROVE  IInv'
<1> USE DEF Store, Goto
<1>1. c \in Claimed
  BY DEF IInv, ClaimInv, Claimed
<1>2. Claimed' = Claimed /\ Size' = Size
  BY <1>1, CompactionAssumption DEF IInv, Claimed, Size
<1>3. slot[c] \in 0 .. Size - 1
  <2>1. Claimed \in SUBSET Accepted /\ IsFiniteSet(Accepted)
    BY CompactionAssumption, Finite DEF Claimed
  <2>2. counter <= Cardinality(Accepted)
    BY <2>1, FS_Subset DEF IInv, ClaimInv
  <2> QED BY <1>1, <2>2, Sizes DEF IInv, ClaimInv
<1>4. /\ array'[slot[c]] = c
      /\ \A i \in 0 .. Size - 1 : i # slot[c] => array'[i] = array[i]
      /\ array' \in [0 .. Size - 1 -> Candidates \cup {NoEntry}]
  BY <1>3 DEF IInv, ClaimInv
<1>5. \A d \in Claimed' : at'[d] = "done" => array'[slot'[d]] = d
  <2> SUFFICES ASSUME NEW d \in Claimed, at'[d] = "done", d # c
               PROVE  array'[slot[d]] = d
    BY <1>2, <1>4
  <2>1. slot[d] # slot[c] /\ at[d] = "done" /\ array[slot[d]] = d
    BY <1>1, CompactionAssumption DEF IInv, ClaimInv, Claimed
  <2> QED BY <2>1, <1>3, <1>4 DEF IInv, ClaimInv
<1>6. \A i \in 0 .. Size - 1 : array'[i] # NoEntry =>
        array'[i] \in Claimed' /\ at'[array'[i]] = "done" /\ slot'[array'[i]] = i
  BY <1>1, <1>2, <1>4, CompactionAssumption DEF IInv, ClaimInv, Claimed
<1>7. ClaimInv'
  BY <1>2, <1>4, <1>5, <1>6 DEF IInv, ClaimInv
<1> QED BY <1>7 DEF IInv

\* What the last step hands over is a listing of the accepted candidates.
LEMMA FinishListing ==
  ASSUME IInv, Finish
  PROVE  /\ Selection!IsListing(array', Accepted)
         /\ DOMAIN array' = 0 .. Cardinality(Accepted) - 1
<1> USE DEF Finish
<1>1. Claimed = Accepted
  BY CompactionAssumption DEF Claimed, LoopOver
<1>2. counter = Cardinality(Accepted)
  BY <1>1 DEF IInv, ClaimInv
<1>3. /\ DOMAIN array' = 0 .. Cardinality(Accepted) - 1
      /\ \A i \in 0 .. Cardinality(Accepted) - 1 : array'[i] = array[i]
      /\ array' = [i \in 0 .. Cardinality(Accepted) - 1 |-> array[i]]
  BY <1>2, CompactionAssumption DEF IInv, ClaimInv, Size
<1>4. \A s \in Accepted : slot[s] \in 0 .. Cardinality(Accepted) - 1 /\ array[slot[s]] = s
  BY <1>1, <1>2, CompactionAssumption DEF IInv, ClaimInv, LoopOver
<1>5. \A i \in 0 .. Cardinality(Accepted) - 1 : array[i] \in Accepted /\ slot[array[i]] = i
  <2> SUFFICES ASSUME NEW i \in 0 .. Cardinality(Accepted) - 1
               PROVE  array[i] \in Accepted /\ slot[array[i]] = i
    OBVIOUS
  <2>1. PICK d \in Claimed : slot[d] = i
    BY <1>2 DEF IInv, ClaimInv
  <2> QED BY <2>1, <1>1, <1>4
<1>6. array' \in [0 .. Cardinality(Accepted) - 1 -> Accepted]
  BY <1>3, <1>5
<1>7. \A s \in Accepted : \E i \in DOMAIN array' : array'[i] = s
  BY <1>3, <1>4
<1>8. ASSUME NEW i \in DOMAIN array', NEW j \in DOMAIN array', array'[i] = array'[j]
      PROVE  i = j
  <2>1. /\ i \in 0 .. Cardinality(Accepted) - 1 /\ array'[i] = array[i]
        /\ j \in 0 .. Cardinality(Accepted) - 1 /\ array'[j] = array[j]
    BY <1>3
  <2>2. slot[array[i]] = i /\ slot[array[j]] = j
    BY <2>1, <1>5
  <2> QED BY <2>1, <2>2, <1>8
<1>9. \A i, j \in DOMAIN array' : array'[i] = array'[j] => i = j
  BY <1>8
<1>10. array' \in [DOMAIN array' -> Accepted]
  BY <1>3, <1>6
<1>11. ASSUME NEW i \in DOMAIN array' PROVE i \in Nat /\ 0 .. i \subseteq DOMAIN array'
  <2>1. i \in 0 .. Cardinality(Accepted) - 1
    BY <1>3
  <2>2. 0 .. i \subseteq 0 .. Cardinality(Accepted) - 1
    BY <2>1, Sizes
  <2>3. i \in Nat
    BY <2>1, Sizes
  <2> QED BY <1>3, <2>2, <2>3
<1> QED BY <1>3, <1>7, <1>9, <1>10, <1>11 DEF Selection!IsListing

LEMMA NextIInv == IInv /\ [Next]_vars => IInv'
<1> SUFFICES ASSUME IInv, [Next]_vars PROVE IInv'
  OBVIOUS
<1>1. ASSUME NEW c \in Candidates, Iteration(c) PROVE IInv'
  BY <1>1, TestStep, CountStep, RejectStep, ClaimStep, StoreStep DEF Iteration
<1>2. CASE ResizePairs
  BY <1>2, ResizeStep
<1>3. CASE Finish
  <2>1. /\ Selection!IsListing(array', Accepted)
        /\ DOMAIN array' = 0 .. Cardinality(Accepted) - 1
    BY <1>3, FinishListing
  <2> QED BY <1>3, <2>1 DEF Finish, IInv, Selection!IsListing
<1>4. CASE UNCHANGED vars
  BY <1>4 DEF vars, IInv, CountInv, ClaimInv, Counted, Claimed, Size, Allocated, Selection!IsListing
<1> QED BY <1>1, <1>2, <1>3, <1>4 DEF Next, Done

-----------------------------------------------------------------------------
LEMMA Invariance == Spec => []IInv
BY InitIInv, NextIInv, PTL DEF Spec

\* Every variable keeps its type: above all, the array never holds anything but
\* candidates and unwritten entries, in at most as many places as there are candidates.
THEOREM TypeCorrect == Spec => []TypeOK
<1>1. IInv => TypeOK
  <2> SUFFICES ASSUME IInv PROVE TypeOK
    OBVIOUS
  <2>1. \E n \in 0 .. Cardinality(Candidates) : array \in [0 .. n - 1 -> Candidates \cup {NoEntry}]
    <3>1. CASE phase = "count"
      <4>1. array \in [0 .. 0 - 1 -> Candidates \cup {NoEntry}]
        BY <3>1 DEF IInv, CountInv, Allocated
      <4>2. 0 \in 0 .. Cardinality(Candidates)
        BY Sizes
      <4> QED BY <4>1, <4>2
    <3>2. CASE phase = "claim"
      BY <3>2, Sizes DEF IInv, ClaimInv
    <3>3. CASE phase = "done"
      <4>1. array \in [0 .. Cardinality(Accepted) - 1 -> Accepted]
        BY <3>3 DEF IInv, Selection!IsListing
      <4>2. array \in [0 .. Cardinality(Accepted) - 1 -> Candidates \cup {NoEntry}]
        BY <4>1, CompactionAssumption
      <4>3. Cardinality(Accepted) \in 0 .. Cardinality(Candidates)
        BY Sizes
      <4> QED BY <4>2, <4>3
    <3> QED BY <3>1, <3>2, <3>3 DEF IInv
  <2> QED BY <2>1 DEF IInv, TypeOK, Loops
<1> QED BY <1>1, Invariance, PTL

\* Two iterations never hold the same slot and no slot is outside the array, for any
\* number of candidates and any interleaving of the two loops.
THEOREM ExclusiveSlots == Spec => []SlotsAreExclusive
<1>1. IInv => SlotsAreExclusive
  <2> SUFFICES ASSUME IInv, phase = "claim" PROVE SlotsAreExclusive
    BY DEF SlotsAreExclusive, Claimed
  <2>1. Claimed \in SUBSET Accepted /\ IsFiniteSet(Accepted)
    BY CompactionAssumption, Finite DEF Claimed
  <2>2. counter <= Cardinality(Accepted)
    BY <2>1, FS_Subset DEF IInv, ClaimInv
  <2> QED BY <2>2, Sizes DEF IInv, ClaimInv, SlotsAreExclusive
<1> QED BY <1>1, Invariance, PTL

\* No step of any iteration overwrites an entry that was written: a claimed slot is
\* an unwritten one.
THEOREM EntriesStay == Spec => WrittenOnce
<1> DEFINE Keep == \A i \in DOMAIN array \cap DOMAIN array' :
                     array[i] # NoEntry => array'[i] = array[i]
<1>1. IInv /\ [Next]_vars =>
        [\A i \in DOMAIN array \cap DOMAIN array' :
           array[i] # NoEntry => array'[i] = array[i]]_vars
  <2> SUFFICES ASSUME IInv, Next PROVE Keep
    BY DEF vars
  <2>1. ASSUME NEW c \in Candidates, Store(c) PROVE Keep
    <3>1. c \in Claimed /\ at[c] # "done"
      BY <2>1 DEF Store, Goto, IInv, ClaimInv, Claimed
    <3>2. DOMAIN array = 0 .. Size - 1
      BY <2>1 DEF Store, IInv, ClaimInv
    <3>3. ASSUME NEW i \in DOMAIN array, array[i] # NoEntry PROVE i # slot[c]
      BY <2>1, <3>1, <3>2, <3>3 DEF Store, IInv, ClaimInv
    <3> QED BY <2>1, <3>3 DEF Store
  <2>2. ASSUME NEW c \in Candidates,
               TestCandidate(c) \/ CountCandidate(c) \/ RejectCandidate(c) \/ ClaimSlot(c)
        PROVE  Keep
    BY <2>2 DEF TestCandidate, CountCandidate, RejectCandidate, ClaimSlot
  <2>3. CASE ResizePairs
    BY <2>3 DEF ResizePairs, IInv, CountInv, Allocated
  <2>4. CASE Finish
    BY <2>4 DEF Finish
  <2>5. CASE Done
    BY <2>5 DEF Done, vars
  <2> QED BY <2>1, <2>2, <2>3, <2>4, <2>5 DEF Next, Iteration
<1> QED BY <1>1, Invariance, PTL DEF WrittenOnce, Spec

\* The loops implement PairSelection: what they leave is the set of accepted
\* candidates, each of them once.
THEOREM Refinement == Spec => Selects
<1>1. Init => Selection!Init
  BY DEF Init, Selection!Init
<1>2. IInv /\ [Next]_vars =>
        [Selection!Select]_<<phase = "done", IF phase = "done" THEN array ELSE <<>>>>
  <2> SUFFICES ASSUME IInv, [Next]_vars
               PROVE  \/ Selection!Select
                      \/ UNCHANGED <<phase = "done", IF phase = "done" THEN array ELSE <<>>>>
    OBVIOUS
  <2>1. CASE Finish
    BY <2>1, FinishListing DEF Finish, Selection!Select
  <2>2. ASSUME NEW c \in Candidates, Iteration(c) PROVE phase # "done" /\ phase' # "done"
    BY <2>2 DEF Iteration, TestCandidate, CountCandidate, RejectCandidate, ClaimSlot, Store
  <2>3. CASE ResizePairs
    BY <2>3 DEF ResizePairs
  <2>4. CASE UNCHANGED vars
    BY <2>4 DEF vars
  <2> QED BY <2>1, <2>2, <2>3, <2>4 DEF Next, Done
<1> QED BY <1>1, <1>2, Invariance, PTL DEF Spec, Selects, Selection!Spec
=============================================================================
