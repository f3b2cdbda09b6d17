---------------------------- MODULE MatrixTransfer ----------------------------
(***************************************************************************)
(* Matrices that ranks computed on a built mesh are brought to the parent. *)
(* MatrixTransfer moves dense matrices of pairs of a test and a trial      *)
(* element; SparseMatrixTransfer moves one with a value per pair.  A pair  *)
(* counts where its test element is owned; the trial element may be a      *)
(* ghost, whose numbers only the rank it came from knows.                  *)
(*                                                                         *)
(* Matrix entries are symbols that tell who computed what; a sum of them   *)
(* is a bag.  One mesh serves as test and as trial mesh, and a node has    *)
(* one degree of freedom.                                                  *)
(***************************************************************************)
EXTENDS RedecompMesh

VARIABLES
  testRank,      \* test_r2p_elem_rank_: rank -> element -> parent rank, NoRank for a ghost
  trialRank,     \* trial_r2p_elem_rank_
  pairs,         \* rank -> the pairs it computed: <<test, trial>>
  parentJ,       \* parent rank -> its rows, in the format of the transfer
  form           \* what was transferred

matrixVars == <<testRank, trialRank, pairs, parentJ, form>>

NoRank == 0

\* The elements of a sequence that pass a test, in their order.
Taken(s, K) == Map(Ascending(K), LAMBDA k : s[k])
Select(s, Test(_)) == Taken(s, {k \in DOMAIN s : Test(s[k])})

-----------------------------------------------------------------------------
RankOf(r, e) == CHOOSE p \in Procs : e \in ElemsFrom(r, p)
buildRedecomp2ParentElemRank(mark_ghost) ==
  [r \in Procs |-> [e \in DOMAIN elements[r] |->
     IF mark_ghost /\ IsGhost(r, RankOf(r, e), e) THEN NoRank ELSE RankOf(r, e)]]

\* Dofs of the parent: local numbers, and numbers over all ranks.
MyDofOffset(p) == Prefix([q \in Procs |-> Len(parentVerts[q])], p - 1)
NTest(r, i) == Len(elements[r][pairs[r][i][1]].verts)
NTrial(r, i) == Len(elements[r][pairs[r][i][2]].verts)

\* What rank r computed for its pair i: <<rank, test, trial, row, column>>, by columns.
Symbol(r, i, row, col) ==
  <<r, elements[r][pairs[r][i][1]].attribute, elements[r][pairs[r][i][2]].attribute, row, col>>
ElementMatrix(r, i) ==
  FlattenSeq([j \in 1 .. NTrial(r, i) |-> [k \in 1 .. NTest(r, i) |-> Symbol(r, i, k, j)]])

buildSendArrayIDs(r, to) ==
  Ascending({i \in DOMAIN pairs[r] : testRank[r][pairs[r][i][1]] = to})

buildRecvMatSizes == Exchanged(LAMBDA r, to : Map(buildSendArrayIDs(r, to), LAMBDA i : <<NTest(r, i), NTrial(r, i)>>))
buildRecvTestElemOffsets ==
  Exchanged(LAMBDA r, to : Map(buildSendArrayIDs(r, to), LAMBDA i : pairs[r][i][1] - offsets[r][to]))

\* Trial elements by the parent rank they came from, which answers with their dofs ...
TrialElemOffsets(r, to, q) ==
  LET ids == Select(buildSendArrayIDs(r, to), LAMBDA i : trialRank[r][pairs[r][i][2]] = q)
  IN Map(ids, LAMBDA i : pairs[r][i][2] - offsets[r][q])
TrialDofs(r, to, q) ==
  FlatMap(TrialElemOffsets(r, to, q), LAMBDA k :
    Map(GetElementDofs(q, p2r[q][r][k].elem), LAMBDA d : MyDofOffset(q) + d))

\* ... and they are put in the order of the pairs again: where those of pair k begin.
ExtentStart(r, ids, k) ==
  LET q == trialRank[r][pairs[r][ids[k]][2]]
  IN Prefix([l \in 1 .. k |-> IF trialRank[r][pairs[r][ids[l]][2]] = q THEN NTrial(r, ids[l]) ELSE 0], k - 1)

buildRecvTrialElemDofs ==
  Exchanged(LAMBDA r, to :
    LET ids == buildSendArrayIDs(r, to)
        unsorted == [q \in Procs |-> TrialDofs(r, to, q)] \o <<>>
    IN FlatMap([k \in DOMAIN ids |-> k], LAMBDA k :
         SubSeq(unsorted[trialRank[r][pairs[r][ids[k]][2]]],
                ExtentStart(r, ids, k) + 1, ExtentStart(r, ids, k) + NTrial(r, ids[k]))))

\* The entries rank p makes of what it received from r: <<row, column, value>>.
Entries(p, r, sizes, tests, trials, values) ==
  FlatMap([e \in DOMAIN tests |-> e], LAMBDA e :
    LET rows == GetElementDofs(p, p2r[p][r][tests[e]].elem)
        trialAt == Prefix([k \in DOMAIN sizes |-> sizes[k][2]], e - 1)
        valueAt == Prefix([k \in DOMAIN sizes |-> sizes[k][1] * sizes[k][2]], e - 1)
        cols == SubSeq(trials, trialAt + 1, trialAt + sizes[e][2])
    IN FlattenSeq([j \in DOMAIN cols |-> [i \in DOMAIN rows |->
         <<rows[i], cols[j], values[valueAt + i + (j - 1) * Len(rows)]>>]]))

\* Per parent rank, all entries received.
ReceivedEntries ==
  LET sizes == buildRecvMatSizes
      tests == buildRecvTestElemOffsets
      trials == buildRecvTrialElemDofs
      values == Exchanged(LAMBDA r, to : FlatMap(buildSendArrayIDs(r, to), LAMBDA i : ElementMatrix(r, i)))
  IN [p \in Procs |-> FlattenSeq([r \in Procs |->
        Entries(p, r, sizes[p][r], tests[p][r], trials[p][r], values[p][r])])] \o <<>>

-----------------------------------------------------------------------------
EntryPlaces(entries) == {<<x[1], x[2]>> : x \in ToSet(entries)}
Sum(entries, at) ==
  LET here == {k \in DOMAIN entries : <<entries[k][1], entries[k][2]>> = at}
  IN [v \in {entries[k][3] : k \in here} |-> Cardinality({k \in here : entries[k][3] = v})]
ByRow(a, b) == a[1] < b[1] \/ (a[1] = b[1] /\ a[2] < b[2])

\* Number of places before row k: CSR row pointers.
RowStarts(places, rows) == [k \in 1 .. rows + 1 |-> Cardinality({x \in places : x[1] < k})]

\* Mutant of CSR: duplicates count in the row pointers.
CountsDuplicates(entries, rows) ==
  LET at == Sorted(EntryPlaces(entries), ByRow)
  IN [ I |-> [k \in 1 .. rows + 1 |-> Cardinality({i \in DOMAIN entries : entries[i][1] < k})],
       J |-> Map(at, LAMBDA x : x[2]), data |-> Map(at, LAMBDA x : Sum(entries, x)) ]

\* Triplets sorted by row and column, duplicates added up.
CSR(entries, rows) ==
  LET at == Sorted(EntryPlaces(entries), ByRow)
  IN [ I |-> RowStarts(EntryPlaces(entries), rows),
       J |-> Map(at, LAMBDA x : x[2]), data |-> Map(at, LAMBDA x : Sum(entries, x)) ]

-----------------------------------------------------------------------------
(* SparseMatrixTransfer: one row per element. *)
ParentElems(p) == Ascending({e \in Elems : home[e] = p})
ElemNumber(p, e) == FirstAt(ParentElems(p), e)
BuildParentElementRankOffsets == [p \in 1 .. P + 1 |-> Prefix([q \in Procs |-> Len(ParentElems(q))], p - 1)]

\* Rows in order, and in a row the columns in the order they have in the matrix.
RowOrder(r) == FlatMap([e \in DOMAIN elements[r] |-> e], LAMBDA e :
                 Ascending({i \in DOMAIN pairs[r] : pairs[r][i][1] = e}))
SparseSend(r, to) ==
  Map(Select(RowOrder(r), LAMBDA i : testRank[r][pairs[r][i][1]] = to), LAMBDA i :
    LET q == trialRank[r][pairs[r][i][2]]
    IN [row |-> pairs[r][i][1] - offsets[r][to], colRank |-> q,
        col |-> ElemNumber(q, p2r[q][r][pairs[r][i][2] - offsets[r][q]].elem),
        value |-> Symbol(r, i, 1, 1)])

\* Entries on the rank's own columns and elsewhere; within a row in the order of receipt.
InRow(received, k) == Select(received, LAMBDA x : x.row = k)
Part(received, rows, Col(_)) ==
  LET byRow == [k \in 1 .. rows |-> InRow(received, k)]
  IN [ I |-> [k \in 1 .. rows + 1 |-> Prefix([l \in 1 .. rows |-> Len(byRow[l])], k - 1)],
       J |-> Map(FlattenSeq(byRow), Col), data |-> Map(FlattenSeq(byRow), LAMBDA x : x.value) ]

\* Mutant of ColumnMap: columns in the order they appear.
InOrderOfReceipt(globals) == Distinct(globals)
ColumnMap(globals) == Ascending(ToSet(globals))

Diagonal(p, received) ==
  Part(Select(received, LAMBDA x : x.colRank = p), Len(ParentElems(p)), LAMBDA x : x.col)
GlobalCol(x) == BuildParentElementRankOffsets[x.colRank] + x.col
OffDiagonal(p, received) ==
  LET others == Select(received, LAMBDA x : x.colRank # p)
      cmap == ColumnMap(Map(others, GlobalCol))
  IN [cmap |-> cmap,
      part |-> Part(others, Len(ParentElems(p)), LAMBDA x : FirstAt(Ascending(ToSet(cmap)), GlobalCol(x)))]

-----------------------------------------------------------------------------
MatrixInit ==
  /\ testRank = Blank /\ trialRank = Blank /\ pairs = Blank /\ parentJ = Blank
  /\ form = "none"

\* Mutant of ConstructMatrixTransfer: ghosts are not marked.
GhostsCount ==
  /\ Built /\ form = "none" /\ form' = "constructed"
  /\ testRank' = buildRedecomp2ParentElemRank(FALSE)
  /\ trialRank' = buildRedecomp2ParentElemRank(FALSE)
  /\ UNCHANGED <<pairs, parentJ>>

\* The constructors.
ConstructMatrixTransfer ==
  /\ Built /\ form = "none" /\ form' = "constructed"
  /\ testRank' = buildRedecomp2ParentElemRank(TRUE)
  /\ trialRank' = buildRedecomp2ParentElemRank(FALSE)
  /\ UNCHANGED <<pairs, parentJ>>

\* Every rank computes all pairs, or those of two elements, in whatever order.
AllPairs(r) == {<<e, f>> : e, f \in DOMAIN elements[r]}
ComputePairs ==
  /\ form = "constructed" /\ form' = "computed"
  /\ \E distinct \in BOOLEAN, backwards \in BOOLEAN :
       pairs' = [r \in Procs |->
         LET in == Sorted({x \in AllPairs(r) : distinct => x[1] # x[2]}, ByRow)
         IN IF backwards THEN Reverse(in) ELSE in]
  /\ UNCHANGED <<testRank, trialRank, parentJ>>

TransferDense ==
  /\ form = "computed" /\ form' = "dense"
  /\ LET all == ReceivedEntries
     IN parentJ' = [p \in Procs |-> [entries |-> [at \in EntryPlaces(all[p]) |-> Sum(all[p], at)]]]
  /\ UNCHANGED <<testRank, trialRank, pairs>>

TransferFlat ==
  /\ form = "computed" /\ form' = "flat"
  /\ LET all == ReceivedEntries
     IN parentJ' = [p \in Procs |-> CSR(all[p], Len(parentVerts[p]))]
  /\ UNCHANGED <<testRank, trialRank, pairs>>

TransferSparse ==
  /\ form = "computed" /\ form' = "sparse"
  /\ LET all == Exchanged(LAMBDA r, to : SparseSend(r, to))
         named(p) == FlattenSeq([r \in Procs |-> Map(all[p][r], LAMBDA x :
                       [x EXCEPT !.row = ElemNumber(p, p2r[p][r][x.row].elem)])])
     IN parentJ' = [p \in Procs |-> [diag |-> Diagonal(p, named(p)), offd |-> OffDiagonal(p, named(p))]]
  /\ UNCHANGED <<testRank, trialRank, pairs>>

Matrices == ConstructMatrixTransfer \/ ComputePairs \/ TransferDense \/ TransferFlat \/ TransferSparse

\* A mesh is built, and then matrices travel.
MatrixNext == (BuildRedecomp /\ UNCHANGED matrixVars) \/ (Matrices /\ UNCHANGED meshVars)
MatrixSpec == MeshInit /\ MatrixInit /\ [][MatrixNext]_<<meshVars, matrixVars>>

-----------------------------------------------------------------------------
(* What the parent should have: each pair once, as the owner of its test element computed  *)
(* it, as entries <<row, column, value>>. *)
OwnedPairs(r) ==
  {<<elements[r][x[1]].attribute, elements[r][x[2]].attribute>> :
     x \in {y \in ToSet(pairs[r]) : ~IsGhost(r, RankOf(r, y[1]), y[1])}}
OwnedPairsAt(p) == UNION {{<<r, x[1], x[2]>> : x \in {y \in OwnedPairs(r) : home[y[1]] = p}} : r \in Procs}
LocalDof(e, i) == FirstAt(parentVerts[home[e]], Conn[e][i])
GlobalDof(e, i) == MyDofOffset(home[e]) + LocalDof(e, i)
OwnedEntries(p) ==
  UNION {{<<LocalDof(x[2], i), GlobalDof(x[3], j), x \o <<i, j>>>> :
            i \in DOMAIN Conn[x[2]], j \in DOMAIN Conn[x[3]]} : x \in OwnedPairsAt(p)}
OwnedSums(p) ==
  {<<at[1], at[2], SetToBag({x[3] : x \in {y \in OwnedEntries(p) : <<y[1], y[2]>> = at}})>> :
     at \in {<<x[1], x[2]>> : x \in OwnedEntries(p)}}

\* The entries of a CSR matrix.
CSREntries(m) ==
  UNION {{<<k, m.J[i], m.data[i]>> : i \in m.I[k] + 1 .. m.I[k + 1]} : k \in 1 .. Len(m.I) - 1}
WellFormed(m) == m.I[1] = 0 /\ m.I[Len(m.I)] = Len(m.J) /\ Len(m.J) = Len(m.data)

\* The matrix of the parent is the sum of what owners computed, at the numbers the parent
\* has for the nodes, whether it is assembled entry by entry or from sorted triplets.
MatrixIsSumOfOwned ==
  \A p \in Procs :
    /\ form = "dense" => {<<at[1], at[2], parentJ[p].entries[at]>> : at \in DOMAIN parentJ[p].entries}
                        = OwnedSums(p)
    /\ form = "flat" => WellFormed(parentJ[p]) /\ CSREntries(parentJ[p]) = OwnedSums(p)

\* The two parts of a sparse matrix have one entry for each pair, by the owner, the columns
\* of other ranks through a map that is sorted, as hypre wants it.
SparseMatrixIsOwned ==
  form = "sparse" => \A p \in Procs :
    LET diag == parentJ[p].diag
        offd == parentJ[p].offd.part
        cmap == parentJ[p].offd.cmap
        first == BuildParentElementRankOffsets[p]
    IN /\ WellFormed(diag) /\ WellFormed(offd)
       /\ \A k \in 1 .. Len(cmap) - 1 : cmap[k] < cmap[k + 1]
       /\ \A k \in DOMAIN cmap : cmap[k] \notin first + 1 .. BuildParentElementRankOffsets[p + 1]
       /\ Len(diag.J) + Len(offd.J) = Cardinality(OwnedPairsAt(p))
       /\ {<<x[1], first + x[2], x[3]>> : x \in CSREntries(diag)}
            \cup {<<x[1], cmap[x[2]], x[3]>> : x \in CSREntries(offd)}
          = {<<ElemNumber(p, x[2]),
               BuildParentElementRankOffsets[home[x[3]]] + ElemNumber(home[x[3]], x[3]),
               x \o <<1, 1>>>> : x \in OwnedPairsAt(p)}

\* The matrices that travel to the parent mesh, dense, flat or sparse.
MatricesArrive == MatrixIsSumOfOwned /\ SparseMatrixIsOwned
=============================================================================
