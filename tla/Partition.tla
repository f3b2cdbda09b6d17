----------------------------- MODULE Partition -----------------------------
(***************************************************************************)
(* redecomp::RCB: entities of all ranks (element centroids of all meshes)  *)
(* are cut into parts by recursive coordinate bisection, breadth first     *)
(* over a BisecTree of boxes; then every entity goes to the part whose     *)
(* boxes it is in, and as a ghost to the parts it is near.  Every rank     *)
(* runs this with the same sums of entity counts, and so in lockstep.      *)
(*                                                                         *)
(* Coordinates are integers; a cut between two of them is rounded down, as *)
(* floating point rounds it on a finer grid.                               *)
(***************************************************************************)
EXTENDS BisecTree, Sequences

CONSTANTS
  Entities,          \* the entities of all meshes on all ranks
  Layouts,           \* entity -> coordinates: the inputs considered
  PartCounts,        \* n_parts
  GhostLens,         \* ghost_len
  MaxOutOfBalance,   \* max_out_of_balance_, in hundredths
  NTryNewAxis        \* n_try_new_axis_

Axes == {1, 2}

ASSUME PartitionAssumption ==
  /\ Entities # {} /\ IsFiniteSet(Entities)
  /\ Layouts \subseteq [Entities -> Int \X Int]
  /\ PartCounts \subseteq Nat \ {0} /\ GhostLens \subseteq Nat
  /\ MaxOutOfBalance \in 0 .. 100 /\ NTryNewAxis \in Nat \ {0}

VARIABLES
  coord, nParts, ghostLen,   \* what the partitioner is given
  todo,      \* nodes to cut, breadth first
  axes,      \* axes left to try on the node at hand; <<>> before it is begun
  cut,       \* the bisection on the first of them: where, what it leaves, the window
  box,       \* node -> bbox_
  ghostBox,  \* node -> ghost_bbox_
  parts      \* the partitioning, by part: entities it owns, its ghosts

inputs == <<coord, nParts, ghostLen>>
partitionVars == <<inputs, todo, axes, cut, box, ghostBox, parts>>

-----------------------------------------------------------------------------
(* Boxes: corners of a product of intervals, borders included. *)
Empty == [lo |-> [d \in Axes |-> 1], hi |-> [d \in Axes |-> 0]]
contains(b, p) == \A d \in Axes : b.lo[d] <= p[d] /\ p[d] <= b.hi[d]
intersectsWith(a, b) == \A d \in Axes : a.lo[d] <= b.hi[d] /\ b.lo[d] <= a.hi[d]
             /\ a.lo[d] <= a.hi[d] /\ b.lo[d] <= b.hi[d]
Expanded(b, len) == [lo |-> [d \in Axes |-> b.lo[d] - len], hi |-> [d \in Axes |-> b.hi[d] + len]]
range(b, d) == b.hi[d] - b.lo[d]

LeftOf(b, d, c) == [b EXCEPT !.hi[d] = c]
RightOf(b, d, c) == [b EXCEPT !.lo[d] = c]

DomainBoundingBox ==
  [ lo |-> [d \in Axes |-> Min({coord[e][d] : e \in Entities})],
    hi |-> [d \in Axes |-> Max({coord[e][d] : e \in Entities})] ]

\* A place on the cut counts as left, also if it was left of an earlier cut already.
CountEntities(b, d, c) ==
  LET lefts == {e \in Entities : contains(LeftOf(b, d, c), coord[e])}
      rights == {e \in Entities \ lefts : contains(RightOf(b, d, c), coord[e])}
  IN <<Cardinality(lefts), Cardinality(rights)>>

\* The bottom level wants equal parts, a node what its children want together.
Desired(x) == Cardinality(Leaves(nParts, x))

\* The axes by the range of the box, longest first; the sort is stable.
best_axes(b) == IF range(b, 2) > range(b, 1) THEN <<2, 1>> ELSE <<1, 2>>

-----------------------------------------------------------------------------
NoCut == [at |-> 0, n |-> <<0, 0>>, min |-> 0, max |-> 0, prev |-> 0, same |-> 0]

PartitionInit ==
  /\ coord \in Layouts
  /\ nParts \in PartCounts /\ ghostLen \in GhostLens
  /\ todo = <<<<Top(nParts), 0>>>>
  /\ axes = <<>>
  /\ cut = NoCut
  /\ box = [x \in Nodes(nParts) |-> IF x = Head(todo) THEN DomainBoundingBox ELSE Empty]
  /\ ghostBox = [x \in Nodes(nParts) |-> Empty]
  /\ parts = <<>>

node == Head(todo)
NextNode(x) ==
  LET sameLevel == <<x[1], x[2] + 1>>
  IN IF sameLevel \in Nodes(nParts) THEN sameLevel ELSE <<x[1] - 1, 0>>

\* A cut at c, with what it leaves on either side.
CutAt(w, b, d, c) == [w EXCEPT !.at = c, !.n = CountEntities(b, d, c)]
FirstCut(b, d) ==
  CutAt([NoCut EXCEPT !.min = b.lo[d], !.max = b.hi[d]], b, d,
        b.lo[d] + ((b.hi[d] - b.lo[d]) * Desired(left(node))) \div Desired(node))

\* A node without a right child passes its boxes down.
PassDown ==
  /\ parts = <<>> /\ node[1] > 0 /\ axes = <<>>
  /\ ~HasRight(nParts, node)
  /\ box' = [box EXCEPT ![left(node)] = box[node]]
  /\ ghostBox' = [ghostBox EXCEPT ![left(node)] = ghostBox[node]]
  /\ todo' = <<NextNode(node)>>
  /\ UNCHANGED <<inputs, axes, cut, parts>>

BeginNode ==
  /\ parts = <<>> /\ node[1] > 0 /\ axes = <<>>
  /\ HasRight(nParts, node)
  /\ axes' = best_axes(box[node])
  /\ cut' = FirstCut(box[node], Head(axes'))
  /\ UNCHANGED <<inputs, todo, box, ghostBox, parts>>

\* The tolerance is never less than two entities; without entities the quotient is not a
\* number, and every comparison with it false.
Deviation(n) == 100 * (n[1] * Desired(node) - Desired(left(node)) * (n[1] + n[2]))
Tolerance(n) == Desired(node) * Max({MaxOutOfBalance * (n[1] + n[2]), 200})
TooFew(n) == n[1] + n[2] > 0 /\ Deviation(n) < -Tolerance(n)
TooMany(n) == n[1] + n[2] > 0 /\ Deviation(n) > Tolerance(n)

Cutting == parts = <<>> /\ axes # <<>>
Counted == cut.n
Middle(w) == CutAt([w EXCEPT !.prev = Counted[1]], box[node], Head(axes), (w.min + w.max) \div 2)
WithBoxes ==
  box' = [box EXCEPT ![left(node)] = LeftOf(box[node], Head(axes), cut.at),
                     ![right(node)] = RightOf(box[node], Head(axes), cut.at)]

\* Mutant of Accept: the right part's ghosts begin at the cut.
NoGhostsOnRight ==
  /\ Cutting /\ ~TooFew(Counted) /\ ~TooMany(Counted)
  /\ WithBoxes
  /\ ghostBox' = [ghostBox EXCEPT ![left(node)] = Expanded(box'[left(node)], ghostLen),
                                  ![right(node)] = box'[right(node)]]
  /\ axes' = <<>> /\ todo' = <<NextNode(node)>>
  /\ UNCHANGED <<inputs, cut, parts>>

Accept ==
  /\ Cutting /\ ~TooFew(Counted) /\ ~TooMany(Counted)
  /\ WithBoxes
  /\ ghostBox' = [ghostBox EXCEPT ![left(node)] = Expanded(box'[left(node)], ghostLen),
                                  ![right(node)] = Expanded(box'[right(node)], ghostLen)]
  /\ axes' = <<>> /\ todo' = <<NextNode(node)>>
  /\ UNCHANGED <<inputs, cut, parts>>

SameAgain == IF Counted[1] = cut.prev THEN cut.same + 1 ELSE cut.same
Narrowed ==
  IF TooFew(Counted) THEN [cut EXCEPT !.min = cut.at] ELSE [cut EXCEPT !.max = cut.at]

\* Mutant of CutAgain: the window is narrowed on the wrong side.
WrongSide ==
  LET new == IF TooMany(Counted) THEN [cut EXCEPT !.min = cut.at] ELSE [cut EXCEPT !.max = cut.at]
  IN /\ Cutting /\ (TooFew(Counted) \/ TooMany(Counted)) /\ SameAgain < NTryNewAxis
     /\ WithBoxes
     /\ cut' = Middle([new EXCEPT !.same = SameAgain])
     /\ UNCHANGED <<inputs, todo, axes, ghostBox, parts>>

\* Mutant of CutAgain: repetitions are not counted.
NeverGivesUp ==
  /\ Cutting /\ (TooFew(Counted) \/ TooMany(Counted)) /\ SameAgain < NTryNewAxis
  /\ WithBoxes
  /\ cut' = Middle(Narrowed)
  /\ UNCHANGED <<inputs, todo, axes, ghostBox, parts>>

CutAgain ==
  /\ Cutting /\ (TooFew(Counted) \/ TooMany(Counted)) /\ SameAgain < NTryNewAxis
  /\ WithBoxes
  /\ cut' = Middle([Narrowed EXCEPT !.same = SameAgain])
  /\ UNCHANGED <<inputs, todo, axes, ghostBox, parts>>

\* After too many cuts without a change the next axis is tried; after the last one the node
\* keeps the last boxes, with no ghost boxes and nothing but a debug message.
NewAxis ==
  /\ Cutting /\ (TooFew(Counted) \/ TooMany(Counted)) /\ SameAgain = NTryNewAxis
  /\ WithBoxes
  /\ axes' = Tail(axes)
  /\ IF axes' = <<>> THEN todo' = <<NextNode(node)>> /\ UNCHANGED cut
     ELSE cut' = FirstCut(box[node], Head(axes')) /\ UNCHANGED todo
  /\ UNCHANGED <<inputs, ghostBox, parts>>

-----------------------------------------------------------------------------
PartIds == 0 .. nParts - 1

\* Mutant of Neighbours: siblings only.
Siblings(i) == {j \in PartIds \ {i} : root(Leaf(i)) = root(Leaf(j))}

\* Two parts with a shared parent, or whose ghost boxes overlap.
Neighbours(i) ==
  {j \in PartIds \ {i} : \/ root(Leaf(i)) = root(Leaf(j))
                         \/ intersectsWith(ghostBox[Leaf(i)], ghostBox[Leaf(j)])}

\* Mutant of DetermineDomain: the next level is looked at only.
StopsEarly(p) ==
  LET it[i \in 0 .. Top(nParts)] ==
        IF i = 0 THEN <<Top(nParts), 0>>
        ELSE IF contains(box[left(it[i - 1])], p) \/ it[i - 1][1] > 1 THEN left(it[i - 1]) ELSE right(it[i - 1])
  IN it[Top(nParts)][2]

\* Down from the top: left if the left box has it, otherwise right.
DetermineDomain(p) ==
  LET it[i \in 0 .. Top(nParts)] ==
        IF i = 0 THEN <<Top(nParts), 0>>
        ELSE IF contains(box[left(it[i - 1])], p) THEN left(it[i - 1]) ELSE right(it[i - 1])
  IN it[Top(nParts)][2]

\* The neighbour lists are complete and every rank sorts its entities.
generatePartitioning ==
  /\ parts = <<>> /\ node[1] = 0
  /\ LET domain == [e \in Entities |-> DetermineDomain(coord[e])]
     IN parts' = [i \in PartIds |->
          [ own |-> {e \in Entities : domain[e] = i},
            ghost |-> {e \in Entities : /\ i \in Neighbours(domain[e])
                                        /\ contains(ghostBox[Leaf(i)], coord[e])} ]]
  /\ UNCHANGED <<inputs, todo, axes, cut, box, ghostBox>>

Done == parts # <<>> /\ UNCHANGED partitionVars

Cut == PassDown \/ BeginNode \/ Accept \/ CutAgain \/ NewAxis
PartitionNext == Cut \/ generatePartitioning \/ Done

\* Nothing in the loops waits.
PartitionProgress == Cut \/ generatePartitioning
PartitionSpec == PartitionInit /\ [][PartitionNext]_partitionVars /\ WF_partitionVars(PartitionProgress)

-----------------------------------------------------------------------------
Near(e, f) == \A d \in Axes : coord[e][d] - coord[f][d] \in -ghostLen .. ghostLen

\* Every part below a cut has a ghost box if some axis could be cut.
AllCutsFound == \A i \in PartIds : ghostBox[Leaf(i)] # Empty

\* Two entities within the ghost length of each other meet: the part that owns one has
\* the other, owned or as a ghost.  (If no axis could be cut somewhere they may not.)
NearEntitiesMeet ==
  parts # <<>> /\ AllCutsFound =>
    \A i \in PartIds : \A e \in parts[i].own, f \in Entities :
      Near(e, f) => f \in parts[i].own \cup parts[i].ghost

\* The part an entity is sent to is one whose box it is in, whatever cuts were tried and
\* given up on the way.
OwnedInBox ==
  parts # <<>> => \A i \in PartIds : \A e \in parts[i].own : contains(box[Leaf(i)], coord[e])

\* The bisection never loses a cut that would do: one that leaves the right number of
\* entities on either side is between the bounds of the window.
WindowKeepsGoodCuts ==
  Cutting => \A c \in box[node].lo[Head(axes)] .. box[node].hi[Head(axes)] :
    c < cut.min \/ c > cut.max =>
      LET n == CountEntities(box[node], Head(axes), c) IN TooFew(n) \/ TooMany(n)

\* The three of them.
PartsAreComplete == NearEntitiesMeet /\ OwnedInBox /\ WindowKeepsGoodCuts

\* The partitioner returns, also when all entities are in one place.
PartitionEnds == <>(parts # <<>>)
=============================================================================
