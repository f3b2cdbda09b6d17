------------------------------ MODULE MCSearch ------------------------------
(***************************************************************************)
(* Three parts of a search: which pair an iteration looks at, one pair of  *)
(* faces or edges through the filter and the contact-plane check, and the  *)
(* parallel loops that collect pairs.                                      *)
(***************************************************************************)
EXTENDS FaceFilter, PairCompaction, CandidateIndex

VARIABLE part

\* Six candidates, four of them accepted, all their iterations at once.
Six == 1 .. 6
Four == {1, 3, 4, 6}

\* Faces of up to two units; all that divides in the arithmetic of their overlaps divides 60.
Unit == 60
Scaled(P) == [i \in Indices(P) |-> Times(Unit, P[i])]
Shapes ==
  { <<<<0, 0>>, <<1, 0>>, <<1, 1>>, <<0, 1>>>>,
    <<<<0, 0>>, <<2, 0>>, <<2, 2>>, <<0, 2>>>>,
    <<<<1, 0>>, <<2, 1>>, <<1, 2>>, <<0, 1>>>>,
    <<<<0, 0>>, <<2, 0>>, <<1, 1>>>>,
    <<<<0, 0>>, <<2, 0>>, <<2, 1>>, <<1, 1>>>>,
    <<<<1, 0>>, <<2, 0>>, <<2, 2>>, <<0, 1>>>>,
    <<<<0, 0>>, <<2, 1>>, <<1, 1>>, <<1, 2>>>> }
Counter == {Scaled(P) : P \in Shapes}
Clockwise == {ElemReverse(P) : P \in Counter}
Shift(P, d) == [i \in Indices(P) |-> <<P[i][1] + d[1], P[i][2] + d[2]>>]
Shifted == {Shift(P, <<Unit * dx, Unit * dy>>) : P \in Counter, dx \in {0, 1}, dy \in {-1, 0}}
Edge(a, b) == <<<<Unit * a, 0>>, <<Unit * b, 0>>>>
Rising == {Edge(a, b) : a \in {0, 1}, b \in {2, 3}}
Falling == {Edge(b, a) : a \in 0 .. 2, b \in 3 .. 4}
HalfUnit == Unit \div 2
SomeGaps == {[at0 |-> HalfUnit * c, dx |-> dx, dy |-> dy] : c \in {-4, -3, -1, 0, 2}, dx \in {0, 1}, dy \in {0, 1}}

\* Meshes of up to six elements, and whose boxes meet: any of two meshes of two and three, and any of a mesh of four.
Product(n1, n2) == [kind |-> "product", n1 |-> n1, n2 |-> n2, offsets |-> <<>>, counts |-> <<>>, ids |-> <<>>]
Triangle(n) == [Product(n, n) EXCEPT !.kind = "triangle"]
Bvh(kind, n1, n2, meet) ==
  LET hits(q) == {x[1] : x \in {y \in meet : y[2] = q}}
  IN [kind |-> kind, n1 |-> n1, n2 |-> n2,
      offsets |-> [q \in Below(n2) |-> Cardinality({x \in meet : x[2] < q})],
      counts |-> [q \in Below(n2) |-> Cardinality(hits(q))],
      ids |-> FoldLeft(LAMBDA s, q : s \o SetToSeq(hits(q - 1)), <<>>, [q \in 1 .. n2 |-> q])]
WithItself(E) == {<<i, i>> : i \in Below(4)} \cup {x \in Below(4) \X Below(4) : {x[1], x[2]} \in E}
SomeSearches ==
  {Product(n1, n2) : n1 \in 0 .. 6, n2 \in 0 .. 6} \cup {Triangle(n) : n \in 0 .. 6}
  \cup {Bvh("bvh", 2, 3, meet) : meet \in SUBSET (Below(2) \X Below(3))}
  \cup {Bvh("sameBvh", 4, 4, WithItself(E)) : E \in SUBSET {{i, j} : i, j \in Below(4)}}

LoopVars == <<twoPass, phase, at, mask, counter, slot, array>>

NoPair == f1 = <<>> /\ f2 = <<>> /\ gap = <<>> /\ auto = FALSE /\ plane = Unchecked
          /\ shared = FALSE /\ conforming = FALSE /\ scale = 0 /\ filtered = "no"
NoLoops == twoPass = FALSE /\ phase = "claim" /\ at = NotStarted /\ counter = 0
           /\ mask = [c \in Candidates |-> FALSE] /\ slot = [c \in Candidates |-> 0] /\ array = <<>>
NoIndex == search = <<>> /\ count = 0 /\ candidate = 0 /\ l = 0 /\ r = 0 /\ pairs = <<>> /\ indexStep = "none"

AnyInit ==
  \/ part = "pair" /\ FilterInit /\ NoLoops /\ NoIndex
  \/ part = "loops" /\ Init /\ NoPair /\ NoIndex
  \/ part = "index" /\ IndexInit /\ NoPair /\ NoLoops

AnyNext ==
  \/ part = "pair" /\ FilterNext /\ UNCHANGED <<part, LoopVars, indexVars>>
  \/ part = "loops" /\ Next /\ UNCHANGED <<part, filterVars, indexVars>>
  \/ part = "index" /\ IndexNext /\ UNCHANGED <<part, filterVars, LoopVars>>

AnySpec == AnyInit /\ [][AnyNext]_<<part, LoopVars, filterVars, indexVars>>
=============================================================================
