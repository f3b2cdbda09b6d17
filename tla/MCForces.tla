------------------------------ MODULE MCForces ------------------------------
(***************************************************************************)
(* Two parts of the physics of an update.  Mortar: two nonmortar faces at  *)
(* a right angle, with two nodes in common, and a mortar face over each of *)
(* them.  Common plane: two planes, the one beside the other, between two  *)
(* chains of two edges each.                                               *)
(***************************************************************************)
EXTENDS Forces

Points3 ==
  <<<<0, 0, 1>>, <<0, 1, 1>>, <<1, 1, 1>>, <<1, 0, 1>>,
    <<2, 0, 0>>, <<2, 1, 0>>, <<2, 1, -1>>, <<2, 0, -1>>,
    <<0, 0, 0>>, <<1, 0, 0>>, <<1, 1, 0>>, <<0, 1, 0>>, <<1, 0, -1>>, <<1, 1, -1>>>>
ThePosition == [n \in 0 .. 13 |-> Points3[n + 1]]
MortarFaces == [c |-> <<0, 1, 2, 3>>, d |-> <<4, 5, 6, 7>>]
NonmortarFaces == [a |-> <<8, 9, 10, 11>>, b |-> <<9, 12, 13, 10>>]
TheNormals == [a |-> <<0, 0, 1>>, b |-> <<1, 0, 0>>]
ThePressure == [n \in 8 .. 13 |-> n - 6]

\* Shape functions, multiplied by four: at a node, on an edge and at the centre; those of the mortar face
\* go round the other way.
Mirrored(phi) == <<phi[1], phi[4], phi[3], phi[2]>>
Rule(wt, phi, other) == [wt |-> wt, nonmortar |-> phi, mortar |-> Mirrored(other)]
Middle == <<1, 1, 1, 1>>
CentreAndNode == <<Rule(2, Middle, Middle), Rule(1, <<4, 0, 0, 0>>, <<4, 0, 0, 0>>)>>
TwoPoints == <<Rule(1, <<2, 2, 0, 0>>, <<0, 2, 2, 0>>), Rule(1, <<0, 0, 1, 3>>, Middle)>>
Pair(face1, face2, rule) == [face1 |-> face1, face2 |-> face2, rule |-> rule]
PairsFound ==
  {<<>>, <<Pair("c", "a", CentreAndNode)>>,
   <<Pair("c", "a", TwoPoints), Pair("d", "b", CentreAndNode)>>,
   <<Pair("d", "b", TwoPoints), Pair("c", "a", CentreAndNode)>>}

Up == <<0, 1, 0>>
Down == <<0, -1, 0>>
Left == [face1 |-> <<0, 1>>, face2 |-> <<3, 4>>, on1 |-> <<1, 1>>, on2 |-> <<0, 2>>,
         side1 |-> "a1", side2 |-> "b1", normal1 |-> Down, normal2 |-> Up, area |-> 1]
Right == [face1 |-> <<1, 2>>, face2 |-> <<4, 5>>, on1 |-> <<2, 0>>, on2 |-> <<1, 1>>,
          side1 |-> "a2", side2 |-> "b2", normal1 |-> Down, normal2 |-> Up, area |-> 2]
LeftAndRight == {Left, Right}
BothUp == [p \in LeftAndRight |-> Up]
SomeGaps == [LeftAndRight -> {-14, -7, -1, 1}]

\* All sums of two of these velocities divide what the thicknesses allow.
Speeds == {-3, 0, 3}
SomeMotions ==
  {[n \in 0 .. 5 |-> <<n % 3, CASE n = 0 -> y0 [] n \in {1, 2} -> y1 [] n > 2 -> y2, 0>>] :
     y0 \in Speeds, y1 \in Speeds, y2 \in Speeds}

Elements == {"a1", "a2", "b1", "b2"}
Same(x) == [e \in Elements |-> x]
SomeThicknesses == {Same(2), [Same(2) EXCEPT !["a1"] = 4], [Same(2) EXCEPT !["a1"] = -8]}
Ones == Same(1)
Twos == Same(2)
Twelves == Same(12)
TwentyFours == Same(24)
ThreesAndFives == [e \in Elements |-> IF e \in {"a1", "a2"} THEN 3 ELSE 5]

S(tied, kinematic, rate, viscous, vote, residualGap) ==
  [tied |-> tied, kinematic |-> kinematic, rate |-> rate, viscous |-> viscous, vote |-> vote, residualGap |-> residualGap]
SomeSchemes ==
  {S(FALSE, "element", "none", FALSE, TRUE, 0), S(FALSE, "element", "constant", FALSE, TRUE, 0),
   S(FALSE, "constant", "percent", FALSE, TRUE, 2), S(TRUE, "constant", "none", TRUE, FALSE, 0),
   S(FALSE, "constant", "constant", TRUE, TRUE, 0), S(TRUE, "element", "percent", FALSE, TRUE, 0)}
=============================================================================
