------------------------------ MODULE MCRedecomp ------------------------------
(***************************************************************************)
(* The parts of redecomp, one at a time: the ring exchange on three ranks, *)
(* the broadcast tree on five, the partitioner, and a mesh on three ranks  *)
(* with its transfers.                                                     *)
(***************************************************************************)
EXTENDS Exchange, SendTree, Partition, RedecompTransfer, MatrixTransfer

VARIABLE part      \* the part that runs

CallKinds == <<"flat", "array", "flat">>
RootsOfCalls == <<2, 4>>

\* Twelve entities in four clusters on five places.
Clusters == {f \in [1 .. 4 -> 1 .. 5] : \A i \in 1 .. 3 : f[i] <= f[i + 1]}
Sites == <<<<0, 0>>, <<4, 0>>, <<12, 0>>, <<0, 4>>, <<4, 4>>>>
ClusterLayouts == {[e \in 1 .. 12 |-> Sites[f[1 + ((e - 1) \div 3)]]] : f \in Clusters}

\* Two triangles and a quadrilateral in a row; elements are ghosts everywhere or nowhere, and not all
\* are assigned to one rank.
MeshAssignments ==
  {[home |-> h, own |-> o, ghosts |-> [e \in 1 .. 3 |-> IF g[e] THEN (1 .. 3) \ {o[e]} ELSE {}]] :
     h \in {<<2, 3, 1>>, <<1, 1, 2>>}, o \in {f \in [1 .. 3 -> 1 .. 3] : f[1] # f[3]}, g \in [1 .. 3 -> BOOLEAN]}
MeshConn == <<<<1, 3, 2>>, <<4, 2, 3, 5>>, <<5, 6, 4>>>>

ASSUME InstancesAssumption == ExchangeAssumption /\ SendTreeAssumption /\ TransferAssumption

-----------------------------------------------------------------------------
others == <<meshVars, transferVars, matrixVars>>
all == <<part, vars, treeVars, partitionVars, others>>

NoPartition ==
  /\ coord = 0 /\ nParts = 0 /\ ghostLen = 0 /\ todo = 0 /\ axes = <<>> /\ cut = 0
  /\ box = 0 /\ ghostBox = 0 /\ parts = <<>>
NoMesh ==
  /\ home = 0 /\ parentVerts = 0 /\ p2r = 0 /\ done = "nothing" /\ vertIds = 0 /\ r2pVerts = 0
  /\ vertices = 0 /\ elements = 0 /\ offsets = 0 /\ ghostElems = 0

AnyInit ==
  /\ Init /\ TreeInit /\ TransferInit /\ MatrixInit
  /\ \/ part = "exchange" /\ NoPartition /\ NoMesh
     \/ part = "tree" /\ NoPartition /\ NoMesh
     \/ part = "partition" /\ PartitionInit /\ NoMesh
     \/ part = "mesh" /\ NoPartition /\ MeshInit

RingSteps == part = "exchange" /\ Next /\ UNCHANGED <<part, treeVars, partitionVars, others>>
TreeSteps == part = "tree" /\ TreeNext /\ UNCHANGED <<part, vars, partitionVars, others>>
CutSteps == part = "partition" /\ PartitionNext /\ UNCHANGED <<part, vars, treeVars, others>>
MeshSteps ==
  /\ part = "mesh" /\ UNCHANGED <<part, vars, treeVars, partitionVars>>
  /\ \/ BuildRedecomp /\ UNCHANGED <<transferVars, matrixVars>>
     \/ form = "none" /\ Transfers /\ UNCHANGED <<meshVars, matrixVars>>
     \/ stage = "idle" /\ Matrices /\ UNCHANGED <<meshVars, transferVars>>
     \/ (stage = "parallel" \/ form \in {"dense", "flat", "sparse"}) /\ UNCHANGED others

AnyNext == RingSteps \/ TreeSteps \/ CutSteps \/ MeshSteps

AnyFairness ==
  WF_all(\/ part = "exchange" /\ Progress /\ UNCHANGED <<part, treeVars, partitionVars, others>>
         \/ part = "tree" /\ TreeProgress /\ UNCHANGED <<part, vars, partitionVars, others>>
         \/ part = "partition" /\ PartitionProgress /\ UNCHANGED <<part, vars, treeVars, others>>)

AnySpec == AnyInit /\ [][AnyNext]_all /\ AnyFairness

-----------------------------------------------------------------------------
\* CallsReturn, BroadcastsEnd and PartitionEnds in one.
AllEnd == <>[](/\ part = "exchange" => Finished
               /\ part = "tree" => TreeFinished
               /\ part = "partition" => parts # <<>>)
=============================================================================
