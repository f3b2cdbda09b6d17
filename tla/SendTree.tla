------------------------------ MODULE SendTree ------------------------------
(***************************************************************************)
(* MPIUtility::SendAll and RecvSendAll: one rank hands a container to all  *)
(* others down a BisecTree over the ranks.  A node carries the rank that   *)
(* has the container when the tree is read from the top: the chain from    *)
(* the top to the root's leaf carries the root, every other node the rank  *)
(* of its left child.  A rank forwards what it received on the part of the *)
(* tree below the highest node that carries it.                            *)
(*                                                                         *)
(* Several such calls follow each other, with the same tag and without a   *)
(* barrier.  MPI_Send may return at once or wait for the receiver.         *)
(***************************************************************************)
EXTENDS BisecTree, Sequences

CONSTANTS
  TreeSize,   \* n_ranks_
  Roots       \* the rank each call starts from

SendTreeAssumption ==
  /\ TreeSize \in Nat \ {0}
  /\ Roots \in Seq(0 .. TreeSize - 1)

Members == 0 .. TreeSize - 1

BuildSendTree(from) ==
  LET rank[x \in Nodes(TreeSize)] ==
        IF x[1] = 0 THEN x[2]
        ELSE IF HasRight(TreeSize, x) /\ rank[right(x)] = from THEN from ELSE rank[left(x)]
  IN [x \in Nodes(TreeSize) |-> rank[x]]

\* The climb of RecvSendAll ends at the highest node that carries r.
Entry(carries, r) ==
  CHOOSE x \in {y \in Nodes(TreeSize) : carries[y] = r} : \A y \in Nodes(TreeSize) : carries[y] = r => y[1] <= x[1]

-----------------------------------------------------------------------------
VARIABLES
  turn,       \* rank -> calls it has begun
  tree,       \* rank -> the send_tree of its call
  at,         \* rank -> the node it is at
  mode,       \* rank -> "out", "recv", "rest" (SendToRest) or "sending" (in MPI_Send)
  letters,    \* <<from, to>> -> messages sent and not received
  taken       \* rank -> the container of each call: its own, or the one it received

treeVars == <<turn, tree, at, mode, letters, taken>>

TreeInit ==
  /\ turn = [r \in Members |-> 0]
  /\ tree = [r \in Members |-> <<>>]
  /\ at = [r \in Members |-> Leaf(r)]
  /\ mode = [r \in Members |-> "out"]
  /\ letters = [p \in Members \X Members |-> <<>>]
  /\ taken = [r \in Members |-> <<>>]

Container(t) == <<Roots[t], t>>

\* Both build the tree; the root starts at its top.
Call(r, isRoot, m) ==
  /\ mode[r] = "out" /\ turn[r] < Len(Roots)
  /\ (Roots[turn[r] + 1] = r) = isRoot
  /\ turn' = [turn EXCEPT ![r] = @ + 1]
  /\ tree' = [tree EXCEPT ![r] = BuildSendTree(Roots[turn'[r]])]
  /\ at' = [at EXCEPT ![r] = IF isRoot THEN <<Top(TreeSize), 0>> ELSE Entry(tree'[r], r)]
  /\ mode' = [mode EXCEPT ![r] = m]
  /\ UNCHANGED letters

SendAll(r) ==
  /\ Call(r, TRUE, "rest")
  /\ taken' = [taken EXCEPT ![r] = Append(@, Container(turn[r] + 1))]

RecvSendAll(r) ==
  /\ Call(r, FALSE, "recv")
  /\ UNCHANGED taken

\* Mutant of RecvContainer: a message from any rank will do.
AnySource(r) ==
  \E from \in Members :
    /\ mode[r] = "recv" /\ letters[<<from, r>>] # <<>>
    /\ taken' = [taken EXCEPT ![r] = Append(@, Head(letters[<<from, r>>]))]
    /\ letters' = [letters EXCEPT ![<<from, r>>] = Tail(@)]
    /\ mode' = [mode EXCEPT ![r] = "rest"]
    /\ UNCHANGED <<turn, tree, at>>

RecvContainer(r) ==
  LET from == tree[r][root(at[r])]
  IN /\ mode[r] = "recv" /\ letters[<<from, r>>] # <<>>
     /\ taken' = [taken EXCEPT ![r] = Append(@, Head(letters[<<from, r>>]))]
     /\ letters' = [letters EXCEPT ![<<from, r>>] = Tail(@)]
     /\ mode' = [mode EXCEPT ![r] = "rest"]
     /\ UNCHANGED <<turn, tree, at>>

\* The child that carries r, and whoever the other one carries.
Own(carries, x) == IF carries[left(x)] = carries[x] THEN left(x) ELSE right(x)
Children(x) == {left(x)} \cup IF HasRight(TreeSize, x) THEN {right(x)} ELSE {}
Others(carries, x) == {carries[y] : y \in Children(x) \ {Own(carries, x)}}

Forward(r, to) ==
  /\ mode[r] = "rest" /\ at[r][1] > 0
  /\ letters' = [p \in DOMAIN letters |->
                IF p[1] = r /\ p[2] \in to THEN Append(letters[p], taken[r][turn[r]]) ELSE letters[p]]
  /\ at' = [at EXCEPT ![r] = Own(tree[r], @)]
  /\ mode' = [mode EXCEPT ![r] = IF to = {} THEN "rest" ELSE "sending"]
  /\ UNCHANGED <<turn, tree, taken>>

\* Mutant of SendToRest: both children are sent to, the rank itself included.
SendsToBoth(r) == Forward(r, {tree[r][x] : x \in Children(at[r])})

SendToRest(r) == Forward(r, Others(tree[r], at[r]))

\* MPI_Send returns when its message is received, or earlier.
Collected(r) == mode[r] = "sending" /\ \A s \in Others(tree[r], root(at[r])) : letters[<<r, s>>] = <<>>
SendReturns(r) ==
  /\ mode[r] = "sending"
  /\ mode' = [mode EXCEPT ![r] = "rest"]
  /\ UNCHANGED <<turn, tree, at, letters, taken>>

Return(r) ==
  /\ mode[r] = "rest" /\ at[r] = Leaf(r)
  /\ mode' = [mode EXCEPT ![r] = "out"]
  /\ UNCHANGED <<turn, tree, at, letters, taken>>

TreeStep(r) ==
  \/ SendAll(r) \/ RecvSendAll(r)
  \/ RecvContainer(r) \/ SendToRest(r) \/ Return(r)

TreeFinished == \A r \in Members : mode[r] = "out" /\ turn[r] = Len(Roots)

TreeNext == (\E r \in Members : TreeStep(r) \/ SendReturns(r)) \/ (TreeFinished /\ UNCHANGED treeVars)

\* Some rank that can run on does, but only a message that was received has to let its
\* sender go.
TreeProgress == \E r \in Members : TreeStep(r) \/ (Collected(r) /\ SendReturns(r))

TreeSpec == TreeInit /\ [][TreeNext]_treeVars /\ WF_treeVars(TreeProgress)

-----------------------------------------------------------------------------
\* What a rank comes out of a call with is the container of that call, although ranks
\* may be several calls ahead of each other and messages carry no number.
EveryRankServed ==
  \A r \in Members : \A t \in 1 .. Len(taken[r]) : taken[r][t] = Container(t)

\* Each message is received by the call it was sent in: nothing is left for a later one.
NothingLeftOver == TreeFinished => \A p \in DOMAIN letters : letters[p] = <<>>

\* Both: containers reach all members, each in its call.
ContainersArrive == EveryRankServed /\ NothingLeftOver

\* Every call comes to an end on every rank, even if no MPI_Send returns before its
\* message is received.
BroadcastsEnd == <>[]TreeFinished
=============================================================================
