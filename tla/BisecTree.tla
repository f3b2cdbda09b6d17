------------------------------ MODULE BisecTree ------------------------------
(***************************************************************************)
(* redecomp::BisecTree: a nearly complete binary tree over n parts, filled *)
(* from the left.  A node is <<h, i>>: the i-th of its level, counted from *)
(* the left, h levels above the last one.  Operators only.                 *)
(***************************************************************************)
EXTENDS Integers, FiniteSetsExt

\* The constructor: ceil(log2(n - 0.25)) + 1 levels, each half as wide, rounded up, as
\* the level below.
Top(n) == Min({k \in 0 .. n : 2^k >= n})
Width(n, h) == (n + 2^h - 1) \div 2^h
Level(n, h) == {<<h, i>> : i \in 0 .. Width(n, h) - 1}
Nodes(n) == UNION {Level(n, h) : h \in 0 .. Top(n)}

Leaf(i) == <<0, i>>
root(x) == <<x[1] + 1, x[2] \div 2>>
left(x) == <<x[1] - 1, 2 * x[2]>>
right(x) == <<x[1] - 1, 2 * x[2] + 1>>
HasRight(n, x) == 2 * x[2] + 1 < Width(n, x[1] - 1)

\* Parts below a node.
Leaves(n, x) == {p \in 0 .. n - 1 : p \div 2^x[1] = x[2]}
=============================================================================
