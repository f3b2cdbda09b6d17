------------------------------ MODULE Vectors ------------------------------
(* Vectors of three integers (utils/Math.hpp), of which a plane problem leaves the third one zero. *)
EXTENDS Integers, Functions

Zero3 == <<0, 0, 0>>
Plus3(u, v) == [d \in 1 .. 3 |-> u[d] + v[d]]
Scaled3(n, v) == [d \in 1 .. 3 |-> n * v[d]]
Apart(u, v) == [d \in 1 .. 3 |-> u[d] - v[d]]
dotProd(u, v) == u[1] * v[1] + u[2] * v[2] + u[3] * v[3]
Norm2(v) == dotProd(v, v)
Sum3(f) == [d \in 1 .. 3 |-> SumFunction([k \in DOMAIN f |-> f[k][d]])]
=============================================================================
