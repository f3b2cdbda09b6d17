---------------------------- MODULE PairSelection ----------------------------
(***************************************************************************)
(* What a parallel selection promises its caller: an array with every      *)
(* accepted item in it once and nothing else, in no particular order, all  *)
(* at once.                                                                *)
(***************************************************************************)
EXTENDS Integers

CONSTANT Accepted

VARIABLES done, result

\* An array, with indices from 0 on, that holds each element of S exactly once.
IsListing(f, S) ==
  /\ f \in [DOMAIN f -> S]
  /\ \A i \in DOMAIN f : i \in Nat /\ 0 .. i \subseteq DOMAIN f
  /\ \A s \in S : \E i \in DOMAIN f : f[i] = s
  /\ \A i, j \in DOMAIN f : f[i] = f[j] => i = j

Init == done = FALSE /\ result = <<>>

Select == ~done /\ done' = TRUE /\ IsListing(result', Accepted)

Spec == Init /\ [][Select]_<<done, result>>
=============================================================================
