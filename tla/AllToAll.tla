------------------------------ MODULE AllToAll ------------------------------
(***************************************************************************)
(* What redecomp relies on when its ranks call SendRecvEach: a call hands  *)
(* every rank the value that every rank built for it in the same call, and *)
(* no rank comes out of a call before all ranks have come into it.         *)
(***************************************************************************)
EXTENDS Naturals, Sequences

CONSTANTS
  Ranks,
  NCalls         \* calls each rank makes

VARIABLES
  entered,       \* rank -> calls it has begun
  received       \* rank -> one entry per call that returned: source -> value

vars == <<entered, received>>

returned(r) == Len(received[r])

\* What rank s builds for rank r in call c: nobody else builds the same.
Built(s, r, c) == <<s, r, c>>
Outcome(r, c) == [s \in Ranks |-> [size |-> Built(s, r, c), data |-> Built(s, r, c)]]

Init ==
  /\ entered = [r \in Ranks |-> 0]
  /\ received = [r \in Ranks |-> <<>>]

Enter(r) ==
  /\ entered[r] = returned(r) /\ entered[r] < NCalls
  /\ entered' = [entered EXCEPT ![r] = @ + 1]
  /\ UNCHANGED received

Return(r) ==
  /\ entered[r] = returned(r) + 1
  /\ \A s \in Ranks : entered[s] >= entered[r]
  /\ received' = [received EXCEPT ![r] = Append(@, Outcome(r, entered[r]))]
  /\ UNCHANGED entered

Next == \E r \in Ranks : Enter(r) \/ Return(r)

Spec == Init /\ [][Next]_vars
=============================================================================
