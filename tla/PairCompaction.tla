--------------------------- MODULE PairCompaction ---------------------------
(***************************************************************************)
(* How Tribol picks items out of an array in parallel.  Every iteration of *)
(* a forAllExec loop tests its item and, if the test accepts it, claims a  *)
(* slot of the output with an atomic increment and stores the item there.  *)
(*                                                                         *)
(* The pair searches (FilterCandidatePairs, CartesianProduct, BvhSearch on *)
(* one mesh) run two loops: the first only tests and counts, so that the   *)
(* output can be given its size, and the second claims.  The geometry      *)
(* check of CouplingScheme::apply runs one: contact planes get an array    *)
(* with room for every pair, which is shrunk afterwards.                   *)
(*                                                                         *)
(* Iterations of a loop may interleave in any way (OpenMP, Cuda; the       *)
(* sequential order is one of them); a loop is over before the caller goes *)
(* on.  atomicInc is one step, everything else an iteration does is local  *)
(* to it or goes to a place of its own.                                    *)
(***************************************************************************)
EXTENDS Integers, FiniteSets

CONSTANTS
  Candidates,   \* iterations: candidate pairs, or pairs to be checked for contact
  Accepted,     \* those the geometry accepts
  NoEntry       \* an array entry nobody has written

ASSUME CompactionAssumption ==
  /\ IsFiniteSet(Candidates)
  /\ Accepted \subseteq Candidates
  /\ NoEntry \notin Candidates

VARIABLES
  twoPass,   \* a search, which counts before it claims; FALSE: the plane check
  phase,     \* the loop that is running
  at,        \* where each of its iterations is
  mask,      \* accepted_view: what the first loop found
  counter,   \* accepted_count, retained_pair_count or planes_ct
  slot,      \* accepted_index of each iteration of the second loop
  array      \* interface_pairs or the contact planes

vars == <<twoPass, phase, at, mask, counter, slot, array>>

Loops == {"count", "claim"}
NotStarted == [c \in Candidates |-> "start"]
LoopOver == \A c \in Candidates : at[c] = "done"

\* Mutant of Allocated: one place too many.
OneTooMany(n) == [i \in 0 .. n |-> NoEntry]
Allocated(n) == [i \in 0 .. n - 1 |-> NoEntry]

Init ==
  /\ twoPass \in BOOLEAN
  /\ phase = IF twoPass THEN "count" ELSE "claim"
  /\ at = NotStarted
  /\ mask = [c \in Candidates |-> FALSE]
  /\ counter = 0
  /\ slot = [c \in Candidates |-> 0]
  /\ array = Allocated(IF twoPass THEN 0 ELSE Cardinality(Candidates))

Goto(c, from, to) == at[c] = from /\ at' = [at EXCEPT ![c] = to]

-----------------------------------------------------------------------------
\* First loop: geomFilter into the mask, and one atomicInc for an accepted candidate.
TestCandidate(c) ==
  /\ phase = "count"
  /\ Goto(c, "start", IF c \in Accepted THEN "tested" ELSE "done")
  /\ mask' = [mask EXCEPT ![c] = c \in Accepted]
  /\ UNCHANGED <<twoPass, phase, counter, slot, array>>

CountCandidate(c) ==
  /\ phase = "count"
  /\ Goto(c, "tested", "done")
  /\ counter' = counter + 1
  /\ UNCHANGED <<twoPass, phase, mask, slot, array>>

\* Mutant of ResizePairs: the counter goes on.
KeepsCounting ==
  /\ phase = "count" /\ LoopOver
  /\ phase' = "claim" /\ at' = NotStarted
  /\ array' = Allocated(counter)
  /\ UNCHANGED <<twoPass, mask, counter, slot>>

\* Between the loops the output gets its size and the counter starts again.
ResizePairs ==
  /\ phase = "count" /\ LoopOver
  /\ phase' = "claim" /\ at' = NotStarted
  /\ array' = Allocated(counter)
  /\ counter' = 0
  /\ UNCHANGED <<twoPass, mask, slot>>

\* Second loop, or the only one, which tests for itself.
Keeps(c) == IF twoPass THEN mask[c] ELSE c \in Accepted

\* Mutant of RejectCandidate: any candidate can be dropped.
DropCandidate(c) ==
  /\ phase = "claim"
  /\ Goto(c, "start", "done")
  /\ UNCHANGED <<twoPass, phase, mask, counter, slot, array>>

RejectCandidate(c) ==
  /\ phase = "claim" /\ ~Keeps(c)
  /\ Goto(c, "start", "done")
  /\ UNCHANGED <<twoPass, phase, mask, counter, slot, array>>

\* Mutant of ClaimSlot: the counter is read but not incremented.
SharedSlot(c) ==
  /\ phase = "claim" /\ Keeps(c)
  /\ Goto(c, "start", "claimed")
  /\ slot' = [slot EXCEPT ![c] = counter]
  /\ UNCHANGED <<twoPass, phase, mask, counter, array>>

ClaimSlot(c) ==
  /\ phase = "claim" /\ Keeps(c)
  /\ Goto(c, "start", "claimed")
  /\ slot' = [slot EXCEPT ![c] = counter]
  /\ counter' = counter + 1
  /\ UNCHANGED <<twoPass, phase, mask, array>>

Store(c) ==
  /\ phase = "claim"
  /\ Goto(c, "claimed", "done")
  /\ array' = [array EXCEPT ![slot[c]] = c]
  /\ UNCHANGED <<twoPass, phase, mask, counter, slot>>

\* Mutant of Finish: no resizeActivePairs.
NotShrunk == phase = "claim" /\ LoopOver /\ phase' = "done" /\ UNCHANGED <<twoPass, at, mask, counter, slot, array>>

\* resizeActivePairs; the searches have the right size already.
Finish ==
  /\ phase = "claim" /\ LoopOver
  /\ phase' = "done"
  /\ array' = IF twoPass THEN array ELSE [i \in 0 .. counter - 1 |-> array[i]]
  /\ UNCHANGED <<twoPass, at, mask, counter, slot>>

Iteration(c) ==
  TestCandidate(c) \/ CountCandidate(c) \/ RejectCandidate(c) \/ ClaimSlot(c) \/ Store(c)

Done == phase = "done" /\ UNCHANGED vars

Next == (\E c \in Candidates : Iteration(c)) \/ ResizePairs \/ Finish \/ Done

Spec == Init /\ [][Next]_vars

-----------------------------------------------------------------------------
\* The counter is a count and the array never has more places than there are candidates,
\* each of them unwritten or with a candidate in it.
TypeOK ==
  /\ twoPass \in BOOLEAN
  /\ phase \in Loops \cup {"done"}
  /\ at \in [Candidates -> {"start", "tested", "claimed", "done"}]
  /\ mask \in [Candidates -> BOOLEAN]
  /\ counter \in Nat
  /\ slot \in [Candidates -> Nat]
  /\ \E n \in 0 .. Cardinality(Candidates) : array \in [0 .. n - 1 -> Candidates \cup {NoEntry}]

\* Candidates that hold a slot.
Claimed == {c \in Accepted : phase = "claim" /\ at[c] \in {"claimed", "done"}}

\* No iteration writes outside the array, and no two write the same entry, although
\* the array was sized by a loop that saw the candidates in another order.
SlotsAreExclusive ==
  /\ \A c \in Claimed : slot[c] \in DOMAIN array
  /\ \A c, d \in Claimed : slot[c] = slot[d] => c = d

\* An entry once written keeps its value: planes and pairs are pointed to.
WrittenOnce ==
  [][\A i \in DOMAIN array \cap DOMAIN array' :
       array[i] # NoEntry => array'[i] = array[i]]_vars

Selection == INSTANCE PairSelection
               WITH done <- phase = "done", result <- IF phase = "done" THEN array ELSE <<>>

\* The two loops together do what PairSelection does in one step.
Selects == Selection!Spec
=============================================================================
