------------------------------ MODULE Exchange ------------------------------
(***************************************************************************)
(* MPIUtility::SendRecvEach, called by every rank of a communicator a      *)
(* number of times in a row, as BuildRedecomp and the transfers do.  In    *)
(* round i of a call a rank posts a send i places up the ring, receives    *)
(* from i places down and waits for its send; its own part comes last,     *)
(* without communication.  All messages have one tag, so that a receiver   *)
(* tells them apart by their order alone.                                  *)
(*                                                                         *)
(* Isend of a 2D array is two messages: the shape goes first, by MPI_Send, *)
(* which MPI allows to return at once or not before the receive starts.    *)
(***************************************************************************)
EXTENDS Integers, Sequences

CONSTANTS
  N,             \* n_ranks_
  Calls,         \* the kind of array each call of SendRecvEach moves
  Buffered       \* the parts of a message MPI buffers, whatever the receiver does

Kinds == {"flat", "array"}
Parts == {"shape", "data"}

ExchangeAssumption ==
  /\ N \in Nat \ {0}
  /\ Calls \in Seq(Kinds)
  /\ Buffered \subseteq Parts

Ranks == 0 .. N - 1

VARIABLES
  call,          \* rank -> calls of SendRecvEach it has begun
  round,         \* rank -> i of the loop
  step,          \* rank -> where it is in the round; "out" between calls
  chan,          \* <<from, to>> -> messages sent and not yet received, in order
  size,          \* rank -> what it sized its receive array for
  got,           \* rank -> what process_recv was given in this call, by source
  results        \* rank -> what earlier calls gave it

vars == <<call, round, step, chan, size, got, results>>

Steps == {"out", "send", "shape", "recv", "body", "wait", "own"}
NoValue == <<>>

Init ==
  /\ call = [r \in Ranks |-> 0]
  /\ round = [r \in Ranks |-> 1]
  /\ step = [r \in Ranks |-> "out"]
  /\ chan = [p \in Ranks \X Ranks |-> <<>>]
  /\ size = [r \in Ranks |-> NoValue]
  /\ got = [r \in Ranks |-> [s \in {} |-> s]]
  /\ results = [r \in Ranks |-> <<>>]

-----------------------------------------------------------------------------
Kind(r) == Calls[call[r]]
dest(r) == (r + round[r]) % N
source(r) == (r + N - round[r]) % N

\* build_send: what a rank builds differs from rank to rank and from call to call.
build_send(r, d) == <<r, d, call[r]>>
Message(r, part) == [part |-> part, value |-> build_send(r, dest(r))]

Goto(r, s) == step' = [step EXCEPT ![r] = s]
Post(r, part) == chan' = [chan EXCEPT ![<<r, dest(r)>>] = Append(@, Message(r, part))]

\* MPI matches the oldest message of the source, whatever is in it.
Incoming(r) == chan[<<source(r), r>>]
Take(r) == chan' = [chan EXCEPT ![<<source(r), r>>] = Tail(@)]

\* The loop has a next round, or the rank's own part is left.
AfterRound(i) == IF i < N THEN "send" ELSE "own"

\* Mutant of Begin: i goes on where the last call left it.
KeepsRound(r) ==
  /\ step[r] = "out" /\ call[r] < Len(Calls)
  /\ call' = [call EXCEPT ![r] = @ + 1]
  /\ got' = [got EXCEPT ![r] = [s \in {} |-> s]]
  /\ Goto(r, AfterRound(1))
  /\ UNCHANGED <<round, chan, size, results>>

Begin(r) ==
  /\ step[r] = "out" /\ call[r] < Len(Calls)
  /\ call' = [call EXCEPT ![r] = @ + 1]
  /\ round' = [round EXCEPT ![r] = 1]
  /\ got' = [got EXCEPT ![r] = [s \in {} |-> s]]
  /\ Goto(r, AfterRound(1))
  /\ UNCHANGED <<chan, size, results>>

\* Mutant of Isend: arrays of two dimensions are sent like all others.
OneMessage(r) ==
  /\ step[r] = "send"
  /\ Post(r, "data")
  /\ Goto(r, "recv")
  /\ UNCHANGED <<call, round, size, got, results>>

\* Isend of mfem::Array, mfem::Vector and 1D containers: MPI_Isend, which returns at once.
Isend(r) ==
  /\ step[r] = "send" /\ Kind(r) = "flat"
  /\ Post(r, "data")
  /\ Goto(r, "recv")
  /\ UNCHANGED <<call, round, size, got, results>>

\* Isend of axom::Array<T, 2>: MPI_Send of the shape ...
SendShape(r) ==
  /\ step[r] = "send" /\ Kind(r) = "array"
  /\ Post(r, "shape")
  /\ Goto(r, "shape")
  /\ UNCHANGED <<call, round, size, got, results>>

\* ... and MPI_Isend of the data once it has returned.
Delivered(r, part) == part \in Buffered \/ chan[<<r, dest(r)>>] = <<>>
IsendBody(r) ==
  /\ step[r] = "shape" /\ Delivered(r, "shape")
  /\ Post(r, "data")
  /\ Goto(r, "recv")
  /\ UNCHANGED <<call, round, size, got, results>>

\* Recv of a 2D array: the first message is taken for the shape.
RecvShape(r) ==
  /\ step[r] = "recv" /\ Kind(r) = "array" /\ Incoming(r) # <<>>
  /\ size' = [size EXCEPT ![r] = Head(Incoming(r)).value]
  /\ Take(r)
  /\ Goto(r, "body")
  /\ UNCHANGED <<call, round, got, results>>

\* MPI_Probe sizes the array of a flat Recv by the message it finds.
Received(r, n) == [size |-> n, data |-> Head(Incoming(r)).value]
process_recv(r, s, v) == got' = [got EXCEPT ![r] = [x \in DOMAIN @ \cup {s} |-> IF x = s THEN v ELSE @[x]]]

Recv(r) ==
  /\ step[r] = "recv" /\ Kind(r) = "flat" /\ Incoming(r) # <<>>
  /\ process_recv(r, source(r), Received(r, Head(Incoming(r)).value))
  /\ Take(r)
  /\ Goto(r, "wait")
  /\ UNCHANGED <<call, round, size, results>>

RecvBody(r) ==
  /\ step[r] = "body" /\ Incoming(r) # <<>>
  /\ process_recv(r, source(r), Received(r, size[r]))
  /\ Take(r)
  /\ Goto(r, "wait")
  /\ UNCHANGED <<call, round, size, results>>

\* Mutant of Wait: the loop runs to n_ranks_ - 2.
LeavesEarly(r) ==
  /\ step[r] = "wait" /\ Delivered(r, "data")
  /\ round' = [round EXCEPT ![r] = @ + 1]
  /\ Goto(r, AfterRound(round[r] + 2))
  /\ UNCHANGED <<call, chan, size, got, results>>

\* request->Wait() and the head of the loop.
Wait(r) ==
  /\ step[r] = "wait" /\ Delivered(r, "data")
  /\ round' = [round EXCEPT ![r] = @ + 1]
  /\ Goto(r, AfterRound(round[r] + 1))
  /\ UNCHANGED <<call, chan, size, got, results>>

\* process_recv( build_send( my_rank_ ), my_rank_ ), and SendRecvEach returns.
OwnPart(r) ==
  /\ step[r] = "own"
  /\ LET mine == [size |-> build_send(r, r), data |-> build_send(r, r)]
         all  == [s \in DOMAIN got[r] \cup {r} |-> IF s = r THEN mine ELSE got[r][s]]
     IN results' = [results EXCEPT ![r] = Append(@, all)]
  /\ got' = [got EXCEPT ![r] = [s \in {} |-> s]]
  /\ Goto(r, "out")
  /\ UNCHANGED <<call, round, chan, size>>

RankStep(r) ==
  \/ Begin(r)
  \/ Isend(r) \/ SendShape(r) \/ IsendBody(r)
  \/ RecvShape(r) \/ Recv(r) \/ RecvBody(r)
  \/ Wait(r)
  \/ OwnPart(r)

Finished == \A r \in Ranks : step[r] = "out" /\ call[r] = Len(Calls)

Next == (\E r \in Ranks : RankStep(r)) \/ (Finished /\ UNCHANGED vars)

\* As long as MPI lets some rank run on, some rank does.
Progress == \E r \in Ranks : RankStep(r)
Spec == Init /\ [][Next]_vars /\ WF_vars(Progress)

-----------------------------------------------------------------------------
Values == (Ranks \X Ranks \X (1 .. Len(Calls))) \cup {NoValue}
Messages == [part : Parts, value : Values]

\* Every variable holds a value of its type.
TypeOK ==
  /\ call \in [Ranks -> 0 .. Len(Calls)]
  /\ round \in [Ranks -> 1 .. N]
  /\ step \in [Ranks -> Steps]
  /\ chan \in [Ranks \X Ranks -> Seq(Messages)]
  /\ size \in [Ranks -> Values]
  /\ \A r \in Ranks : DOMAIN got[r] \subseteq Ranks
  /\ \A r \in Ranks : Len(results[r]) <= call[r]

\* A message that is received is the one meant for this receive: the part the receiver
\* expects, built for it in the call it is in, although ranks run ahead of each other
\* and nothing but the order in a channel tells two messages apart.
Expected(r) == IF step[r] = "recv" /\ Kind(r) = "array" THEN "shape" ELSE "data"
MessagesMatch ==
  \A r \in Ranks : step[r] \in {"recv", "body"} /\ Incoming(r) # <<>> =>
    Head(Incoming(r)) = [part |-> Expected(r), value |-> <<source(r), r, call[r]>>]

\* Nobody leaves a call before everybody is in it: ranks are at most one call apart, and
\* the messages of at most two calls are under way between any two of them.
OneCallApart == \A r, s \in Ranks : Len(results[r]) <= call[s]

\* What r waits for has come.
Ready(r) ==
  \/ step[r] \in {"send", "own"}
  \/ step[r] = "out" /\ call[r] < Len(Calls)
  \/ step[r] \in {"recv", "body"} /\ Incoming(r) # <<>>
  \/ step[r] = "shape" /\ Delivered(r, "shape")
  \/ step[r] = "wait" /\ Delivered(r, "data")

\* No set of ranks waits on itself around the ring, although each sends before it receives and
\* waits for its send before it goes on: as long as a rank has calls to make, some rank is ready.
NobodyStuck == Finished \/ \E r \in Ranks : Ready(r)

\* Unless MPI may hold up the shape of an array, which the code sends before it receives.
ShapesGoAhead == "shape" \in Buffered \/ \A k \in 1 .. Len(Calls) : Calls[k] = "flat"

\* The rounds of all ranks fit together: receives get what they expect, no rank is more than a
\* call ahead, and if shapes go ahead the ranks never wait for each other in a circle.
RoundsMeet == TypeOK /\ MessagesMatch /\ OneCallApart /\ (ShapesGoAhead => NobodyStuck)

\* SendRecvEach hands out, in one step per rank, what AllToAll does.
A2A == INSTANCE AllToAll WITH NCalls <- Len(Calls), entered <- call, received <- results
ImplementsAllToAll == A2A!Spec

\* Every rank comes out of every call.
CallsReturn == <>[]Finished
=============================================================================
