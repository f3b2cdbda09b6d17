--------------------------- MODULE Exchange_proofs ---------------------------
(***************************************************************************)
(* For any number of ranks, any sequence of calls and whatever MPI         *)
(* buffers: a receive of the ring exchange gets the message meant for it,  *)
(* ranks are at most one call apart, the exchange implements AllToAll, and *)
(* if MPI buffers the shapes of arrays no set of ranks waits on itself.    *)
(***************************************************************************)
EXTENDS Exchange, WellFoundedInduction, TLAPS

-----------------------------------------------------------------------------
(***************************************************************************)
(* The inductive invariant.  a sends to b in the round in which b receives *)
(* from a.  The messages from a to b have numbers that grow in the order   *)
(* they are sent, 2 k for the shape of call k and 2 k + 1 for its data; a  *)
(* flat array has no shape, so there are gaps.  A channel holds what is    *)
(* after the last message received and not after the last one sent, in     *)
(* this order; its two ends are read off the program counters, and the     *)
(* invariant is that they agree with what is in the channel.               *)
(***************************************************************************)
RoundOf(a, b) == IF a < b THEN b - a ELSE b - a + N

PartsOf(k) == IF Calls[k] = "array" THEN Parts ELSE {"data"}
Number(k, p) == IF p = "data" THEN 2 * k + 1 ELSE 2 * k
Msg(a, b, k, p) == [part |-> p, value |-> A2A!Built(a, b, k)]

SentUpTo(a, b) ==
  IF \/ step[a] \in {"out", "own"}
     \/ round[a] > RoundOf(a, b)
     \/ round[a] = RoundOf(a, b) /\ step[a] \in {"recv", "body", "wait"}
  THEN 2 * call[a] + 1
  ELSE IF round[a] = RoundOf(a, b) /\ step[a] = "shape" THEN 2 * call[a] ELSE 2 * call[a] - 1

TakenUpTo(a, b) ==
  IF \/ step[b] \in {"out", "own"}
     \/ round[b] > RoundOf(a, b)
     \/ round[b] = RoundOf(a, b) /\ step[b] = "wait"
  THEN 2 * call[b] + 1
  ELSE IF round[b] = RoundOf(a, b) /\ step[b] = "body" THEN 2 * call[b] ELSE 2 * call[b] - 1

\* The messages from a to b with a number above lo and up to hi.
Between(a, b, lo, hi) ==
  {m \in Messages : \E k \in 1 .. Len(Calls) : \E p \in PartsOf(k) :
     m = Msg(a, b, k, p) /\ lo < Number(k, p) /\ Number(k, p) <= hi}
NumberOf(m) == Number(m.value[3], m.part)

\* c lists the messages of S, each once, by their numbers.
Lists(c, S) ==
  /\ \A i \in 1 .. Len(c) : c[i] \in S
  /\ \A m \in S : \E i \in 1 .. Len(c) : c[i] = m
  /\ \A i, j \in 1 .. Len(c) : i < j => NumberOf(c[i]) < NumberOf(c[j])

ChannelsHold ==
  \A a, b \in Ranks :
    IF a = b THEN chan[<<a, b>>] = <<>>
    ELSE Lists(chan[<<a, b>>], Between(a, b, TakenUpTo(a, b), SentUpTo(a, b)))

NothingTakenUnsent ==
  \A a, b \in Ranks : a # b => TakenUpTo(a, b) <= SentUpTo(a, b)

\* What a step says of the round and of the kind of array that is moved.
StepsFit ==
  \A r \in Ranks :
    /\ step[r] # "out" => call[r] >= 1
    /\ step[r] \notin {"out", "own"} => round[r] < N
    /\ step[r] \in {"shape", "body"} => Kind(r) = "array"
    /\ step[r] = "body" => size[r] = A2A!Built(source(r), r, call[r])

\* A rank has been given what it took in this call, and all of earlier calls.
Arrived(r) ==
  {s \in Ranks \ {r} : step[r] # "out" /\ TakenUpTo(s, r) = 2 * call[r] + 1}
Whole(v) == [size |-> v, data |-> v]

GotArrived ==
  got = [r \in Ranks |-> [s \in Arrived(r) |-> Whole(A2A!Built(s, r, call[r]))]]

Given == {A2A!Outcome(r, k) : r \in Ranks, k \in 1 .. Len(Calls)}
ResultsSoFar ==
  /\ results \in [Ranks -> Seq(Given)]
  /\ \A r \in Ranks : Len(results[r]) = IF step[r] = "out" THEN call[r] ELSE call[r] - 1

IInv ==
  /\ TypeOK /\ StepsFit /\ ChannelsHold /\ NothingTakenUnsent /\ GotArrived /\ ResultsSoFar

-----------------------------------------------------------------------------
(* The ring. *)

\* One lap at most is taken off.
LEMMA OneLap ==
  ASSUME N \in Nat \ {0}, NEW x \in Nat, x < 2 * N
  PROVE  x % N = IF x < N THEN x ELSE x - N
<1>1. CASE x < N
  BY <1>1
<1>2. CASE x >= N
  <2>1. x - N \in 0 .. N - 1 /\ x = N * 1 + (x - N)
    BY <1>2
  <2>2. x % N = x - N
    BY <2>1, SMTT(30)
  <2> QED BY <1>2, <2>2
<1> QED BY <1>1, <1>2

\* In one round a rank sends to one rank and receives from one rank, itself only in the last.
LEMMA Ring ==
  ASSUME N \in Nat \ {0}, round \in [Ranks -> 1 .. N], NEW r \in Ranks, round[r] < N
  PROVE  /\ dest(r) \in Ranks \ {r} /\ source(r) \in Ranks \ {r}
         /\ \A s \in Ranks \ {r} :
              /\ RoundOf(r, s) \in 1 .. N - 1 /\ RoundOf(s, r) \in 1 .. N - 1
              /\ RoundOf(r, s) = round[r] <=> s = dest(r)
              /\ RoundOf(s, r) = round[r] <=> s = source(r)
<1>1. /\ r \in 0 .. N - 1 /\ round[r] \in 1 .. N - 1 /\ N \in Nat
      /\ r + round[r] \in Nat /\ r + round[r] < 2 * N
      /\ r + N - round[r] \in Nat /\ r + N - round[r] < 2 * N
  BY DEF Ranks
<1>2. dest(r) = IF r + round[r] < N THEN r + round[r] ELSE r + round[r] - N
  BY <1>1, OneLap DEF dest
<1>3. source(r) = IF r < round[r] THEN r + N - round[r] ELSE r - round[r]
  BY <1>1, OneLap DEF source
<1>4. dest(r) \in Ranks \ {r} /\ source(r) \in Ranks \ {r}
  <2>1. dest(r) \in 0 .. N - 1 /\ dest(r) # r
    BY <1>1, <1>2
  <2>2. source(r) \in 0 .. N - 1 /\ source(r) # r
    BY <1>1, <1>3
  <2> QED BY <2>1, <2>2 DEF Ranks
<1>5. ASSUME NEW s \in Ranks \ {r}
      PROVE  /\ RoundOf(r, s) \in 1 .. N - 1 /\ RoundOf(s, r) \in 1 .. N - 1
             /\ RoundOf(r, s) = round[r] <=> s = dest(r)
             /\ RoundOf(s, r) = round[r] <=> s = source(r)
  <2>1. s \in 0 .. N - 1 /\ s # r
    BY DEF Ranks
  <2>2. /\ RoundOf(r, s) = IF r < s THEN s - r ELSE s - r + N
        /\ RoundOf(s, r) = IF s < r THEN r - s ELSE r - s + N
    BY DEF RoundOf
  <2>3. RoundOf(r, s) \in 1 .. N - 1 /\ RoundOf(s, r) \in 1 .. N - 1
    BY <1>1, <2>1, <2>2
  <2>4. RoundOf(r, s) = round[r] <=> s = dest(r)
    BY <1>1, <1>2, <2>1, <2>2
  <2>5. RoundOf(s, r) = round[r] <=> s = source(r)
    BY <1>1, <1>3, <2>1, <2>2
  <2> QED BY <2>3, <2>4, <2>5
<1> QED BY <1>4, <1>5

-----------------------------------------------------------------------------
(* Messages and lists of them. *)

LEMMA MessageType ==
  ASSUME ExchangeAssumption, NEW a \in Ranks, NEW b \in Ranks, NEW k \in 1 .. Len(Calls),
         NEW p \in Parts
  PROVE  /\ Msg(a, b, k, p) \in Messages
         /\ NumberOf(Msg(a, b, k, p)) = Number(k, p)
         /\ Number(k, p) = IF p = "data" THEN 2 * k + 1 ELSE 2 * k
BY DEF Msg, Messages, Values, A2A!Built, NumberOf, Number

LEMMA PartsOfCall ==
  ASSUME ExchangeAssumption, NEW k \in 1 .. Len(Calls)
  PROVE  /\ Calls[k] \in Kinds
         /\ "data" \in PartsOf(k) /\ PartsOf(k) \subseteq Parts
         /\ "shape" \in PartsOf(k) <=> Calls[k] = "array"
BY DEF ExchangeAssumption, PartsOf, Parts, Kinds

\* What is above lo and up to hi is one message, with what is above and below it.
LEMMA NumbersOfMessages ==
  ASSUME ExchangeAssumption, NEW a \in Ranks, NEW b \in Ranks, NEW lo \in Int, NEW hi \in Int,
         NEW m \in Between(a, b, lo, hi)
  PROVE  /\ m \in Messages /\ NumberOf(m) \in Int /\ lo < NumberOf(m) /\ NumberOf(m) <= hi
         /\ \E k \in 1 .. Len(Calls) : \E p \in PartsOf(k) :
              m = Msg(a, b, k, p) /\ NumberOf(m) = Number(k, p)
<1>0. PICK k \in 1 .. Len(Calls) : \E p \in PartsOf(k) :
        m = Msg(a, b, k, p) /\ lo < Number(k, p) /\ Number(k, p) <= hi
  BY DEF Between
<1>1. PICK p \in PartsOf(k) : m = Msg(a, b, k, p) /\ lo < Number(k, p) /\ Number(k, p) <= hi
  BY <1>0
<1>2. p \in Parts /\ k \in Int
  BY PartsOfCall
<1>3. NumberOf(m) = Number(k, p) /\ Number(k, p) \in Int
  BY <1>1, <1>2, MessageType
<1> QED BY <1>1, <1>3 DEF Between

\* Two parts of the calls with one number are one part of one call.
LEMMA NumbersDiffer ==
  ASSUME ExchangeAssumption, NEW a, NEW b, NEW k \in 1 .. Len(Calls), NEW p \in PartsOf(k),
         NEW l \in 1 .. Len(Calls), NEW q \in PartsOf(l), Number(k, p) = Number(l, q)
  PROVE  k = l /\ p = q
<1>1. p \in Parts /\ q \in Parts
  BY PartsOfCall
<1> QED BY <1>1 DEF Number, Parts

\* The next message goes to the end of the list ...
LEMMA ListsAppend ==
  ASSUME ExchangeAssumption, NEW a \in Ranks, NEW b \in Ranks, NEW lo \in Int, NEW hi \in Int,
         NEW k \in 1 .. Len(Calls), NEW p \in PartsOf(k), lo <= hi, hi < Number(k, p),
         \A l \in 1 .. Len(Calls) : \A q \in PartsOf(l) :
           hi < Number(l, q) /\ Number(l, q) <= Number(k, p) => Number(l, q) = Number(k, p),
         NEW c \in Seq(Messages), Lists(c, Between(a, b, lo, hi))
  PROVE  Lists(Append(c, Msg(a, b, k, p)), Between(a, b, lo, Number(k, p)))
<1> DEFINE m == Msg(a, b, k, p)
           d == Append(c, m)
           B == Between(a, b, lo, hi)
           E == Between(a, b, lo, Number(k, p))
<1>1. p \in Parts /\ m \in Messages /\ NumberOf(m) = Number(k, p) /\ Number(k, p) \in Int
  BY PartsOfCall, MessageType
<1>2. m \in E
  BY <1>1 DEF Between
<1>3. ASSUME NEW x \in B PROVE x \in E /\ NumberOf(x) \in Int /\ NumberOf(x) < Number(k, p)
  <2>0. PICK l \in 1 .. Len(Calls) : \E q \in PartsOf(l) :
          x = Msg(a, b, l, q) /\ NumberOf(x) = Number(l, q)
    BY NumbersOfMessages
  <2>1. PICK q \in PartsOf(l) : x = Msg(a, b, l, q) /\ NumberOf(x) = Number(l, q)
    BY <2>0
  <2>2. x \in Messages /\ NumberOf(x) \in Int /\ lo < NumberOf(x) /\ NumberOf(x) <= hi
    BY NumbersOfMessages
  <2> QED BY <1>1, <2>1, <2>2 DEF Between
<1>4. ASSUME NEW x \in E PROVE x \in B \/ x = m
  <2>0. PICK l \in 1 .. Len(Calls) : \E q \in PartsOf(l) :
          x = Msg(a, b, l, q) /\ lo < Number(l, q) /\ Number(l, q) <= Number(k, p)
    BY DEF Between
  <2>1. PICK q \in PartsOf(l) :
          x = Msg(a, b, l, q) /\ lo < Number(l, q) /\ Number(l, q) <= Number(k, p)
    BY <2>0
  <2>2. q \in Parts /\ Number(l, q) \in Int /\ x \in Messages
    BY <2>1, PartsOfCall, MessageType
  <2>3. CASE Number(l, q) <= hi
    BY <2>1, <2>2, <2>3 DEF Between
  <2>4. CASE Number(l, q) > hi
    <3>1. Number(l, q) = Number(k, p)
      BY <2>1, <2>2, <2>4
    <3> QED BY <2>1, <3>1, NumbersDiffer
  <2> QED BY <2>2, <2>3, <2>4
<1>5. /\ Len(d) = Len(c) + 1 /\ Len(c) \in Nat /\ d[Len(c) + 1] = m
      /\ \A i \in 1 .. Len(c) : d[i] = c[i]
  BY <1>1
<1> HIDE DEF m, d, B, E
<1>6. /\ \A i \in 1 .. Len(c) : c[i] \in B
      /\ \A x \in B : \E i \in 1 .. Len(c) : c[i] = x
      /\ \A i, j \in 1 .. Len(c) : i < j => NumberOf(c[i]) < NumberOf(c[j])
  BY DEF Lists, B
<1>7. \A i \in 1 .. Len(d) : d[i] \in E
  BY <1>2, <1>3, <1>5, <1>6
<1>8. \A x \in E : \E i \in 1 .. Len(d) : d[i] = x
  BY <1>4, <1>5, <1>6
<1>9. \A i, j \in 1 .. Len(d) : i < j => NumberOf(d[i]) < NumberOf(d[j])
  <2> SUFFICES ASSUME NEW i \in 1 .. Len(d), NEW j \in 1 .. Len(d), i < j
               PROVE  NumberOf(d[i]) < NumberOf(d[j])
    OBVIOUS
  <2>1. i \in 1 .. Len(c) /\ d[i] = c[i] /\ c[i] \in B
    BY <1>5, <1>6
  <2>2. CASE j = Len(c) + 1
    <3>1. NumberOf(d[j]) = Number(k, p)
      BY <1>1, <1>5, <2>2 DEF m
    <3> QED BY <1>3, <2>1, <3>1
  <2>3. CASE j # Len(c) + 1
    <3>1. j \in 1 .. Len(c) /\ d[j] = c[j]
      BY <1>5, <2>3
    <3> QED BY <1>6, <2>1, <3>1
  <2> QED BY <2>2, <2>3
<1> QED BY <1>7, <1>8, <1>9 DEF Lists, d, E, m

\* ... and the oldest one is taken from its head.
LEMMA ListsHead ==
  ASSUME ExchangeAssumption, NEW a \in Ranks, NEW b \in Ranks, NEW lo \in Int, NEW hi \in Int,
         NEW k \in 1 .. Len(Calls), NEW p \in PartsOf(k), lo < Number(k, p),
         \A l \in 1 .. Len(Calls) : \A q \in PartsOf(l) :
           lo < Number(l, q) => Number(k, p) <= Number(l, q),
         NEW c \in Seq(Messages), c # <<>>, Lists(c, Between(a, b, lo, hi))
  PROVE  /\ Head(c) = Msg(a, b, k, p) /\ Number(k, p) <= hi
         /\ Lists(Tail(c), Between(a, b, Number(k, p), hi))
<1> DEFINE m == Msg(a, b, k, p)
           d == Tail(c)
           B == Between(a, b, lo, hi)
           E == Between(a, b, Number(k, p), hi)
<1>1. p \in Parts /\ m \in Messages /\ NumberOf(m) = Number(k, p) /\ Number(k, p) \in Int
  BY PartsOfCall, MessageType
<1>2. /\ Len(c) \in Nat /\ Len(c) >= 1 /\ Head(c) = c[1] /\ Len(d) = Len(c) - 1
      /\ \A i \in 1 .. Len(d) : d[i] = c[i + 1]
  OBVIOUS
<1>3. /\ \A i \in 1 .. Len(c) : c[i] \in B
      /\ \A x \in B : \E i \in 1 .. Len(c) : c[i] = x
      /\ \A i, j \in 1 .. Len(c) : i < j => NumberOf(c[i]) < NumberOf(c[j])
  BY DEF Lists
<1>4. ASSUME NEW x \in B
      PROVE  /\ NumberOf(x) \in Int /\ Number(k, p) <= NumberOf(x) /\ NumberOf(x) <= hi
             /\ NumberOf(x) = Number(k, p) => x = m
             /\ NumberOf(x) # Number(k, p) => x \in E
  <2>0. PICK l \in 1 .. Len(Calls) : \E q \in PartsOf(l) :
          x = Msg(a, b, l, q) /\ NumberOf(x) = Number(l, q)
    BY NumbersOfMessages
  <2>1. PICK q \in PartsOf(l) : x = Msg(a, b, l, q) /\ NumberOf(x) = Number(l, q)
    BY <2>0
  <2>2. x \in Messages /\ NumberOf(x) \in Int /\ lo < NumberOf(x) /\ NumberOf(x) <= hi
    BY NumbersOfMessages
  <2>3. Number(k, p) <= NumberOf(x)
    BY <2>1, <2>2
  <2>4. NumberOf(x) = Number(k, p) => x = m
    BY <2>1, NumbersDiffer
  <2>5. NumberOf(x) # Number(k, p) => x \in E
    BY <1>1, <2>1, <2>2, <2>3 DEF Between
  <2> QED BY <2>2, <2>3, <2>4, <2>5
<1>5. ASSUME NEW x \in E PROVE x \in B /\ NumberOf(x) \in Int /\ Number(k, p) < NumberOf(x)
  <2>1. /\ x \in Messages /\ NumberOf(x) \in Int /\ Number(k, p) < NumberOf(x) /\ NumberOf(x) <= hi
        /\ \E l \in 1 .. Len(Calls) : \E q \in PartsOf(l) :
              x = Msg(a, b, l, q) /\ NumberOf(x) = Number(l, q)
    BY <1>1, NumbersOfMessages
  <2> QED BY <1>1, <2>1 DEF Between
<1>6. Number(k, p) <= hi
  BY <1>1, <1>2, <1>3, <1>4
<1>7. m \in B
  BY <1>1, <1>6 DEF Between
<1> HIDE DEF m, d, B, E
<1>8. PICK i \in 1 .. Len(c) : c[i] = m
  BY <1>3, <1>7
<1>9. i = 1
  <2>1. 1 \in 1 .. Len(c) /\ c[1] \in B
    BY <1>2, <1>3
  <2>2. NumberOf(c[1]) < NumberOf(c[i]) => i = 1
    BY <1>1, <1>4, <1>8, <2>1 DEF m
  <2> QED BY <1>3, <2>1, <2>2
<1>10. c[1] = m
  BY <1>8, <1>9
<1>11. \A j \in 1 .. Len(d) : d[j] \in E
  <2> SUFFICES ASSUME NEW j \in 1 .. Len(d) PROVE d[j] \in E
    OBVIOUS
  <2>1. j + 1 \in 1 .. Len(c) /\ 1 \in 1 .. Len(c) /\ 1 < j + 1 /\ d[j] = c[j + 1]
    BY <1>2
  <2>2. NumberOf(c[1]) < NumberOf(c[j + 1])
    BY <1>3, <2>1
  <2> QED BY <1>1, <1>3, <1>4, <1>10, <2>1, <2>2 DEF m
<1>12. \A x \in E : \E j \in 1 .. Len(d) : d[j] = x
  <2> SUFFICES ASSUME NEW x \in E PROVE \E j \in 1 .. Len(d) : d[j] = x
    OBVIOUS
  <2>1. PICK j \in 1 .. Len(c) : c[j] = x
    BY <1>3, <1>5
  <2>2. j # 1
    BY <1>1, <1>5, <1>10, <2>1 DEF m
  <2>3. j - 1 \in 1 .. Len(d) /\ d[j - 1] = c[j]
    BY <1>2, <2>1, <2>2
  <2> QED BY <2>1, <2>3
<1>13. \A j, l \in 1 .. Len(d) : j < l => NumberOf(d[j]) < NumberOf(d[l])
  <2> SUFFICES ASSUME NEW j \in 1 .. Len(d), NEW l \in 1 .. Len(d), j < l
               PROVE  NumberOf(d[j]) < NumberOf(d[l])
    OBVIOUS
  <2>1. /\ j + 1 \in 1 .. Len(c) /\ l + 1 \in 1 .. Len(c) /\ j + 1 < l + 1
        /\ d[j] = c[j + 1] /\ d[l] = c[l + 1]
    BY <1>2
  <2> QED BY <1>3, <2>1
<1> QED BY <1>2, <1>6, <1>10, <1>11, <1>12, <1>13 DEF Lists, d, E, m

-----------------------------------------------------------------------------
(* The ends of a channel. *)

LEMMA EndsType ==
  ASSUME ExchangeAssumption, TypeOK, NEW a \in Ranks, NEW b \in Ranks
  PROVE  /\ SentUpTo(a, b) \in Int /\ SentUpTo(a, b) <= 2 * call[a] + 1
         /\ TakenUpTo(a, b) \in Int /\ TakenUpTo(a, b) <= 2 * call[b] + 1
BY DEF TypeOK, ExchangeAssumption, SentUpTo, TakenUpTo

\* A rank that is in a round is in one of the calls and has a neighbour each way.
LEMMA InRound ==
  ASSUME ExchangeAssumption, TypeOK, StepsFit, NEW r \in Ranks, step[r] \notin {"out", "own"}
  PROVE  /\ call[r] \in 1 .. Len(Calls) /\ Kind(r) \in Kinds
         /\ dest(r) \in Ranks \ {r} /\ source(r) \in Ranks \ {r}
         /\ round[r] \in 1 .. N - 1
         /\ \A s \in Ranks \ {r} :
              /\ RoundOf(r, s) \in 1 .. N - 1 /\ RoundOf(s, r) \in 1 .. N - 1
              /\ RoundOf(r, s) = round[r] <=> s = dest(r)
              /\ RoundOf(s, r) = round[r] <=> s = source(r)
<1>1. N \in Nat \ {0} /\ round \in [Ranks -> 1 .. N] /\ round[r] < N
  BY DEF ExchangeAssumption, TypeOK, StepsFit
<1>2. call[r] \in 1 .. Len(Calls)
  BY DEF TypeOK, StepsFit, ExchangeAssumption
<1>3. Kind(r) \in Kinds
  BY <1>2, PartsOfCall DEF Kind
<1> QED BY <1>1, <1>2, <1>3, Ring

Neighbours(a, b) == a \in Ranks /\ b \in Ranks /\ a # b

LEMMA RoundsOfOthers ==
  ASSUME ExchangeAssumption, NEW a, NEW b, Neighbours(a, b)
  PROVE  RoundOf(a, b) \in 1 .. N - 1
BY DEF Neighbours, RoundOf, Ranks, ExchangeAssumption

\* Steps that neither send nor receive.
Quiet ==
  /\ chan' = chan
  /\ \A a, b \in Ranks :
       a # b => SentUpTo(a, b)' = SentUpTo(a, b) /\ TakenUpTo(a, b)' = TakenUpTo(a, b)

LEMMA QuietSteps ==
  ASSUME ExchangeAssumption, TypeOK, StepsFit, NEW r \in Ranks,
         Begin(r) \/ Wait(r) \/ OwnPart(r)
  PROVE  Quiet
<1> SUFFICES ASSUME NEW a \in Ranks, NEW b \in Ranks, a # b
             PROVE  SentUpTo(a, b)' = SentUpTo(a, b) /\ TakenUpTo(a, b)' = TakenUpTo(a, b)
  BY DEF Begin, Wait, OwnPart, Quiet
<1>1. RoundOf(a, b) \in 1 .. N - 1 /\ N \in Nat
  BY RoundsOfOthers DEF Neighbours, ExchangeAssumption
<1>2. CASE Begin(r)
  <2>1. /\ step[r] = "out" /\ call' = [call EXCEPT ![r] = @ + 1] /\ round' = [round EXCEPT ![r] = 1]
        /\ step' = [step EXCEPT ![r] = IF 1 < N THEN "send" ELSE "own"]
    BY <1>2 DEF Begin, Goto, AfterRound
  <2>2. /\ call'[r] = call[r] + 1 /\ round'[r] = 1 /\ step'[r] = IF 1 < N THEN "send" ELSE "own"
        /\ \A s \in Ranks \ {r} : call'[s] = call[s] /\ round'[s] = round[s] /\ step'[s] = step[s]
        /\ call[r] \in Int
    BY <2>1 DEF TypeOK, ExchangeAssumption
  <2>3. SentUpTo(a, b)' = SentUpTo(a, b)
    BY <1>1, <2>1, <2>2 DEF SentUpTo
  <2>4. TakenUpTo(a, b)' = TakenUpTo(a, b)
    BY <1>1, <2>1, <2>2 DEF TakenUpTo
  <2> QED BY <2>3, <2>4
<1>3. CASE Wait(r)
  <2>1. /\ step[r] = "wait" /\ call' = call /\ round' = [round EXCEPT ![r] = @ + 1]
        /\ step' = [step EXCEPT ![r] = IF round[r] + 1 < N THEN "send" ELSE "own"]
    BY <1>3 DEF Wait, Goto, AfterRound
  <2>2. round[r] \in 1 .. N - 1
    BY <2>1, InRound
  <2>3. /\ round'[r] = round[r] + 1 /\ step'[r] = IF round[r] + 1 < N THEN "send" ELSE "own"
        /\ \A s \in Ranks \ {r} : round'[s] = round[s] /\ step'[s] = step[s]
    BY <2>1 DEF TypeOK
  <2>4. SentUpTo(a, b)' = SentUpTo(a, b)
    BY <1>1, <2>1, <2>2, <2>3 DEF SentUpTo
  <2>5. TakenUpTo(a, b)' = TakenUpTo(a, b)
    BY <1>1, <2>1, <2>2, <2>3 DEF TakenUpTo
  <2> QED BY <2>4, <2>5
<1>4. CASE OwnPart(r)
  <2>1. step[r] = "own" /\ call' = call /\ round' = round /\ step' = [step EXCEPT ![r] = "out"]
    BY <1>4 DEF OwnPart, Goto
  <2> QED BY <1>1, <2>1 DEF TypeOK, SentUpTo, TakenUpTo
<1> QED BY <1>2, <1>3, <1>4

\* Steps that send part p.
Sends(r, p) ==
  /\ Post(r, p)
  /\ \A a, b \in Ranks : a # b =>
       /\ SentUpTo(a, b)' = IF a = r /\ b = dest(r) THEN Number(call[r], p) ELSE SentUpTo(a, b)
       /\ TakenUpTo(a, b)' = TakenUpTo(a, b)
  /\ p \in PartsOf(call[r]) /\ SentUpTo(r, dest(r)) < Number(call[r], p)
  /\ \A l \in 1 .. Len(Calls) : \A q \in PartsOf(l) :
       SentUpTo(r, dest(r)) < Number(l, q) /\ Number(l, q) <= Number(call[r], p) =>
         Number(l, q) = Number(call[r], p)

\* The numbers between the end of a channel and the next message belong to no message.
LEMMA Gaps ==
  ASSUME ExchangeAssumption, NEW k \in 1 .. Len(Calls)
  PROVE  /\ Number(k, "data") = 2 * k + 1 /\ Number(k, "shape") = 2 * k
         /\ \A l \in 1 .. Len(Calls) : \A q \in PartsOf(l) :
              /\ Number(l, q) \in Int
              /\ 2 * k - 1 < Number(l, q) => 2 * k <= Number(l, q)
              /\ 2 * k - 1 < Number(l, q) /\ Calls[k] # "array" => 2 * k + 1 <= Number(l, q)
              /\ 2 * k < Number(l, q) => 2 * k + 1 <= Number(l, q)
<1> SUFFICES ASSUME NEW l \in 1 .. Len(Calls), NEW q \in PartsOf(l)
             PROVE  /\ Number(l, q) \in Int
                    /\ 2 * k - 1 < Number(l, q) => 2 * k <= Number(l, q)
                    /\ 2 * k - 1 < Number(l, q) /\ Calls[k] # "array" => 2 * k + 1 <= Number(l, q)
                    /\ 2 * k < Number(l, q) => 2 * k + 1 <= Number(l, q)
  BY DEF Number
<1>1. q \in Parts /\ (q = "shape" => Calls[l] = "array")
  BY PartsOfCall
<1>2. Number(l, q) = IF q = "data" THEN 2 * l + 1 ELSE 2 * l
  BY DEF Number
<1>3. k \in Int /\ l \in Int
  OBVIOUS
<1>4. Calls[k] # "array" => Number(l, q) # 2 * k
  BY <1>1, <1>2, <1>3 DEF Parts
<1>5. Number(l, q) \in Int
  BY <1>2, <1>3
<1> QED BY <1>3, <1>4, <1>5

LEMMA SendSteps ==
  ASSUME ExchangeAssumption, TypeOK, StepsFit, NEW r \in Ranks
  PROVE  /\ Isend(r) \/ IsendBody(r) => Sends(r, "data")
         /\ SendShape(r) => Sends(r, "shape")
<1> SUFFICES ASSUME Isend(r) \/ SendShape(r) \/ IsendBody(r)
             PROVE  Sends(r, IF SendShape(r) THEN "shape" ELSE "data")
  <2>1. ~(SendShape(r) /\ (Isend(r) \/ IsendBody(r)))
    BY DEF Isend, SendShape, IsendBody
  <2> QED BY <2>1
<1> DEFINE p == IF SendShape(r) THEN "shape" ELSE "data"
           k == call[r]
<1>1. /\ step[r] \in {"send", "shape"} /\ Post(r, p) /\ call' = call /\ round' = round
      /\ step' = [step EXCEPT ![r] = IF SendShape(r) THEN "shape" ELSE "recv"]
      /\ step[r] = "send" \/ Kind(r) = "array"
      /\ SendShape(r) => step[r] = "send" /\ Kind(r) = "array"
      /\ ~SendShape(r) /\ step[r] = "send" => Kind(r) = "flat"
  BY DEF Isend, SendShape, IsendBody, Goto, StepsFit
<1>2. /\ k \in 1 .. Len(Calls) /\ Kind(r) \in Kinds /\ round[r] \in 1 .. N - 1
      /\ dest(r) \in Ranks \ {r}
      /\ \A s \in Ranks \ {r} :
           /\ RoundOf(r, s) \in 1 .. N - 1 /\ RoundOf(s, r) \in 1 .. N - 1
           /\ RoundOf(r, s) = round[r] <=> s = dest(r)
  BY <1>1, InRound
<1>3. k \in Int /\ Number(k, "data") = 2 * k + 1 /\ Number(k, "shape") = 2 * k
  BY <1>2, Gaps
<1>4. SentUpTo(r, dest(r)) = IF step[r] = "shape" THEN 2 * k ELSE 2 * k - 1
  BY <1>1, <1>2 DEF SentUpTo
<1>5. ASSUME NEW a \in Ranks, NEW b \in Ranks, a # b
      PROVE  /\ SentUpTo(a, b)' = IF a = r /\ b = dest(r) THEN Number(k, p) ELSE SentUpTo(a, b)
             /\ TakenUpTo(a, b)' = TakenUpTo(a, b)
  <2>1. CASE a # r
    BY <1>1, <1>2, <2>1 DEF TypeOK, SentUpTo, TakenUpTo
  <2>2. CASE a = r
    <3>1. TakenUpTo(a, b)' = TakenUpTo(a, b)
      BY <1>1, <2>2 DEF TypeOK, TakenUpTo
    <3>2. CASE b = dest(r)
      <4>1. step'[a] = IF SendShape(r) THEN "shape" ELSE "recv"
        BY <1>1, <2>2 DEF TypeOK
      <4>2. RoundOf(a, b) = round[a] /\ round[a] \in Int
        BY <1>2, <2>2, <3>2
      <4>3. SentUpTo(a, b)' = IF SendShape(r) THEN 2 * k ELSE 2 * k + 1
        BY <1>1, <2>2, <4>1, <4>2 DEF SentUpTo
      <4> QED BY <1>3, <2>2, <3>1, <3>2, <4>3
    <3>3. CASE b # dest(r)
      <4>1. step'[a] \in {"shape", "recv"} /\ step[a] \in {"send", "shape"}
        BY <1>1, <2>2 DEF TypeOK
      <4>2. b \in Ranks \ {r} /\ round'[a] = round[a] /\ call'[a] = call[a]
        BY <1>1, <1>5, <2>2
      <4>3. RoundOf(a, b) # round[a]
        BY <1>2, <2>2, <3>3, <4>2
      <4>4. SentUpTo(a, b)' = SentUpTo(a, b)
        BY <4>1, <4>2, <4>3 DEF SentUpTo
      <4> QED BY <3>1, <3>3, <4>4
    <3> QED BY <3>2, <3>3
  <2> QED BY <2>1, <2>2
<1>6. p \in PartsOf(k)
  BY <1>1, <1>2, PartsOfCall DEF Kind
<1>7. SentUpTo(r, dest(r)) < Number(k, p)
  BY <1>1, <1>3, <1>4
<1>8. ASSUME NEW l \in 1 .. Len(Calls), NEW q \in PartsOf(l),
             SentUpTo(r, dest(r)) < Number(l, q), Number(l, q) <= Number(k, p)
      PROVE  Number(l, q) = Number(k, p)
  <2>1. /\ Number(l, q) \in Int
        /\ 2 * k - 1 < Number(l, q) => 2 * k <= Number(l, q)
        /\ 2 * k - 1 < Number(l, q) /\ Calls[k] # "array" => 2 * k + 1 <= Number(l, q)
        /\ 2 * k < Number(l, q) => 2 * k + 1 <= Number(l, q)
    BY <1>2, Gaps
  <2>2. ~SendShape(r) /\ step[r] = "send" => Calls[k] # "array"
    BY <1>1 DEF Kind
  <2> QED BY <1>1, <1>3, <1>4, <1>8, <2>1, <2>2
<1> QED BY <1>1, <1>5, <1>6, <1>7, <1>8 DEF Sends

\* Steps that receive part p.
Takes(r, p) ==
  /\ Take(r)
  /\ \A a, b \in Ranks : a # b =>
       /\ SentUpTo(a, b)' = SentUpTo(a, b)
       /\ TakenUpTo(a, b)' = IF a = source(r) /\ b = r THEN Number(call[r], p) ELSE TakenUpTo(a, b)

\* The next message from the source is the expected one.
LEMMA NextMessage ==
  ASSUME ExchangeAssumption, TypeOK, StepsFit, ChannelsHold, NEW r \in Ranks,
         step[r] \in {"recv", "body"}, Incoming(r) # <<>>
  PROVE  /\ Head(Incoming(r)) = Msg(source(r), r, call[r], Expected(r))
         /\ Number(call[r], Expected(r)) <= SentUpTo(source(r), r)
         /\ Lists(Tail(Incoming(r)),
                  Between(source(r), r, Number(call[r], Expected(r)), SentUpTo(source(r), r)))
<1> DEFINE s == source(r)
           k == call[r]
           p == Expected(r)
           lo == TakenUpTo(s, r)
<1>1. /\ k \in 1 .. Len(Calls) /\ Kind(r) \in Kinds /\ round[r] \in 1 .. N - 1
      /\ s \in Ranks \ {r} /\ RoundOf(s, r) = round[r]
  BY InRound
<1>2. k \in Int /\ Number(k, "data") = 2 * k + 1 /\ Number(k, "shape") = 2 * k
  BY <1>1, Gaps
<1>3. lo = IF step[r] = "body" THEN 2 * k ELSE 2 * k - 1
  BY <1>1 DEF TakenUpTo
<1>4. lo \in Int /\ SentUpTo(s, r) \in Int
  BY <1>1, EndsType
<1>5. p \in PartsOf(k) /\ lo < Number(k, p)
  BY <1>1, <1>2, <1>3, PartsOfCall DEF Expected, Kind
<1>6. ASSUME NEW l \in 1 .. Len(Calls), NEW q \in PartsOf(l), lo < Number(l, q)
      PROVE  Number(k, p) <= Number(l, q)
  <2>1. /\ Number(l, q) \in Int
        /\ 2 * k - 1 < Number(l, q) => 2 * k <= Number(l, q)
        /\ 2 * k - 1 < Number(l, q) /\ Calls[k] # "array" => 2 * k + 1 <= Number(l, q)
        /\ 2 * k < Number(l, q) => 2 * k + 1 <= Number(l, q)
    BY <1>1, Gaps
  <2> QED BY <1>2, <1>3, <1>6, <2>1 DEF Expected, Kind
<1>7. Incoming(r) \in Seq(Messages) /\ Lists(Incoming(r), Between(s, r, lo, SentUpTo(s, r)))
  BY <1>1 DEF Incoming, TypeOK, ChannelsHold
<1> HIDE DEF lo, s, k, p
<1>8. s \in Ranks
  BY <1>1
<1> QED BY <1>1, <1>4, <1>5, <1>6, <1>7, <1>8, ListsHead DEF s, k, p

LEMMA TakeSteps ==
  ASSUME ExchangeAssumption, TypeOK, StepsFit, NEW r \in Ranks,
         RecvShape(r) \/ Recv(r) \/ RecvBody(r)
  PROVE  Takes(r, Expected(r))
<1> DEFINE k == call[r]
<1>1. /\ step[r] \in {"recv", "body"} /\ Take(r) /\ call' = call /\ round' = round
      /\ step' = [step EXCEPT ![r] = IF RecvShape(r) THEN "body" ELSE "wait"]
      /\ Expected(r) = IF RecvShape(r) THEN "shape" ELSE "data"
  BY DEF RecvShape, Recv, RecvBody, Goto, Expected
<1>2. /\ k \in 1 .. Len(Calls) /\ round[r] \in 1 .. N - 1
      /\ source(r) \in Ranks \ {r}
      /\ \A s \in Ranks \ {r} :
           /\ RoundOf(s, r) \in 1 .. N - 1
           /\ RoundOf(s, r) = round[r] <=> s = source(r)
  BY <1>1, InRound
<1>3. k \in Int /\ Number(k, "data") = 2 * k + 1 /\ Number(k, "shape") = 2 * k
  BY <1>2, Gaps
<1>4. ASSUME NEW a \in Ranks, NEW b \in Ranks, a # b
      PROVE  /\ SentUpTo(a, b)' = SentUpTo(a, b)
             /\ TakenUpTo(a, b)' = IF a = source(r) /\ b = r THEN Number(k, Expected(r))
                                   ELSE TakenUpTo(a, b)
  <2>1. SentUpTo(a, b)' = SentUpTo(a, b)
    BY <1>1 DEF TypeOK, SentUpTo
  <2>2. CASE b # r
    BY <1>1, <1>2, <2>1, <2>2 DEF TypeOK, TakenUpTo
  <2>3. CASE b = r
    <3>1. CASE a = source(r)
      <4>1. step'[b] = IF RecvShape(r) THEN "body" ELSE "wait"
        BY <1>1, <2>3 DEF TypeOK
      <4>2. RoundOf(a, b) = round[b] /\ round[b] \in Int
        BY <1>2, <2>3, <3>1
      <4>3. TakenUpTo(a, b)' = IF RecvShape(r) THEN 2 * k ELSE 2 * k + 1
        BY <1>1, <2>3, <4>1, <4>2 DEF TakenUpTo
      <4> QED BY <1>1, <1>3, <2>1, <2>3, <3>1, <4>3
    <3>2. CASE a # source(r)
      <4>1. step'[b] \in {"body", "wait"} /\ step[b] \in {"recv", "body"}
        BY <1>1, <2>3 DEF TypeOK
      <4>2. a \in Ranks \ {r} /\ round'[b] = round[b] /\ call'[b] = call[b]
        BY <1>1, <1>4, <2>3
      <4>3. RoundOf(a, b) # round[b]
        BY <1>2, <2>3, <3>2, <4>2
      <4>4. TakenUpTo(a, b)' = TakenUpTo(a, b)
        BY <4>1, <4>2, <4>3 DEF TakenUpTo
      <4> QED BY <2>1, <3>2, <4>4
    <3> QED BY <3>1, <3>2
  <2> QED BY <2>2, <2>3
<1> QED BY <1>1, <1>4 DEF Takes

-----------------------------------------------------------------------------
(* What is in the channels stays what is between their ends. *)

LEMMA QuietChannels ==
  ASSUME Quiet, ChannelsHold, NothingTakenUnsent
  PROVE  ChannelsHold' /\ NothingTakenUnsent'
<1>1. ASSUME NEW a \in Ranks, NEW b \in Ranks
      PROVE  IF a = b THEN chan'[<<a, b>>] = <<>>
             ELSE Lists(chan'[<<a, b>>], Between(a, b, TakenUpTo(a, b)', SentUpTo(a, b)'))
  BY DEF Quiet, ChannelsHold
<1> QED BY <1>1 DEF Quiet, ChannelsHold, NothingTakenUnsent

LEMMA SendChannels ==
  ASSUME ExchangeAssumption, TypeOK, StepsFit, ChannelsHold, NothingTakenUnsent,
         NEW r \in Ranks, NEW p, Sends(r, p), step[r] \notin {"out", "own"}
  PROVE  /\ ChannelsHold' /\ NothingTakenUnsent'
         /\ chan' \in [Ranks \X Ranks -> Seq(Messages)]
<1> DEFINE d == dest(r)
           k == call[r]
           c == chan[<<r, d>>]
<1>1. k \in 1 .. Len(Calls) /\ d \in Ranks /\ d # r
  BY InRound
<1>2. p \in PartsOf(k) /\ p \in Parts /\ SentUpTo(r, d) < Number(k, p) /\ Number(k, p) \in Int
  BY <1>1, PartsOfCall, Gaps DEF Sends
<1>3. TakenUpTo(r, d) \in Int /\ SentUpTo(r, d) \in Int /\ TakenUpTo(r, d) <= SentUpTo(r, d)
  BY <1>1, EndsType DEF NothingTakenUnsent
<1>4. c \in Seq(Messages) /\ Lists(c, Between(r, d, TakenUpTo(r, d), SentUpTo(r, d)))
  BY <1>1 DEF TypeOK, ChannelsHold
<1>5. Message(r, p) = Msg(r, d, k, p) /\ Msg(r, d, k, p) \in Messages
  BY <1>1, <1>2, MessageType DEF Message, build_send, Msg, A2A!Built
<1>6. Lists(Append(c, Message(r, p)), Between(r, d, TakenUpTo(r, d), Number(k, p)))
  <2>1. \A l \in 1 .. Len(Calls) : \A q \in PartsOf(l) :
          SentUpTo(r, d) < Number(l, q) /\ Number(l, q) <= Number(k, p) =>
            Number(l, q) = Number(k, p)
    BY DEF Sends
  <2> HIDE DEF c, k, d
  <2> QED BY <1>1, <1>2, <1>3, <1>4, <1>5, <2>1, ListsAppend
<1>7. /\ chan' \in [Ranks \X Ranks -> Seq(Messages)]
      /\ chan'[<<r, d>>] = Append(c, Message(r, p))
      /\ \A a, b \in Ranks : ~(a = r /\ b = d) => chan'[<<a, b>>] = chan[<<a, b>>]
  <2>1. chan' = [chan EXCEPT ![<<r, d>>] = Append(c, Message(r, p))]
    BY DEF Sends, Post
  <2>2. Append(c, Message(r, p)) \in Seq(Messages)
    BY <1>4, <1>5
  <2>3. <<r, d>> \in Ranks \X Ranks /\ chan \in [Ranks \X Ranks -> Seq(Messages)]
    BY <1>1 DEF TypeOK
  <2> HIDE DEF c, d
  <2> QED BY <2>1, <2>2, <2>3
<1>8. ASSUME NEW a \in Ranks, NEW b \in Ranks
      PROVE  /\ IF a = b THEN chan'[<<a, b>>] = <<>>
                ELSE Lists(chan'[<<a, b>>], Between(a, b, TakenUpTo(a, b)', SentUpTo(a, b)'))
             /\ a # b => TakenUpTo(a, b)' <= SentUpTo(a, b)'
  <2>1. CASE a = r /\ b = d
    <3>1. SentUpTo(a, b)' = Number(k, p) /\ TakenUpTo(a, b)' = TakenUpTo(a, b)
      BY <1>1, <2>1 DEF Sends
    <3>2. Lists(chan'[<<r, d>>], Between(r, d, TakenUpTo(r, d), Number(k, p)))
      BY <1>6, <1>7
    <3>3. TakenUpTo(r, d) <= Number(k, p)
      BY <1>2, <1>3
    <3> HIDE DEF d, k, c
    <3> QED BY <1>1, <2>1, <3>1, <3>2, <3>3
  <2>2. CASE ~(a = r /\ b = d)
    <3>1. a # b => SentUpTo(a, b)' = SentUpTo(a, b) /\ TakenUpTo(a, b)' = TakenUpTo(a, b)
      BY <2>2 DEF Sends
    <3> QED BY <1>7, <2>2, <3>1 DEF ChannelsHold, NothingTakenUnsent
  <2> QED BY <2>1, <2>2
<1> QED BY <1>7, <1>8 DEF ChannelsHold, NothingTakenUnsent

LEMMA TakeChannels ==
  ASSUME ExchangeAssumption, TypeOK, StepsFit, ChannelsHold, NothingTakenUnsent,
         NEW r \in Ranks, Takes(r, Expected(r)), step[r] \in {"recv", "body"}, Incoming(r) # <<>>
  PROVE  /\ ChannelsHold' /\ NothingTakenUnsent'
         /\ chan' \in [Ranks \X Ranks -> Seq(Messages)]
<1> DEFINE s == source(r)
           c == chan[<<s, r>>]
           n == Number(call[r], Expected(r))
<1>1. s \in Ranks /\ s # r
  BY InRound
<1>2. n <= SentUpTo(s, r) /\ Lists(Tail(c), Between(s, r, n, SentUpTo(s, r)))
  BY NextMessage DEF Incoming
<1>3. c \in Seq(Messages) /\ c # <<>> /\ Tail(c) \in Seq(Messages)
  <2>1. c \in Seq(Messages) /\ c # <<>>
    BY <1>1 DEF TypeOK, Incoming
  <2> QED BY <2>1
<1>4. /\ chan' \in [Ranks \X Ranks -> Seq(Messages)]
      /\ chan'[<<s, r>>] = Tail(c)
      /\ \A a, b \in Ranks : ~(a = s /\ b = r) => chan'[<<a, b>>] = chan[<<a, b>>]
  <2>1. chan' = [chan EXCEPT ![<<s, r>>] = Tail(c)]
    BY DEF Takes, Take
  <2>2. <<s, r>> \in Ranks \X Ranks /\ chan \in [Ranks \X Ranks -> Seq(Messages)]
    BY <1>1 DEF TypeOK
  <2> HIDE DEF c, s
  <2> QED BY <1>3, <2>1, <2>2
<1>5. ASSUME NEW a \in Ranks, NEW b \in Ranks
      PROVE  /\ IF a = b THEN chan'[<<a, b>>] = <<>>
                ELSE Lists(chan'[<<a, b>>], Between(a, b, TakenUpTo(a, b)', SentUpTo(a, b)'))
             /\ a # b => TakenUpTo(a, b)' <= SentUpTo(a, b)'
  <2>1. CASE a = s /\ b = r
    <3>1. TakenUpTo(a, b)' = n /\ SentUpTo(a, b)' = SentUpTo(a, b)
      BY <1>1, <2>1 DEF Takes
    <3> QED BY <1>1, <1>2, <1>4, <2>1, <3>1
  <2>2. CASE ~(a = s /\ b = r)
    <3>1. a # b => SentUpTo(a, b)' = SentUpTo(a, b) /\ TakenUpTo(a, b)' = TakenUpTo(a, b)
      BY <2>2 DEF Takes
    <3> QED BY <1>4, <2>2, <3>1 DEF ChannelsHold, NothingTakenUnsent
  <2> QED BY <2>1, <2>2
<1> QED BY <1>4, <1>5 DEF ChannelsHold, NothingTakenUnsent

-----------------------------------------------------------------------------
(* What ranks have been given. *)

\* Steps that hand nothing to process_recv, and do not enter or leave a call.
LEMMA GotStays ==
  ASSUME GotArrived, got' = got, call' = call,
         \A r \in Ranks : step'[r] = "out" <=> step[r] = "out",
         \A a, b \in Ranks : a # b =>
           (TakenUpTo(a, b)' = 2 * call[b] + 1 <=> TakenUpTo(a, b) = 2 * call[b] + 1)
  PROVE  GotArrived'
<1>1. ASSUME NEW r \in Ranks PROVE Arrived(r)' = Arrived(r)
  BY <1>1 DEF Arrived
<1> QED BY <1>1 DEF GotArrived

\* Other ranks are not affected by a step of r.
LEMMA ArrivedElsewhere ==
  ASSUME NEW r \in Ranks, NEW s \in Ranks, s # r, call'[s] = call[s], step'[s] = step[s],
         \A a \in Ranks : a # s => TakenUpTo(a, s)' = TakenUpTo(a, s)
  PROVE  Arrived(s)' = Arrived(s)
BY DEF Arrived

LEMMA GotAfterReceive ==
  ASSUME ExchangeAssumption, TypeOK, StepsFit, ChannelsHold, GotArrived, NEW r \in Ranks,
         Recv(r) \/ RecvBody(r)
  PROVE  GotArrived'
<1> DEFINE s == source(r)
           k == call[r]
           v == Whole(A2A!Built(s, r, k))
<1>1. /\ step[r] \in {"recv", "body"} /\ Incoming(r) # <<>> /\ call' = call
      /\ step' = [step EXCEPT ![r] = "wait"] /\ Expected(r) = "data"
      /\ got' = [got EXCEPT ![r] = [x \in DOMAIN @ \cup {s} |->
                   IF x = s THEN Received(r, IF Recv(r) THEN Head(Incoming(r)).value ELSE size[r])
                   ELSE @[x]]]
  BY DEF Recv, RecvBody, Goto, Expected, process_recv
<1>2. s \in Ranks \ {r} /\ k \in 1 .. Len(Calls)
  BY <1>1, InRound
<1>3. Head(Incoming(r)).value = A2A!Built(s, r, k)
  BY <1>1, NextMessage DEF Msg
<1>4. RecvBody(r) => size[r] = A2A!Built(s, r, k)
  BY DEF StepsFit, RecvBody
<1>5. Received(r, IF Recv(r) THEN Head(Incoming(r)).value ELSE size[r]) = v
  BY <1>3, <1>4 DEF Received, Whole
<1>6. Takes(r, "data") /\ Number(k, "data") = 2 * k + 1
  BY <1>1, <1>2, TakeSteps, Gaps
<1>7. ASSUME NEW q \in Ranks, q # r PROVE Arrived(q)' = Arrived(q) /\ got'[q] = got[q]
  <2>1. call'[q] = call[q] /\ step'[q] = step[q] /\ got'[q] = got[q]
    BY <1>1, <1>7 DEF TypeOK
  <2>2. \A a \in Ranks : a # q => TakenUpTo(a, q)' = TakenUpTo(a, q)
    BY <1>6, <1>7 DEF Takes
  <2> QED BY <1>7, <2>1, <2>2, ArrivedElsewhere
<1>8. Arrived(r)' = Arrived(r) \cup {s}
  <2>1. \A a \in Ranks : a # r =>
          TakenUpTo(a, r)' = IF a = s THEN 2 * k + 1 ELSE TakenUpTo(a, r)
    BY <1>6 DEF Takes
  <2>2. step'[r] # "out" /\ step[r] # "out" /\ call'[r] = k
    BY <1>1 DEF TypeOK
  <2> QED BY <1>2, <2>1, <2>2 DEF Arrived
<1>9. got[r] = [x \in Arrived(r) |-> Whole(A2A!Built(x, r, k))]
  BY DEF GotArrived
<1>10. got'[r] = [x \in Arrived(r)' |-> Whole(A2A!Built(x, r, call'[r]))]
  <2>1. got'[r] = [x \in DOMAIN got[r] \cup {s} |-> IF x = s THEN v ELSE got[r][x]]
    BY <1>1, <1>5 DEF GotArrived
  <2>2. DOMAIN got[r] = Arrived(r)
    BY <1>9
  <2>3. \A x \in Arrived(r) : got[r][x] = Whole(A2A!Built(x, r, k))
    BY <1>9
  <2> HIDE DEF s, k
  <2>4. got'[r] = [x \in Arrived(r) \cup {s} |-> Whole(A2A!Built(x, r, k))]
    BY <2>1, <2>2, <2>3
  <2> QED BY <1>1, <1>8, <2>4 DEF k
<1>11. ASSUME NEW q \in Ranks
       PROVE  got'[q] = [x \in Arrived(q)' |-> Whole(A2A!Built(x, q, call'[q]))]
  <2>1. CASE q = r
    BY <1>10, <2>1
  <2>2. CASE q # r
    <3>1. got[q] = [x \in Arrived(q) |-> Whole(A2A!Built(x, q, call[q]))]
      BY DEF GotArrived
    <3> QED BY <1>1, <1>7, <2>2, <3>1
  <2> QED BY <2>1, <2>2
<1>12. got' = [q \in Ranks |-> got'[q]]
  BY <1>1 DEF GotArrived
<1> QED BY <1>11, <1>12 DEF GotArrived

LEMMA GotEmptied ==
  ASSUME ExchangeAssumption, TypeOK, StepsFit, GotArrived, NEW r \in Ranks, Begin(r) \/ OwnPart(r)
  PROVE  GotArrived'
<1>1. /\ got' = [got EXCEPT ![r] = [s \in {} |-> s]]
      /\ \A q \in Ranks \ {r} : call'[q] = call[q] /\ step'[q] = step[q]
      /\ Begin(r) => step[r] = "out" /\ step'[r] # "out" /\ call'[r] = call[r] + 1 /\ call[r] \in Int
      /\ OwnPart(r) => step'[r] = "out"
  BY DEF Begin, OwnPart, TypeOK, Goto, AfterRound, ExchangeAssumption
<1>2. Quiet
  BY QuietSteps
<1>3. ASSUME NEW q \in Ranks, q # r PROVE Arrived(q)' = Arrived(q) /\ got'[q] = got[q]
  <2>1. got'[q] = got[q]
    BY <1>1, <1>3 DEF GotArrived
  <2>2. \A a \in Ranks : a # q => TakenUpTo(a, q)' = TakenUpTo(a, q)
    BY <1>2, <1>3 DEF Quiet
  <2> QED BY <1>1, <1>3, <2>1, <2>2, ArrivedElsewhere
<1>4. Arrived(r)' = {}
  <2>1. CASE OwnPart(r)
    BY <1>1, <2>1 DEF Arrived
  <2>2. CASE Begin(r)
    <3>1. \A a \in Ranks : a # r => TakenUpTo(a, r)' = 2 * call[r] + 1
      BY <1>1, <1>2, <2>2 DEF Quiet, TakenUpTo
    <3> QED BY <1>1, <2>2, <3>1 DEF Arrived
  <2> QED BY <2>1, <2>2
<1>5. got'[r] = [s \in {} |-> s]
  BY <1>1 DEF GotArrived
<1>6. ASSUME NEW q \in Ranks
      PROVE  got'[q] = [x \in Arrived(q)' |-> Whole(A2A!Built(x, q, call'[q]))]
  <2>1. CASE q = r
    BY <1>4, <1>5, <2>1
  <2>2. CASE q # r
    BY <1>1, <1>3, <2>2 DEF GotArrived
  <2> QED BY <2>1, <2>2
<1>7. got' = [q \in Ranks |-> got'[q]]
  BY <1>1 DEF GotArrived
<1> QED BY <1>6, <1>7 DEF GotArrived

\* What SendRecvEach hands out when it returns.
LEMMA OwnPartCompletes ==
  ASSUME ExchangeAssumption, TypeOK, StepsFit, GotArrived, NEW r \in Ranks, OwnPart(r)
  PROVE  /\ call[r] \in 1 .. Len(Calls)
         /\ results' = [results EXCEPT ![r] = Append(@, A2A!Outcome(r, call[r]))]
<1> DEFINE mine == [size |-> build_send(r, r), data |-> build_send(r, r)]
           given == [s \in DOMAIN got[r] \cup {r} |-> IF s = r THEN mine ELSE got[r][s]]
<1>1. step[r] = "own" /\ results' = [results EXCEPT ![r] = Append(@, given)]
  BY DEF OwnPart
<1>2. call[r] \in 1 .. Len(Calls)
  BY <1>1 DEF StepsFit, TypeOK, ExchangeAssumption
<1>3. Arrived(r) = Ranks \ {r}
  BY <1>1 DEF Arrived, TakenUpTo
<1>4. got[r] = [s \in Ranks \ {r} |-> Whole(A2A!Built(s, r, call[r]))]
  BY <1>3 DEF GotArrived
<1>5. given = A2A!Outcome(r, call[r])
  <2>1. DOMAIN got[r] \cup {r} = Ranks
    BY <1>4
  <2>2. \A s \in Ranks : (IF s = r THEN mine ELSE got[r][s]) = Whole(A2A!Built(s, r, call[r]))
    BY <1>4 DEF Whole, build_send, A2A!Built
  <2> QED BY <2>1, <2>2 DEF A2A!Outcome, Whole
<1> QED BY <1>1, <1>2, <1>5

-----------------------------------------------------------------------------
(* The invariant holds, one case per action. *)

LEMMA TypesFromParts ==
  ASSUME ExchangeAssumption, GotArrived, ResultsSoFar,
         call \in [Ranks -> 0 .. Len(Calls)], round \in [Ranks -> 1 .. N],
         step \in [Ranks -> Steps], chan \in [Ranks \X Ranks -> Seq(Messages)],
         size \in [Ranks -> Values]
  PROVE  TypeOK
<1>1. \A r \in Ranks : DOMAIN got[r] \subseteq Ranks
  BY DEF GotArrived, Arrived
<1>2. \A r \in Ranks : Len(results[r]) <= call[r]
  BY DEF ResultsSoFar
<1> QED BY <1>1, <1>2 DEF TypeOK

LEMMA InitIInv == ASSUME ExchangeAssumption, Init PROVE IInv
<1>1. /\ call = [r \in Ranks |-> 0] /\ round = [r \in Ranks |-> 1] /\ N \in Nat \ {0}
      /\ step = [r \in Ranks |-> "out"] /\ size = [r \in Ranks |-> <<>>]
      /\ chan = [p \in Ranks \X Ranks |-> <<>>] /\ got = [r \in Ranks |-> [s \in {} |-> s]]
      /\ results = [r \in Ranks |-> <<>>] /\ Len(Calls) \in Nat
  BY DEF Init, ExchangeAssumption, NoValue
<1>2. StepsFit
  BY <1>1 DEF StepsFit
<1>3. \A a, b \in Ranks : TakenUpTo(a, b) = 1 /\ SentUpTo(a, b) = 1
  BY <1>1 DEF TakenUpTo, SentUpTo
<1>4. NothingTakenUnsent
  BY <1>3 DEF NothingTakenUnsent
<1>5. ChannelsHold
  <2> SUFFICES ASSUME NEW a \in Ranks, NEW b \in Ranks, a # b
               PROVE  Lists(<<>>, Between(a, b, 1, 1))
    BY <1>1, <1>3 DEF ChannelsHold
  <2>1. Between(a, b, 1, 1) = {}
    <3> SUFFICES ASSUME NEW m \in Between(a, b, 1, 1) PROVE FALSE
      OBVIOUS
    <3>1. NumberOf(m) \in Int /\ 1 < NumberOf(m) /\ NumberOf(m) <= 1
      BY NumbersOfMessages
    <3> QED BY <3>1
  <2> QED BY <2>1 DEF Lists
<1>6. GotArrived
  BY <1>1 DEF GotArrived, Arrived
<1>7. ResultsSoFar
  BY <1>1 DEF ResultsSoFar
<1>8. TypeOK
  BY <1>1, <1>6, <1>7, TypesFromParts DEF Steps, Values, NoValue
<1> QED BY <1>2, <1>4, <1>5, <1>6, <1>7, <1>8 DEF IInv

\* Program counters after a step.
LEMMA Counters ==
  ASSUME ExchangeAssumption, IInv, NEW r \in Ranks, RankStep(r)
  PROVE  /\ call' \in [Ranks -> 0 .. Len(Calls)] /\ round' \in [Ranks -> 1 .. N]
         /\ step' \in [Ranks -> Steps] /\ size' \in [Ranks -> Values]
         /\ \A s \in Ranks \ {r} :
              call'[s] = call[s] /\ round'[s] = round[s] /\ step'[s] = step[s] /\ size'[s] = size[s]
<1>1. /\ call \in [Ranks -> 0 .. Len(Calls)] /\ round \in [Ranks -> 1 .. N]
      /\ step \in [Ranks -> Steps] /\ size \in [Ranks -> Values]
      /\ N \in Nat \ {0} /\ Len(Calls) \in Nat
  BY DEF IInv, TypeOK, ExchangeAssumption
<1>2. CASE Begin(r)
  BY <1>1, <1>2 DEF Begin, Goto, AfterRound, Steps
<1>3. CASE Isend(r) \/ SendShape(r) \/ IsendBody(r)
  BY <1>1, <1>3 DEF Isend, SendShape, IsendBody, Goto, Steps
<1>4. CASE RecvShape(r)
  <2>1. Head(Incoming(r)).value \in Values
    <3>1. source(r) \in Ranks /\ call[r] \in 1 .. Len(Calls)
      BY <1>4, InRound DEF RecvShape, IInv
    <3>2. Head(Incoming(r)).value = A2A!Built(source(r), r, call[r])
      BY <1>4, NextMessage DEF RecvShape, IInv, Msg
    <3>3. \A s \in Ranks : \A k \in 1 .. Len(Calls) : A2A!Built(s, r, k) \in Values
      BY DEF Values, A2A!Built
    <3> QED BY <3>1, <3>2, <3>3
  <2> QED BY <1>1, <1>4, <2>1 DEF RecvShape, Goto, Steps
<1>5. CASE Recv(r) \/ RecvBody(r)
  BY <1>1, <1>5 DEF Recv, RecvBody, Goto, Steps
<1>6. CASE Wait(r)
  <2>1. round[r] < N
    BY <1>6 DEF Wait, IInv, StepsFit
  <2> QED BY <1>1, <1>6, <2>1 DEF Wait, Goto, AfterRound, Steps
<1>7. CASE OwnPart(r)
  BY <1>1, <1>7 DEF OwnPart, Goto, Steps
<1> QED BY <1>2, <1>3, <1>4, <1>5, <1>6, <1>7 DEF RankStep

LEMMA StepsKeepFitting ==
  ASSUME ExchangeAssumption, IInv, NEW r \in Ranks, RankStep(r)
  PROVE  StepsFit'
<1>1. ASSUME NEW s \in Ranks, s # r
      PROVE  /\ step'[s] # "out" => call'[s] >= 1
             /\ step'[s] \notin {"out", "own"} => round'[s] < N
             /\ step'[s] \in {"shape", "body"} => Calls[call'[s]] = "array"
             /\ step'[s] = "body" => size'[s] = A2A!Built((s + N - round'[s]) % N, s, call'[s])
  BY <1>1, Counters DEF IInv, StepsFit, Kind, source
<1>2. /\ step'[r] # "out" => call'[r] >= 1
      /\ step'[r] \notin {"out", "own"} => round'[r] < N
      /\ step'[r] \in {"shape", "body"} => Calls[call'[r]] = "array"
      /\ step'[r] = "body" => size'[r] = A2A!Built((r + N - round'[r]) % N, r, call'[r])
  <2>1. /\ call \in [Ranks -> 0 .. Len(Calls)] /\ round \in [Ranks -> 1 .. N]
        /\ step \in [Ranks -> Steps] /\ size \in [Ranks -> Values]
        /\ N \in Nat \ {0} /\ Len(Calls) \in Nat
    BY DEF IInv, TypeOK, ExchangeAssumption
  <2>2. /\ step[r] # "out" => call[r] >= 1
        /\ step[r] \notin {"out", "own"} => round[r] < N
        /\ step[r] \in {"shape", "body"} => Calls[call[r]] = "array"
    BY DEF IInv, StepsFit, Kind
  <2>3. CASE Begin(r)
    BY <2>1, <2>3 DEF Begin, Goto, AfterRound
  <2>4. CASE Isend(r) \/ SendShape(r) \/ IsendBody(r)
    BY <2>1, <2>2, <2>4 DEF Isend, SendShape, IsendBody, Goto, Kind
  <2>5. CASE RecvShape(r)
    <3>1. Head(Incoming(r)).value = A2A!Built(source(r), r, call[r])
      BY <2>5, NextMessage DEF RecvShape, IInv, Msg
    <3> QED BY <2>1, <2>2, <2>5, <3>1 DEF RecvShape, Goto, Kind, source
  <2>6. CASE Recv(r) \/ RecvBody(r)
    BY <2>1, <2>2, <2>6 DEF Recv, RecvBody, Goto
  <2>7. CASE Wait(r)
    BY <2>1, <2>2, <2>7 DEF Wait, Goto, AfterRound
  <2>8. CASE OwnPart(r)
    BY <2>1, <2>2, <2>8 DEF OwnPart, Goto
  <2> QED BY <2>3, <2>4, <2>5, <2>6, <2>7, <2>8 DEF RankStep
<1>3. ASSUME NEW s \in Ranks
      PROVE  /\ step'[s] # "out" => call'[s] >= 1
             /\ step'[s] \notin {"out", "own"} => round'[s] < N
             /\ step'[s] \in {"shape", "body"} => Calls[call'[s]] = "array"
             /\ step'[s] = "body" => size'[s] = A2A!Built((s + N - round'[s]) % N, s, call'[s])
  BY <1>1, <1>2
<1> QED BY <1>3 DEF StepsFit, Kind, source

LEMMA ChannelsKept ==
  ASSUME ExchangeAssumption, IInv, NEW r \in Ranks, RankStep(r)
  PROVE  ChannelsHold' /\ NothingTakenUnsent' /\ chan' \in [Ranks \X Ranks -> Seq(Messages)]
<1>1. CASE Begin(r) \/ Wait(r) \/ OwnPart(r)
  <2>1. Quiet
    BY <1>1, QuietSteps DEF IInv
  <2>2. chan' \in [Ranks \X Ranks -> Seq(Messages)]
    BY <2>1 DEF Quiet, IInv, TypeOK
  <2> QED BY <2>1, <2>2, QuietChannels DEF IInv
<1>2. CASE Isend(r) \/ SendShape(r) \/ IsendBody(r)
  <2>1. step[r] \notin {"out", "own"}
    BY <1>2 DEF Isend, SendShape, IsendBody
  <2>2. Sends(r, "data") \/ Sends(r, "shape")
    BY <1>2, SendSteps DEF IInv
  <2> QED BY <2>1, <2>2, SendChannels DEF IInv
<1>3. CASE RecvShape(r) \/ Recv(r) \/ RecvBody(r)
  <2>1. step[r] \in {"recv", "body"} /\ Incoming(r) # <<>>
    BY <1>3 DEF RecvShape, Recv, RecvBody
  <2>2. Takes(r, Expected(r))
    BY <1>3, TakeSteps DEF IInv
  <2> QED BY <2>1, <2>2, TakeChannels DEF IInv
<1> QED BY <1>1, <1>2, <1>3 DEF RankStep

LEMMA GotKept ==
  ASSUME ExchangeAssumption, IInv, NEW r \in Ranks, RankStep(r)
  PROVE  GotArrived'
<1>1. CASE Begin(r) \/ OwnPart(r)
  BY <1>1, GotEmptied DEF IInv
<1>2. CASE Recv(r) \/ RecvBody(r)
  BY <1>2, GotAfterReceive DEF IInv
<1>3. CASE Wait(r)
  <2>1. got' = got /\ call' = call /\ \A s \in Ranks : step'[s] = "out" <=> step[s] = "out"
    BY <1>3 DEF Wait, Goto, AfterRound, IInv, TypeOK
  <2>2. \A a, b \in Ranks : a # b => TakenUpTo(a, b)' = TakenUpTo(a, b)
    BY <1>3, QuietSteps DEF Quiet, IInv
  <2> QED BY <2>1, <2>2, GotStays DEF IInv
<1>4. CASE Isend(r) \/ SendShape(r) \/ IsendBody(r)
  <2>1. got' = got /\ call' = call /\ \A s \in Ranks : step'[s] = "out" <=> step[s] = "out"
    BY <1>4 DEF Isend, SendShape, IsendBody, Goto, IInv, TypeOK
  <2>2. \A a, b \in Ranks : a # b => TakenUpTo(a, b)' = TakenUpTo(a, b)
    BY <1>4, SendSteps DEF Sends, IInv
  <2> QED BY <2>1, <2>2, GotStays DEF IInv
<1>5. CASE RecvShape(r)
  <2>1. /\ got' = got /\ call' = call /\ \A s \in Ranks : step'[s] = "out" <=> step[s] = "out"
        /\ step[r] = "recv" /\ Expected(r) = "shape"
    BY <1>5 DEF RecvShape, Goto, IInv, TypeOK, Expected
  <2>2. /\ call[r] \in 1 .. Len(Calls) /\ round[r] \in 1 .. N - 1 /\ source(r) \in Ranks \ {r}
        /\ RoundOf(source(r), r) = round[r]
    BY <2>1, InRound DEF IInv
  <2>3. Number(call[r], "shape") = 2 * call[r] /\ TakenUpTo(source(r), r) = 2 * call[r] - 1
    BY <2>1, <2>2, Gaps DEF TakenUpTo
  <2>4. \A a, b \in Ranks : a # b =>
          TakenUpTo(a, b)' = IF a = source(r) /\ b = r THEN 2 * call[r] ELSE TakenUpTo(a, b)
    BY <1>5, <2>1, <2>3, TakeSteps DEF Takes, IInv
  <2>5. \A a, b \in Ranks : a # b =>
          (TakenUpTo(a, b)' = 2 * call[b] + 1 <=> TakenUpTo(a, b) = 2 * call[b] + 1)
    BY <2>2, <2>3, <2>4
  <2> QED BY <2>1, <2>5, GotStays DEF IInv
<1> QED BY <1>1, <1>2, <1>3, <1>4, <1>5 DEF RankStep

LEMMA ResultsKept ==
  ASSUME ExchangeAssumption, IInv, NEW r \in Ranks, RankStep(r)
  PROVE  ResultsSoFar'
<1>1. /\ results \in [Ranks -> Seq(Given)]
      /\ \A s \in Ranks : Len(results[s]) = IF step[s] = "out" THEN call[s] ELSE call[s] - 1
      /\ call \in [Ranks -> 0 .. Len(Calls)] /\ step \in [Ranks -> Steps]
  BY DEF IInv, ResultsSoFar, TypeOK
<1>2. CASE OwnPart(r)
  <2>1. call[r] \in 1 .. Len(Calls) /\ results' = [results EXCEPT ![r] = Append(@, A2A!Outcome(r, call[r]))]
    BY <1>2, OwnPartCompletes DEF IInv
  <2>2. A2A!Outcome(r, call[r]) \in Given
    BY <2>1 DEF Given
  <2>3. call' = call /\ step[r] = "own" /\ step' = [step EXCEPT ![r] = "out"]
    BY <1>2 DEF OwnPart, Goto
  <2>4. /\ results' \in [Ranks -> Seq(Given)]
        /\ Len(results'[r]) = Len(results[r]) + 1
        /\ \A s \in Ranks \ {r} : results'[s] = results[s]
    BY <1>1, <2>1, <2>2
  <2> QED BY <1>1, <2>1, <2>3, <2>4 DEF ResultsSoFar
<1>3. CASE Begin(r)
  BY <1>1, <1>3 DEF Begin, Goto, AfterRound, ResultsSoFar
<1>4. CASE ~OwnPart(r) /\ ~Begin(r)
  <2>1. results' = results /\ call' = call /\ \A s \in Ranks : step'[s] = "out" <=> step[s] = "out"
    BY <1>1, <1>4
    DEF RankStep, Isend, SendShape, IsendBody, RecvShape, Recv, RecvBody, Wait, Goto, AfterRound
  <2> QED BY <1>1, <2>1 DEF ResultsSoFar
<1> QED BY <1>2, <1>3, <1>4

LEMMA StepIInv == ASSUME ExchangeAssumption, IInv, [Next]_vars PROVE IInv'
<1>1. ASSUME NEW r \in Ranks, RankStep(r) PROVE IInv'
  <2>1. StepsFit' /\ ChannelsHold' /\ NothingTakenUnsent' /\ GotArrived' /\ ResultsSoFar'
    BY <1>1, StepsKeepFitting, ChannelsKept, GotKept, ResultsKept
  <2>2. TypeOK'
    <3>1. \A s \in Ranks : DOMAIN got'[s] \subseteq Ranks
      BY <2>1 DEF GotArrived, Arrived
    <3>2. \A s \in Ranks : Len(results'[s]) <= call'[s]
      BY <1>1, <2>1, Counters DEF ResultsSoFar
    <3> QED BY <1>1, <3>1, <3>2, Counters, ChannelsKept DEF TypeOK
  <2> QED BY <2>1, <2>2 DEF IInv
<1>2. ASSUME UNCHANGED vars PROVE IInv'
  BY <1>2 DEF vars, IInv, TypeOK, StepsFit, Kind, source, ChannelsHold, NothingTakenUnsent, SentUpTo,
     TakenUpTo, GotArrived, Arrived, ResultsSoFar
<1> QED BY <1>1, <1>2 DEF Next

-----------------------------------------------------------------------------
(* What the exchange promises. *)

\* Every variable holds a value of its type, and the channels what is between their ends.
THEOREM ExchangeHolds == ASSUME ExchangeAssumption PROVE Spec => []IInv
<1>1. Init => IInv
  BY InitIInv
<1>2. IInv /\ [Next]_vars => IInv'
  BY StepIInv
<1> QED BY <1>1, <1>2, PTL DEF Spec

\* A receive gets the message meant for it: the receiver's next message in a channel is the
\* first one after the last it took, whatever the sender has sent since.
THEOREM ReceivesMatch == ASSUME ExchangeAssumption PROVE Spec => [](TypeOK /\ MessagesMatch)
<1>1. IInv => TypeOK /\ MessagesMatch
  <2> SUFFICES ASSUME IInv, NEW r \in Ranks, step[r] \in {"recv", "body"}, Incoming(r) # <<>>
               PROVE  Head(Incoming(r)) =
                        [part |-> Expected(r), value |-> <<source(r), r, call[r]>>]
    BY DEF MessagesMatch, IInv
  <2> QED BY NextMessage DEF IInv, Msg, A2A!Built
<1> QED BY <1>1, ExchangeHolds, PTL

\* A rank has taken a message of its call before this one from every other rank, and of this
\* call too once its rounds are through, and nothing is taken that was not sent.
LEMMA AllHaveEntered ==
  ASSUME ExchangeAssumption, IInv, NEW r \in Ranks, NEW s \in Ranks
  PROVE  call[s] >= IF step[r] \in {"out", "own"} THEN call[r] ELSE call[r] - 1
<1>1. call[r] \in Int /\ call[s] \in Int
  BY DEF IInv, TypeOK
<1>2. CASE s = r
  BY <1>1, <1>2
<1>3. CASE s # r
  <2>1. TakenUpTo(s, r) >= IF step[r] \in {"out", "own"} THEN 2 * call[r] + 1 ELSE 2 * call[r] - 1
    BY <1>1 DEF TakenUpTo
  <2>2. TakenUpTo(s, r) <= SentUpTo(s, r) /\ SentUpTo(s, r) <= 2 * call[s] + 1
    BY <1>3, EndsType DEF IInv, NothingTakenUnsent
  <2>3. TakenUpTo(s, r) \in Int /\ SentUpTo(s, r) \in Int
    BY EndsType DEF IInv
  <2> QED BY <1>1, <2>1, <2>2, <2>3
<1> QED BY <1>2, <1>3

\* The exchange, seen at its calls and returns only, is AllToAll: a rank returns with what
\* every rank built for it in the same call, after all ranks have come into it.
THEOREM ExchangeImplementsAllToAll == ASSUME ExchangeAssumption PROVE Spec => ImplementsAllToAll
<1>1. Init => A2A!Init
  BY DEF Init, A2A!Init
<1>2. IInv /\ [Next]_vars => [A2A!Next]_A2A!vars
  <2> SUFFICES ASSUME IInv, [Next]_vars PROVE [A2A!Next]_A2A!vars
    OBVIOUS
  <2>1. ASSUME NEW r \in Ranks, Begin(r) PROVE A2A!Enter(r)
    BY <2>1 DEF Begin, A2A!Enter, A2A!returned, IInv, ResultsSoFar
  <2>2. ASSUME NEW r \in Ranks, OwnPart(r) PROVE A2A!Return(r)
    <3>1. step[r] = "own" /\ call' = call
      BY <2>2 DEF OwnPart
    <3>2. call[r] = Len(results[r]) + 1
      <4>1. Len(results[r]) = call[r] - 1 /\ call[r] \in 0 .. Len(Calls)
        BY <3>1 DEF IInv, ResultsSoFar, TypeOK
      <4> QED BY <4>1
    <3>3. \A s \in Ranks : call[s] >= call[r]
      BY <3>1, AllHaveEntered
    <3>4. results' = [results EXCEPT ![r] = Append(@, A2A!Outcome(r, call[r]))]
      BY <2>2, OwnPartCompletes DEF IInv
    <3> QED BY <3>1, <3>2, <3>3, <3>4 DEF A2A!Return, A2A!returned
  <2>3. ASSUME NEW r \in Ranks, RankStep(r), ~Begin(r), ~OwnPart(r)
        PROVE  call' = call /\ results' = results
    BY <2>3 DEF RankStep, Isend, SendShape, IsendBody, RecvShape, Recv, RecvBody, Wait
  <2>4. CASE UNCHANGED vars
    BY <2>4 DEF vars, A2A!vars
  <2> QED BY <2>1, <2>2, <2>3, <2>4 DEF Next, RankStep, A2A!Next, A2A!vars
<1> QED BY <1>1, <1>2, ExchangeHolds, PTL DEF Spec, ImplementsAllToAll, A2A!Spec

\* Ranks are at most one call apart: a rank has returned from no call that another has not begun.
THEOREM RanksOneCallApart == ASSUME ExchangeAssumption PROVE Spec => []OneCallApart
<1>1. IInv => OneCallApart
  <2> SUFFICES ASSUME IInv, NEW r \in Ranks, NEW s \in Ranks PROVE Len(results[r]) <= call[s]
    BY DEF OneCallApart
  <2>1. Len(results[r]) = IF step[r] = "out" THEN call[r] ELSE call[r] - 1
    BY DEF IInv, ResultsSoFar
  <2>2. call[r] \in Int /\ call[s] \in Int
    BY DEF IInv, TypeOK
  <2> QED BY <2>1, <2>2, AllHaveEntered
<1> QED BY <1>1, ExchangeHolds, PTL

-----------------------------------------------------------------------------
(***************************************************************************)
(* Somebody can go on.  Of the ranks with calls to make take one that is   *)
(* behind no other: by calls it returned from, then by rounds, then by the *)
(* stage of the round.  Whatever it waits for its neighbour has done.      *)
(***************************************************************************)
LEMMA Least ==
  ASSUME NEW S, S # {}, NEW f, \A s \in S : f[s] \in Nat
  PROVE  \E s \in S : \A t \in S : f[s] <= f[t]
<1> DEFINE T == {f[s] : s \in S}
           R == OpToRel(<, Nat)
<1>1. T \subseteq Nat /\ T # {}
  OBVIOUS
<1>2. \A x, y \in Nat : <<y, x>> \in R <=> y < x
  BY DEF OpToRel
<1>3. PICK n \in T : \A m \in T : ~(<<m, n>> \in R)
  <2> HIDE DEF T, R
  <2>1. IsWellFoundedOn(R, Nat)
    BY NatLessThanWellFounded DEF R
  <2> QED BY <1>1, <2>1, WFMin
<1>4. n \in Nat /\ \A m \in T : m \in Nat /\ ~(m < n)
  BY <1>1, <1>2, <1>3
<1> HIDE DEF R
<1> QED BY <1>4

returnedFrom(r) == IF step[r] = "out" THEN call[r] ELSE call[r] - 1
place(r) == IF step[r] = "out" THEN 0 ELSE IF step[r] = "own" THEN N ELSE round[r]
stage(r) == IF step[r] = "wait" THEN 2 ELSE IF step[r] \in {"recv", "body"} THEN 1 ELSE 0

NotBehind(s, r) ==
  \/ returnedFrom(s) > returnedFrom(r)
  \/ /\ returnedFrom(s) = returnedFrom(r)
     /\ place(s) > place(r) \/ (place(s) = place(r) /\ stage(s) >= stage(r))

LEMMA PositionTypes ==
  ASSUME ExchangeAssumption, IInv, NEW r \in Ranks
  PROVE  returnedFrom(r) \in Nat /\ place(r) \in Nat /\ stage(r) \in Nat
BY DEF IInv, TypeOK, StepsFit, ExchangeAssumption, returnedFrom, place, stage

LEMMA LastRank ==
  ASSUME ExchangeAssumption, IInv, ~Finished
  PROVE  \E r \in Ranks : /\ step[r] # "out" \/ call[r] < Len(Calls)
                          /\ \A s \in Ranks : NotBehind(s, r)
<1> DEFINE F == [r \in Ranks |-> returnedFrom(r)]
           G == [r \in Ranks |-> place(r)]
           H == [r \in Ranks |-> stage(r)]
           U == {r \in Ranks : step[r] # "out" \/ call[r] < Len(Calls)}
           V == {r \in U : \A s \in U : F[r] <= F[s]}
           W == {r \in V : \A s \in V : G[r] <= G[s]}
<1>1. \A r \in Ranks : F[r] \in Nat /\ G[r] \in Nat /\ H[r] \in Nat
  BY PositionTypes
<1>2. Len(Calls) \in Nat /\ \A r \in Ranks : call[r] \in 0 .. Len(Calls)
  BY DEF IInv, TypeOK, ExchangeAssumption
<1>3. U # {}
  BY <1>2 DEF Finished
<1>4. \A r \in U : \A s \in Ranks : s \notin U => F[s] > F[r]
  BY <1>2 DEF returnedFrom
<1>5. U \subseteq Ranks
  OBVIOUS
<1> HIDE DEF F, G, H, U
<1>6. V # {}
  BY <1>1, <1>3, <1>5, Least
<1>7. V \subseteq U
  OBVIOUS
<1>8. \A r \in V : \A s \in U : F[r] <= F[s]
  OBVIOUS
<1>9. \A r \in U : (\A s \in U : F[r] <= F[s]) => r \in V
  OBVIOUS
<1> HIDE DEF V
<1>10. W # {}
  BY <1>1, <1>5, <1>6, <1>7, Least
<1>11. W \subseteq V /\ \A r \in W : \A s \in V : G[r] <= G[s]
  OBVIOUS
<1>12. \A r \in V : (\A s \in V : G[r] <= G[s]) => r \in W
  OBVIOUS
<1> HIDE DEF W
<1>13. PICK r \in W : \A s \in W : H[r] <= H[s]
  BY <1>1, <1>5, <1>7, <1>10, <1>11, Least
<1>14. r \in U /\ r \in V /\ r \in Ranks
  BY <1>5, <1>7, <1>11
<1>15. ASSUME NEW s \in Ranks
       PROVE  \/ F[s] > F[r]
              \/ F[s] = F[r] /\ (G[s] > G[r] \/ (G[s] = G[r] /\ H[s] >= H[r]))
  <2>1. CASE s \notin U
    BY <1>4, <1>14, <2>1
  <2>2. CASE s \in U
    <3>1. F[s] >= F[r]
      BY <1>8, <1>14, <2>2
    <3>2. F[s] = F[r] => s \in V
      BY <1>8, <1>9, <1>14, <2>2
    <3>3. s \in V => G[s] >= G[r] /\ (G[s] = G[r] => s \in W)
      BY <1>1, <1>5, <1>7, <1>11, <1>12, <1>14
    <3>4. s \in W => H[s] >= H[r]
      BY <1>1, <1>13, <1>14
    <3>5. CASE F[s] # F[r]
      <4>1. F[r] \in Nat /\ F[s] \in Nat
        BY <1>1, <1>14
      <4> QED BY <3>1, <3>5, <4>1
    <3>6. CASE F[s] = F[r]
      <4>1. G[r] \in Nat /\ G[s] \in Nat
        BY <1>1, <1>14
      <4>2. G[s] > G[r] \/ (G[s] = G[r] /\ H[s] >= H[r])
        <5>1. G[s] >= G[r] /\ (G[s] = G[r] => s \in W)
          BY <3>2, <3>3, <3>6
        <5>2. G[s] # G[r] => G[s] > G[r]
          BY <4>1, <5>1
        <5> QED BY <3>4, <5>1, <5>2
      <4> QED BY <3>6, <4>2
    <3> QED BY <3>5, <3>6
  <2> QED BY <2>1, <2>2
<1>16. \A s \in Ranks : NotBehind(s, r)
  BY <1>14, <1>15 DEF NotBehind, F, G, H
<1>17. step[r] # "out" \/ call[r] < Len(Calls)
  BY <1>14 DEF U
<1> QED BY <1>14, <1>16, <1>17

\* A rank that is not behind r has sent what r is to receive in its round ...
LEMMA HasSent ==
  ASSUME ExchangeAssumption, IInv, NEW r \in Ranks, NEW s \in Ranks, s = source(r),
         step[r] \in {"recv", "body"}, NotBehind(s, r)
  PROVE  SentUpTo(s, r) >= 2 * call[r] + 1
<1>1. /\ call[r] \in 1 .. Len(Calls) /\ round[r] \in 1 .. N - 1 /\ s # r
      /\ RoundOf(s, r) = round[r]
  BY InRound DEF IInv
<1>2. /\ call[r] \in Int /\ call[s] \in Nat /\ round[s] \in Nat /\ N \in Nat
  BY <1>1 DEF IInv, TypeOK, ExchangeAssumption
<1>3. returnedFrom(r) = call[r] - 1 /\ place(r) = round[r] /\ stage(r) = 1
  BY DEF returnedFrom, place, stage
<1>4. CASE step[s] = "out"
  BY <1>1, <1>2, <1>3, <1>4 DEF NotBehind, returnedFrom, place, SentUpTo
<1>5. CASE step[s] = "own"
  BY <1>1, <1>2, <1>3, <1>5 DEF NotBehind, returnedFrom, place, SentUpTo
<1>6. CASE step[s] \notin {"out", "own"}
  <2>1. /\ returnedFrom(s) = call[s] - 1 /\ place(s) = round[s]
        /\ stage(s) >= 1 => step[s] \in {"recv", "body", "wait"}
    BY <1>6 DEF returnedFrom, place, stage
  <2>2. CASE call[s] > call[r]
    BY <1>2, <2>2 DEF SentUpTo
  <2>3. CASE call[s] = call[r] /\ round[s] > round[r]
    BY <1>1, <2>3 DEF SentUpTo
  <2>4. CASE call[s] = call[r] /\ round[s] = round[r] /\ step[s] \in {"recv", "body", "wait"}
    BY <1>1, <1>2, <2>4 DEF SentUpTo
  <2> QED BY <1>2, <1>3, <2>1, <2>2, <2>3, <2>4 DEF NotBehind
<1> QED BY <1>4, <1>5, <1>6

\* ... and has taken what r sent it.
LEMMA HasTaken ==
  ASSUME ExchangeAssumption, IInv, NEW r \in Ranks, NEW d \in Ranks, d = dest(r),
         step[r] = "wait", NotBehind(d, r)
  PROVE  TakenUpTo(r, d) >= 2 * call[r] + 1
<1>1. /\ call[r] \in 1 .. Len(Calls) /\ round[r] \in 1 .. N - 1 /\ d # r
      /\ RoundOf(r, d) = round[r]
  BY InRound DEF IInv
<1>2. /\ call[r] \in Int /\ call[d] \in Nat /\ round[d] \in Nat /\ N \in Nat
  BY <1>1 DEF IInv, TypeOK, ExchangeAssumption
<1>3. returnedFrom(r) = call[r] - 1 /\ place(r) = round[r] /\ stage(r) = 2
  BY DEF returnedFrom, place, stage
<1>4. CASE step[d] = "out"
  BY <1>1, <1>2, <1>3, <1>4 DEF NotBehind, returnedFrom, place, TakenUpTo
<1>5. CASE step[d] = "own"
  BY <1>1, <1>2, <1>3, <1>5 DEF NotBehind, returnedFrom, place, TakenUpTo
<1>6. CASE step[d] \notin {"out", "own"}
  <2>1. /\ returnedFrom(d) = call[d] - 1 /\ place(d) = round[d]
        /\ stage(d) >= 2 => step[d] = "wait"
    BY <1>6 DEF returnedFrom, place, stage
  <2>2. CASE call[d] > call[r]
    BY <1>2, <2>2 DEF TakenUpTo
  <2>3. CASE call[d] = call[r] /\ round[d] > round[r]
    BY <1>1, <2>3 DEF TakenUpTo
  <2>4. CASE call[d] = call[r] /\ round[d] = round[r] /\ step[d] = "wait"
    BY <1>1, <1>2, <2>4 DEF TakenUpTo
  <2> QED BY <1>2, <1>3, <2>1, <2>2, <2>3, <2>4 DEF NotBehind
<1> QED BY <1>4, <1>5, <1>6

LEMMA SomebodyReady ==
  ASSUME ExchangeAssumption, ShapesGoAhead, IInv
  PROVE  NobodyStuck
<1> SUFFICES ASSUME ~Finished PROVE \E r \in Ranks : Ready(r)
  BY DEF NobodyStuck
<1>1. PICK r \in Ranks : /\ step[r] # "out" \/ call[r] < Len(Calls)
                         /\ \A s \in Ranks : NotBehind(s, r)
  BY LastRank
<1>2. CASE step[r] \in {"out", "send", "own"}
  <2>1. step[r] = "out" => call[r] < Len(Calls)
    BY <1>1
  <2> QED BY <1>2, <2>1 DEF Ready
<1>3. CASE step[r] = "shape"
  <2>1. call[r] \in 1 .. Len(Calls) /\ Calls[call[r]] = "array"
    BY <1>3, InRound DEF IInv, StepsFit, Kind
  <2> QED BY <1>3, <2>1 DEF Ready, Delivered, ShapesGoAhead
<1>4. CASE step[r] \in {"recv", "body"}
  <2> DEFINE s == source(r)
  <2>1. s \in Ranks /\ s # r /\ call[r] \in 1 .. Len(Calls) /\ RoundOf(s, r) = round[r]
    BY <1>4, InRound DEF IInv
  <2>2. SentUpTo(s, r) >= 2 * call[r] + 1 /\ SentUpTo(s, r) \in Int
    BY <1>1, <1>4, <2>1, HasSent, EndsType DEF IInv
  <2>3. TakenUpTo(s, r) < 2 * call[r] + 1
    <3>1. call[r] \in Int /\ round[r] \in Int
      BY DEF IInv, TypeOK
    <3> QED BY <1>4, <2>1, <3>1 DEF TakenUpTo
  <2>4. Number(call[r], "data") = 2 * call[r] + 1 /\ "data" \in PartsOf(call[r])
    BY <2>1, Gaps, PartsOfCall
  <2>5. Msg(s, r, call[r], "data") \in Messages
    BY <2>1, MessageType DEF Parts
  <2>6. Msg(s, r, call[r], "data") \in Between(s, r, TakenUpTo(s, r), SentUpTo(s, r))
    BY <2>1, <2>2, <2>3, <2>4, <2>5 DEF Between
  <2>7. Lists(Incoming(r), Between(s, r, TakenUpTo(s, r), SentUpTo(s, r)))
    BY <2>1 DEF IInv, ChannelsHold, Incoming
  <2>8. Incoming(r) # <<>>
    BY <2>6, <2>7 DEF Lists
  <2> QED BY <1>4, <2>8 DEF Ready
<1>5. CASE step[r] = "wait"
  <2> DEFINE d == dest(r)
             c == chan[<<r, d>>]
  <2>1. d \in Ranks /\ d # r /\ call[r] \in 1 .. Len(Calls)
    BY <1>5, InRound DEF IInv
  <2>2. TakenUpTo(r, d) >= 2 * call[r] + 1 /\ TakenUpTo(r, d) \in Int
    BY <1>1, <1>5, <2>1, HasTaken, EndsType DEF IInv
  <2>3. SentUpTo(r, d) <= 2 * call[r] + 1 /\ SentUpTo(r, d) \in Int
    BY <2>1, EndsType DEF IInv
  <2>4. c \in Seq(Messages) /\ Lists(c, Between(r, d, TakenUpTo(r, d), SentUpTo(r, d)))
    BY <2>1 DEF IInv, ChannelsHold, TypeOK
  <2>5. ASSUME NEW m \in Between(r, d, TakenUpTo(r, d), SentUpTo(r, d)) PROVE FALSE
    <3>1. /\ NumberOf(m) \in Int /\ TakenUpTo(r, d) < NumberOf(m)
          /\ NumberOf(m) <= SentUpTo(r, d)
      BY <2>1, <2>2, <2>3, NumbersOfMessages
    <3> QED BY <2>1, <2>2, <2>3, <3>1
  <2>6. c = <<>>
    BY <2>4, <2>5 DEF Lists
  <2> QED BY <1>5, <2>6 DEF Ready, Delivered
<1> QED BY <1>2, <1>3, <1>4, <1>5 DEF IInv, TypeOK, Steps

\* If MPI buffers the shapes, or no array has one, the ranks never wait on each other around
\* the ring.
THEOREM ExchangeNeverStuck == ASSUME ExchangeAssumption, ShapesGoAhead PROVE Spec => []NobodyStuck
<1>1. IInv => NobodyStuck
  BY SomebodyReady
<1> QED BY <1>1, ExchangeHolds, PTL

\* The rounds of all ranks fit together, whatever MPI buffers.
THEOREM RanksMeet == ASSUME ExchangeAssumption PROVE Spec => []RoundsMeet
<1>1. CASE ShapesGoAhead
  <2>1. TypeOK /\ MessagesMatch /\ OneCallApart /\ NobodyStuck => RoundsMeet
    BY DEF RoundsMeet
  <2> QED BY <1>1, <2>1, ReceivesMatch, RanksOneCallApart, ExchangeNeverStuck, PTL
<1>2. CASE ~ShapesGoAhead
  <2>1. TypeOK /\ MessagesMatch /\ OneCallApart => RoundsMeet
    BY <1>2 DEF RoundsMeet
  <2> QED BY <2>1, ReceivesMatch, RanksOneCallApart, PTL
<1> QED BY <1>1, <1>2
=============================================================================
