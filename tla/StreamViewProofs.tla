-------------------------- MODULE StreamViewProofs --------------------------
(***************************************************************************)
(* Proofs about StreamView, for every set of sessions, every log and every *)
(* number of connections.                                                  *)
(***************************************************************************)
EXTENDS StreamView, TLAPS, SequenceTheorems, WellFoundedInduction

-----------------------------------------------------------------------------
(* The strengthening: what is queued where while a connection replays.     *)

\* Only a tab with an address has a connection.
Addressed == address = None => link.status = "none"

\* Whatever waits in the batch has its flush due.
BatchDue == eventBuffer # <<>> => batchTimeout

\* A connection finds the batch of the one before it flushed or dropped.
FreshLink ==
    link.status = "connecting" \/ (link.status = "connected" /\ link.got = 0) =>
        eventBuffer = <<>>

\* A replay queues, and ends only once the server is done with it.
ReplayQueues ==
    link.got > 0 =>
        /\ link.got <= link.snap + 1 => isReplaying /\ ~replayServerDone
        /\ isReplaying => eventBuffer = <<>>
        /\ ~isReplaying => replayBuffer = <<>> /\ ~replayReplace

IInv == /\ TypeOK /\ Addressed /\ BatchDue /\ FreshLink /\ ReplayQueues
        /\ TranscriptFollowsStream

-----------------------------------------------------------------------------
(* Sequences.                                                              *)

\* A queue is what a slice takes and what it leaves.
LEMMA SliceParts ==
    ASSUME NEW buffer \in Seq(EventId), NEW take \in 0..Len(buffer)
    PROVE  /\ SubSeq(buffer, 1, take) \in Seq(EventId)
           /\ SubSeq(buffer, take + 1, Len(buffer)) \in Seq(EventId)
           /\ SubSeq(buffer, 1, take) \o SubSeq(buffer, take + 1, Len(buffer)) = buffer
<1>1. \A i \in 1..Len(buffer) : buffer[i] \in EventId
  OBVIOUS
<1>2. SubSeq(buffer, 1, take) \in Seq(EventId)
  BY <1>1, SubSeqProperties
<1>3. SubSeq(buffer, take + 1, Len(buffer)) \in Seq(EventId)
  BY <1>1, SubSeqProperties
<1>4. /\ 1 \in 1..Len(buffer) + 1 /\ take \in (1 - 1)..Len(buffer)
      /\ Len(buffer) \in take..Len(buffer)
  OBVIOUS
<1>5. SubSeq(buffer, 1, take) \o SubSeq(buffer, take + 1, Len(buffer))
        = SubSeq(buffer, 1, Len(buffer))
  BY <1>4, ConcatAdjacentSubSeq
<1>6. QED
  BY <1>2, <1>3, <1>5, SubSeqFull

LinkType == [status : {"none", "connecting", "connected", "reconnecting",
                       "error", "disconnected"},
             snap : Nat, base : Nat, got : Nat]

LEMMA SpanType ==
    ASSUME NEW s \in Session, NEW from \in Nat, NEW to \in Int, to >= from
    PROVE  /\ Span(s, from, to) \in Seq(EventId)
           /\ Len(Span(s, from, to)) = to - from
           /\ \A i \in 1..(to - from) : Span(s, from, to)[i] = <<s, from + i>>
<1>1. to - from \in Nat
  OBVIOUS
<1>2. Span(s, from, to) \in [1..(to - from) -> EventId]
  BY DEF Span, EventId
<1>3. Span(s, from, to) \in Seq(EventId)
  BY <1>1, <1>2, SeqDef
<1>4. Len(Span(s, from, to)) = to - from
  BY <1>1, <1>2, <1>3, LenProperties
<1>5. \A i \in 1..(to - from) : Span(s, from, to)[i] = <<s, from + i>>
  BY DEF Span
<1>6. QED
  BY <1>3, <1>4, <1>5

LEMMA SpanEmpty ==
    ASSUME NEW s \in Session, NEW from \in Nat, NEW to \in Int, to <= from
    PROVE  Span(s, from, to) = <<>>
<1>1. 1..(to - from) = {}
  OBVIOUS
<1>2. QED
  BY <1>1 DEF Span

LEMMA SpanGrows ==
    ASSUME NEW s \in Session, NEW from \in Nat, NEW to \in Int, to >= from
    PROVE  /\ <<s, to + 1>> \in EventId
           /\ Span(s, from, to + 1) = Append(Span(s, from, to), <<s, to + 1>>)
<1> DEFINE A == Span(s, from, to)
           B == Span(s, from, to + 1)
           e == <<s, to + 1>>
<1>1. e \in EventId
  BY DEF EventId
<1>2. /\ A \in Seq(EventId) /\ Len(A) = to - from
      /\ \A i \in 1..(to - from) : A[i] = <<s, from + i>>
  <2>1. QED
    BY SpanType
<1>3. /\ B \in Seq(EventId) /\ Len(B) = to + 1 - from
      /\ \A i \in 1..(to + 1 - from) : B[i] = <<s, from + i>>
  <2> DEFINE upto == to + 1
  <2>2. upto \in Int /\ upto >= from /\ upto - from = to + 1 - from
    OBVIOUS
  <2> HIDE DEF upto
  <2>3. /\ Span(s, from, upto) \in Seq(EventId)
        /\ Len(Span(s, from, upto)) = upto - from
        /\ \A i \in 1..(upto - from) : Span(s, from, upto)[i] = <<s, from + i>>
    BY <2>2, SpanType
  <2>4. QED
    BY <2>2, <2>3 DEF upto
<1> HIDE DEF A, B
<1>4. /\ Append(A, e) \in Seq(EventId)
      /\ Len(Append(A, e)) = Len(A) + 1
      /\ \A i \in 1..Len(A) : Append(A, e)[i] = A[i]
      /\ Append(A, e)[Len(A) + 1] = e
  BY <1>1, <1>2, AppendProperties
<1>5. ASSUME NEW i \in 1..Len(B) PROVE B[i] = Append(A, e)[i]
  <2>1. CASE i = Len(A) + 1
    <3>1. B[i] = <<s, from + i>> /\ from + i = to + 1
      BY <1>2, <1>3, <2>1
    <3>2. QED
      BY <1>4, <2>1, <3>1 DEF e
  <2>2. CASE i # Len(A) + 1
    <3>1. i \in 1..Len(A)
      BY <1>2, <1>3, <2>2
    <3>2. B[i] = <<s, from + i>> /\ A[i] = <<s, from + i>>
      BY <1>2, <1>3, <3>1
    <3>3. QED
      BY <1>4, <3>1, <3>2
  <2>3. QED
    BY <2>1, <2>2
<1>6. B = Append(A, e)
  <2>1. Len(B) = Len(Append(A, e))
    BY <1>2, <1>3, <1>4
  <2>2. QED
    BY <1>3, <1>4, <1>5, <2>1, SeqEqual
<1>7. QED
  BY <1>1, <1>6 DEF A, B

(* What a connection has sent grows by the event received, and not at all  *)
(* with a mark.                                                            *)
LEMMA StreamedType ==
    ASSUME NEW s \in Session, NEW l \in LinkType
    PROVE  Streamed(s, l) \in Seq(EventId)
<1> DEFINE n == Least(l.got - 1, l.snap)
           m == l.base + l.got - l.snap - 2
<1>1. n \in Int /\ m \in Int /\ l.base \in Nat
  BY DEF Least, LinkType
<1> HIDE DEF n, m
<1>2. Span(s, 0, n) \in Seq(EventId)
  <2>1. CASE n >= 0
    BY <1>1, <2>1, SpanType
  <2>2. CASE n <= 0
    <3>1. Span(s, 0, n) = <<>>
      BY <1>1, <2>2, SpanEmpty
    <3>2. QED
      BY <3>1, EmptySeq
  <2>3. QED
    BY <1>1, <2>1, <2>2
<1>3. Span(s, l.base, m) \in Seq(EventId)
  <2>1. CASE m >= l.base
    BY <1>1, <2>1, SpanType
  <2>2. CASE m <= l.base
    <3>1. Span(s, l.base, m) = <<>>
      BY <1>1, <2>2, SpanEmpty
    <3>2. QED
      BY <3>1, EmptySeq
  <2>3. QED
    BY <1>1, <2>1, <2>2
<1>4. QED
  BY <1>2, <1>3, ConcatProperties DEF Streamed, n, m

LEMMA StreamedMark ==
    ASSUME NEW s \in Session, NEW l \in LinkType, l.got \in {0, l.snap + 1}
    PROVE  /\ l.got = 0 => Streamed(s, [l EXCEPT !.got = @ + 1]) = <<>>
           /\ l.got # 0 => Streamed(s, [l EXCEPT !.got = @ + 1]) = Streamed(s, l)
<1> DEFINE n == [l EXCEPT !.got = @ + 1]
<1>1. /\ l.got \in Nat /\ l.snap \in Nat /\ l.base \in Nat
      /\ n.got = l.got + 1 /\ n.snap = l.snap /\ n.base = l.base
  BY DEF LinkType
<1> HIDE DEF n
<1>2. Span(s, n.base, n.base + n.got - n.snap - 2) = <<>>
  <2>1. n.base + n.got - n.snap - 2 \in Int /\ n.base + n.got - n.snap - 2 <= n.base
    BY <1>1
  <2>2. QED
    BY <1>1, <2>1, SpanEmpty
<1>3. ASSUME l.got = 0 PROVE Streamed(s, n) = <<>>
  <2>1. Least(n.got - 1, n.snap) = 0
    BY <1>1, <1>3 DEF Least
  <2>2. Span(s, 0, 0) = <<>>
    BY SpanEmpty
  <2>3. QED
    BY <1>2, <2>1, <2>2 DEF Streamed
<1>4. ASSUME l.got # 0 PROVE Streamed(s, n) = Streamed(s, l)
  <2>1. Least(n.got - 1, n.snap) = Least(l.got - 1, l.snap)
    BY <1>1, <1>4 DEF Least
  <2>2. l.base + l.got - l.snap - 2 \in Int /\ l.base + l.got - l.snap - 2 <= l.base
    BY <1>1, <1>4
  <2>3. Span(s, l.base, l.base + l.got - l.snap - 2) = <<>>
    BY <1>1, <2>2, SpanEmpty
  <2>4. QED
    BY <1>2, <2>1, <2>3 DEF Streamed
<1>5. QED
  BY <1>3, <1>4 DEF n

LEMMA StreamedEvent ==
    ASSUME NEW s \in Session, NEW l \in LinkType, l.got \notin {0, l.snap + 1}
    PROVE  LET e == <<s, IF l.got <= l.snap THEN l.got ELSE l.base + l.got - l.snap - 1>>
           IN  /\ e \in EventId
               /\ Streamed(s, [l EXCEPT !.got = @ + 1]) = Append(Streamed(s, l), e)
<1> DEFINE n == [l EXCEPT !.got = @ + 1]
           e == <<s, IF l.got <= l.snap THEN l.got ELSE l.base + l.got - l.snap - 1>>
<1>1. /\ l.got \in Nat \ {0} /\ l.snap \in Nat /\ l.base \in Nat
      /\ n.got = l.got + 1 /\ n.snap = l.snap /\ n.base = l.base
  BY DEF LinkType
<1> HIDE DEF n
<1>2. ASSUME l.got <= l.snap
      PROVE  e \in EventId /\ Streamed(s, n) = Append(Streamed(s, l), e)
  <2> DEFINE A == Span(s, 0, l.got - 1)
  <2>1. /\ Least(n.got - 1, n.snap) = l.got /\ Least(l.got - 1, l.snap) = l.got - 1
        /\ n.base + n.got - n.snap - 2 \in Int /\ n.base + n.got - n.snap - 2 <= n.base
        /\ l.base + l.got - l.snap - 2 \in Int /\ l.base + l.got - l.snap - 2 <= l.base
    BY <1>1, <1>2 DEF Least
  <2>2. /\ Span(s, n.base, n.base + n.got - n.snap - 2) = <<>>
        /\ Span(s, l.base, l.base + l.got - l.snap - 2) = <<>>
    BY <1>1, <2>1, SpanEmpty
  <2>3. e = <<s, l.got - 1 + 1>> /\ l.got - 1 \in Int /\ l.got - 1 >= 0
    BY <1>1, <1>2
  <2>4. A \in Seq(EventId)
    BY <2>3, SpanType
  <2>5. e \in EventId /\ Span(s, 0, l.got - 1 + 1) = Append(A, e)
    BY <2>3, SpanGrows
  <2>6. l.got - 1 + 1 = l.got
    BY <1>1
  <2>7. Streamed(s, n) = Append(A, e) \o <<>>
    BY <2>1, <2>2, <2>5, <2>6 DEF Streamed
  <2>8. Streamed(s, l) = A \o <<>>
    BY <2>1, <2>2 DEF Streamed
  <2>9. Append(A, e) \in Seq(EventId)
    BY <2>4, <2>5
  <2> HIDE DEF A, e
  <2>10. QED
    BY <2>4, <2>5, <2>7, <2>8, <2>9, ConcatEmptySeq
<1>3. ASSUME l.got > l.snap + 1
      PROVE  e \in EventId /\ Streamed(s, n) = Append(Streamed(s, l), e)
  <2> DEFINE A == Span(s, 0, l.snap)
             m == l.base + l.got - l.snap - 2
             B == Span(s, l.base, m)
  <2>1. /\ Least(n.got - 1, n.snap) = l.snap /\ Least(l.got - 1, l.snap) = l.snap
        /\ n.base + n.got - n.snap - 2 = m + 1
        /\ m \in Int /\ m >= l.base /\ e = <<s, m + 1>>
    BY <1>1, <1>3 DEF Least
  <2> HIDE DEF m, e
  <2>2. A \in Seq(EventId) /\ B \in Seq(EventId)
    <3>1. l.snap \in Int /\ l.snap >= 0
      BY <1>1
    <3>2. A \in Seq(EventId)
      BY <3>1, SpanType
    <3>3. B \in Seq(EventId)
      BY <1>1, <2>1, SpanType
    <3>4. QED
      BY <3>2, <3>3
  <2>3. e \in EventId /\ Span(s, l.base, m + 1) = Append(B, e)
    BY <1>1, <2>1, SpanGrows
  <2>4. Streamed(s, n) = A \o Append(B, e)
    BY <1>1, <2>1, <2>3 DEF Streamed
  <2>5. Streamed(s, l) = A \o B
    BY <2>1 DEF Streamed, m
  <2> HIDE DEF A, B
  <2>6. A \o Append(B, e) = Append(A \o B, e)
    <3>1. <<e>> \in Seq(EventId) /\ A \o B \in Seq(EventId)
      BY <2>2, <2>3, ConcatProperties
    <3>2. Append(B, e) = B \o <<e>> /\ Append(A \o B, e) = (A \o B) \o <<e>>
      BY <2>2, <2>3, <3>1, AppendIsConcat
    <3>3. QED
      BY <2>2, <3>1, <3>2, ConcatAssociative
  <2>7. QED
    BY <2>3, <2>4, <2>5, <2>6
<1> HIDE DEF e
<1>4. l.got <= l.snap \/ l.got > l.snap + 1
  BY <1>1
<1>5. e \in EventId /\ Streamed(s, n) = Append(Streamed(s, l), e)
  BY <1>2, <1>3, <1>4
<1>6. QED
  BY <1>5 DEF n, e

-----------------------------------------------------------------------------
(* Induction over the events of a batch, by the least counterexample.      *)

LEMMA LeastOfMany ==
    ASSUME NEW T, T \subseteq Nat, T # {}
    PROVE  \E x \in T : \A y \in T : x <= y
<1> DEFINE R == OpToRel(<, Nat)
<1>1. IsWellFoundedOn(R, Nat)
  BY NatLessThanWellFounded
<1> HIDE DEF R
<1>2. PICK x \in T : \A y \in T : ~ (<<y, x>> \in R)
  BY <1>1, WFMin
<1>3. ASSUME NEW y \in T PROVE x <= y
  <2>1. x \in Nat /\ y \in Nat
    OBVIOUS
  <2>2. y < x => <<y, x>> \in R
    BY <2>1 DEF R, OpToRel
  <2>3. ~ (y < x)
    BY <1>2, <2>2
  <2>4. QED
    BY <2>1, <2>3
<1>4. QED
  BY <1>3

LEMMA Induction ==
    ASSUME NEW S, 0 \in S, \A n \in Nat : n \in S => n + 1 \in S
    PROVE  Nat \subseteq S
<1>1. SUFFICES ASSUME Nat \ S # {} PROVE FALSE
  OBVIOUS
<1>2. PICK x \in Nat \ S : \A y \in Nat \ S : x <= y
  BY <1>1, LeastOfMany
<1>3. x - 1 \in Nat /\ x - 1 \in S
  BY <1>2
<1>4. QED
  BY <1>2, <1>3

\* The same, up to a length.
LEMMA InductionUpTo ==
    ASSUME NEW L \in Nat, NEW S, 0 \in S, \A n \in 0..(L - 1) : n \in S => n + 1 \in S
    PROVE  0..L \subseteq S
<1> DEFINE T == {n \in Nat : n <= L => n \in S}
<1>1. 0 \in T
  OBVIOUS
<1>2. \A n \in Nat : n \in T => n + 1 \in T
  OBVIOUS
<1>3. Nat \subseteq T
  <2> HIDE DEF T
  <2>1. QED
    BY <1>1, <1>2, Induction
<1>4. QED
  BY <1>3

-----------------------------------------------------------------------------
(* The fold of a batch (AppendEach), prefix by prefix.                     *)

LEMMA AppendEachDef ==
    ASSUME NEW kinds, NEW g, NEW batch, Len(batch) \in Nat
    PROVE  AppendEach(kinds, g, batch) =
            [n \in 0..Len(batch) |->
                IF n = 0 THEN g
                ELSE AppendTurn(kinds, AppendEach(kinds, g, batch)[n - 1], batch[n])]
<1> DEFINE Upto(m) ==
        \E f : f = [n \in 0..m |-> IF n = 0 THEN g ELSE AppendTurn(kinds, f[n - 1], batch[n])]
<1>1. Upto(0)
  <2> DEFINE f == [n \in 0..0 |-> g]
  <2>1. f = [n \in 0..0 |-> IF n = 0 THEN g ELSE AppendTurn(kinds, f[n - 1], batch[n])]
    OBVIOUS
  <2>2. QED
    BY <2>1
<1>2. ASSUME NEW m \in Nat, Upto(m) PROVE Upto(m + 1)
  <2>1. PICK f : f = [n \in 0..m |->
                        IF n = 0 THEN g ELSE AppendTurn(kinds, f[n - 1], batch[n])]
    BY <1>2
  <2> DEFINE h == [n \in 0..(m + 1) |->
                    IF n <= m THEN f[n] ELSE AppendTurn(kinds, f[m], batch[m + 1])]
  <2>2. ASSUME NEW n \in 0..(m + 1)
        PROVE  h[n] = IF n = 0 THEN g ELSE AppendTurn(kinds, h[n - 1], batch[n])
    <3>1. CASE n = 0
      BY <2>1, <3>1
    <3>2. CASE n \in 1..m
      <4>1. h[n] = f[n] /\ h[n - 1] = f[n - 1] /\ n \in 0..m /\ n # 0
        BY <3>2
      <4>2. f[n] = AppendTurn(kinds, f[n - 1], batch[n])
        BY <2>1, <4>1
      <4>3. QED
        BY <4>1, <4>2
    <3>3. CASE n = m + 1
      <4>1. h[n - 1] = f[m] /\ n # 0 /\ h[n] = AppendTurn(kinds, f[m], batch[n])
        BY <3>3
      <4>2. QED
        BY <4>1
    <3>4. QED
      BY <3>1, <3>2, <3>3
  <2>3. h = [n \in 0..(m + 1) |->
                IF n = 0 THEN g ELSE AppendTurn(kinds, h[n - 1], batch[n])]
    BY <2>2
  <2>4. QED
    BY <2>3
<1>3. Upto(Len(batch))
  <2> HIDE DEF Upto
  <2> DEFINE S == {m \in Nat : Upto(m)}
  <2>1. 0 \in S
    BY <1>1
  <2>2. \A m \in Nat : m \in S => m + 1 \in S
    BY <1>2
  <2>3. Nat \subseteq S
    <3> HIDE DEF S
    <3>1. QED
      BY <2>1, <2>2, Induction
  <2>4. QED
    BY <2>3
<1>4. QED
  BY <1>3 DEF AppendEach

LEMMA AppendEachSteps ==
    ASSUME NEW kinds, NEW g, NEW batch, Len(batch) \in Nat
    PROVE  /\ AppendEach(kinds, g, batch)[0] = g
           /\ \A n \in 1..Len(batch) :
                AppendEach(kinds, g, batch)[n] =
                    AppendTurn(kinds, AppendEach(kinds, g, batch)[n - 1], batch[n])
<1> DEFINE E == AppendEach(kinds, g, batch)
<1>1. E = [n \in 0..Len(batch) |-> IF n = 0 THEN g ELSE AppendTurn(kinds, E[n - 1], batch[n])]
  BY AppendEachDef
<1> HIDE DEF E
<1>2. E[0] = g
  BY <1>1
<1>3. ASSUME NEW n \in 1..Len(batch) PROVE E[n] = AppendTurn(kinds, E[n - 1], batch[n])
  <2>1. n \in 0..Len(batch) /\ n # 0
    OBVIOUS
  <2>2. QED
    BY <1>1, <2>1
<1>4. QED
  BY <1>2, <1>3 DEF E

\* A batch cut in two folds as the parts do, one onto the other.
LEMMA AppendEachConcat ==
    ASSUME NEW kinds, NEW g, NEW X \in Seq(EventId), NEW Y \in Seq(EventId)
    PROVE  AppendEach(kinds, g, X \o Y)[Len(X \o Y)] =
            AppendEach(kinds, AppendEach(kinds, g, X)[Len(X)], Y)[Len(Y)]
<1> DEFINE Z == X \o Y
           m == Len(X)
           l == Len(Y)
           A == AppendEach(kinds, g, X)
           B == AppendEach(kinds, A[m], Y)
           C == AppendEach(kinds, g, Z)
<1>1. /\ m \in Nat /\ l \in Nat /\ Len(Z) = m + l
      /\ \A i \in 1..m : Z[i] = X[i]
      /\ \A i \in 1..l : Z[m + i] = Y[i]
  BY ConcatProperties
<1>2. A[0] = g /\ \A n \in 1..m : A[n] = AppendTurn(kinds, A[n - 1], X[n])
  BY <1>1, AppendEachSteps
<1>3. B[0] = A[m] /\ \A n \in 1..l : B[n] = AppendTurn(kinds, B[n - 1], Y[n])
  BY <1>1, AppendEachSteps
<1>4. C[0] = g /\ \A n \in 1..(m + l) : C[n] = AppendTurn(kinds, C[n - 1], Z[n])
  <2>1. Len(Z) \in Nat
    BY <1>1
  <2>2. C[0] = g /\ \A n \in 1..Len(Z) : C[n] = AppendTurn(kinds, C[n - 1], Z[n])
    <3> HIDE DEF Z
    <3>1. QED
      BY <2>1, AppendEachSteps
  <2>3. QED
    BY <1>1, <2>2
<1> HIDE DEF Z, m, l, A, B, C
<1>5. C[m] = A[m]
  <2> DEFINE S == {n \in 0..m : C[n] = A[n]}
  <2>1. 0 \in S
    BY <1>1, <1>2, <1>4
  <2>2. ASSUME NEW n \in 0..(m - 1), n \in S PROVE n + 1 \in S
    <3>1. n + 1 \in 1..m /\ n + 1 \in 1..(m + l) /\ n + 1 - 1 = n
      BY <1>1
    <3>2. /\ C[n + 1] = AppendTurn(kinds, C[n], Z[n + 1])
          /\ A[n + 1] = AppendTurn(kinds, A[n], X[n + 1])
      BY <1>2, <1>4, <3>1
    <3>3. QED
      BY <1>1, <2>2, <3>1, <3>2
  <2>3. 0..m \subseteq S
    <3> HIDE DEF S
    <3>1. QED
      BY <1>1, <2>1, <2>2, InductionUpTo
  <2>4. QED
    BY <1>1, <2>3
<1>6. C[m + l] = B[l]
  <2> DEFINE S == {n \in 0..l : C[m + n] = B[n]}
  <2>1. 0 \in S
    BY <1>1, <1>3, <1>5
  <2>2. ASSUME NEW n \in 0..(l - 1), n \in S PROVE n + 1 \in S
    <3> DEFINE k == m + (n + 1)
    <3>1. /\ n + 1 \in 1..l /\ n + 1 - 1 = n /\ n + 1 \in 0..l
          /\ k \in 1..(m + l) /\ k - 1 = m + n /\ Z[k] = Y[n + 1]
      BY <1>1
    <3>2. SUFFICES C[k] = B[n + 1]
      BY <3>1
    <3> HIDE DEF k
    <3>3. C[k] = AppendTurn(kinds, C[k - 1], Z[k])
      BY <1>4, <3>1
    <3>4. B[n + 1] = AppendTurn(kinds, B[n + 1 - 1], Y[n + 1])
      BY <1>3, <3>1
    <3>5. C[k - 1] = B[n]
      BY <2>2, <3>1
    <3>6. QED
      BY <3>1, <3>3, <3>4, <3>5
  <2>3. 0..l \subseteq S
    <3> HIDE DEF S
    <3>1. QED
      BY <1>1, <2>1, <2>2, InductionUpTo
  <2>4. QED
    BY <1>1, <2>3
<1>7. C[Len(Z)] = B[l]
  BY <1>1, <1>6
<1>8. QED
  BY <1>7 DEF Z, m, l, A, B, C

\* Only the kinds of its events matter to a batch.
LEMMA AppendEachSame ==
    ASSUME NEW k1, NEW k2, NEW g, NEW batch, Len(batch) \in Nat,
           \A i \in 1..Len(batch) : KindIn(k1, batch[i]) = KindIn(k2, batch[i])
    PROVE  AppendEach(k1, g, batch)[Len(batch)] = AppendEach(k2, g, batch)[Len(batch)]
<1> DEFINE l == Len(batch)
           A == AppendEach(k1, g, batch)
           B == AppendEach(k2, g, batch)
           S == {n \in 0..l : A[n] = B[n]}
<1>1. /\ A[0] = g /\ \A n \in 1..l : A[n] = AppendTurn(k1, A[n - 1], batch[n])
      /\ B[0] = g /\ \A n \in 1..l : B[n] = AppendTurn(k2, B[n - 1], batch[n])
  BY AppendEachSteps
<1> HIDE DEF A, B
<1>2. \A x : \A i \in 1..l : AppendTurn(k1, x, batch[i]) = AppendTurn(k2, x, batch[i])
  BY DEF AppendTurn
<1>3. 0 \in S
  BY <1>1
<1>4. ASSUME NEW n \in 0..(l - 1), n \in S PROVE n + 1 \in S
  <2>1. n + 1 \in 1..l /\ n + 1 - 1 = n
    OBVIOUS
  <2>2. /\ A[n + 1] = AppendTurn(k1, A[n], batch[n + 1])
        /\ B[n + 1] = AppendTurn(k2, B[n], batch[n + 1])
    BY <1>1, <2>1
  <2>3. A[n] = B[n] /\ n + 1 \in 0..l
    BY <1>4
  <2>4. A[n + 1] = B[n + 1]
    BY <1>2, <2>1, <2>2, <2>3
  <2>5. QED
    BY <2>3, <2>4
<1>5. 0..l \subseteq S
  <2> HIDE DEF S
  <2>1. QED
    BY <1>3, <1>4, InductionUpTo
<1>6. QED
  BY <1>5 DEF A, B

-----------------------------------------------------------------------------
(* Compaction runs: what a batch leaves open.                              *)

\* A grouping while a batch is folded.
Formed(x) ==
    /\ x = [turns |-> x.turns, open |-> x.open, pending |-> x.pending]
    /\ x.open \in BOOLEAN /\ x.pending \in Seq(EventId)

\* The grouping of a batch that begins a transcript, before its rest is placed.
Grouped(kinds, batch) == AppendEach(kinds, Unplaced(NoGrouping), batch)[Len(batch)]

\* An opener among the first n with no closer behind it.
Ran(kinds, batch, n) ==
    \E i \in 1..n : /\ KindIn(kinds, batch[i]) \in {"start", "boundary"}
                    /\ \A j \in (i + 1)..n : KindIn(kinds, batch[j]) # "assistant"

\* One event: what waits opened a run, or waited before.
LEMMA AppendTurnForm ==
    ASSUME NEW kinds, NEW x, NEW e \in EventId, Formed(x), x.pending = <<>> => ~x.open
    PROVE  LET y == AppendTurn(kinds, x, e)
           IN  /\ Formed(y) /\ (y.pending = <<>> => ~y.open)
               /\ y.pending # <<>> =>
                    \/ KindIn(kinds, e) \in {"start", "boundary"}
                    \/ x.pending # <<>> /\ KindIn(kinds, e) # "assistant"
<1> DEFINE kind == KindIn(kinds, e)
           y == AppendTurn(kinds, x, e)
           p == Placed(x)
<1>1. Append(x.pending, e) \in Seq(EventId) /\ Append(x.pending, e) # <<>>
  <2>1. x.pending \in Seq(EventId)
    BY DEF Formed
  <2>2. Append(x.pending, e) \in Seq(EventId) /\ Len(Append(x.pending, e)) = Len(x.pending) + 1
    BY <2>1, AppendProperties
  <2>3. Len(<<>>) = 0 /\ Len(x.pending) \in Nat
    BY <2>1, EmptySeq
  <2>4. QED
    BY <2>2, <2>3
<1>2. CASE kind = "result"
  <2>1. y = x
    BY <1>2 DEF AppendTurn
  <2>2. QED
    BY <1>2, <2>1
<1>3. CASE kind = "human"
  <2>1. y = [x EXCEPT !.turns = Append(@, <<e>>)]
    BY <1>3 DEF AppendTurn
  <2>2. /\ y = [turns |-> y.turns, open |-> y.open, pending |-> y.pending]
        /\ y.open = x.open /\ y.pending = x.pending
    BY <2>1 DEF Formed
  <2>3. QED
    BY <1>3, <2>2 DEF Formed
<1>4. CASE kind \in {"start", "boundary"} \/ (kind = "context" /\ x.open)
  <2>1. y = [x EXCEPT !.pending = Append(@, e), !.open = @ \/ kind = "start"]
    BY <1>4 DEF AppendTurn
  <2>2. /\ y = [turns |-> y.turns, open |-> y.open, pending |-> y.pending]
        /\ y.open = (x.open \/ kind = "start") /\ y.pending = Append(x.pending, e)
    BY <2>1 DEF Formed
  <2>3. Formed(y)
    BY <1>1, <2>2 DEF Formed
  <2>4. QED
    BY <1>1, <1>4, <2>2, <2>3
<1>5. CASE kind \notin {"result", "human", "start", "boundary"} /\ ~(kind = "context" /\ x.open)
  <2>1. y = [p EXCEPT !.turns[Len(p.turns)] = Append(@, e)]
    BY <1>5 DEF AppendTurn
  <2>2. /\ p = [turns |-> p.turns, open |-> p.open, pending |-> p.pending]
        /\ p.open = FALSE /\ p.pending = <<>>
    BY DEF Placed, Formed
  <2>3. /\ y = [turns |-> y.turns, open |-> y.open, pending |-> y.pending]
        /\ y.open = FALSE /\ y.pending = <<>>
    BY <2>1, <2>2
  <2>4. QED
    BY <2>3, EmptySeq DEF Formed
<1>6. QED
  BY <1>2, <1>3, <1>4, <1>5

\* A batch from a grouping with nothing waiting: what waits is an open run.
LEMMA AppendEachForm ==
    ASSUME NEW kinds, NEW g, NEW batch \in Seq(EventId),
           Formed(g), g.pending = <<>>, ~g.open
    PROVE  LET x == AppendEach(kinds, g, batch)[Len(batch)]
           IN  /\ Formed(x) /\ (x.pending = <<>> => ~x.open)
               /\ x.pending # <<>> => Ran(kinds, batch, Len(batch))
<1> DEFINE l == Len(batch)
           A == AppendEach(kinds, g, batch)
           Good(n) == /\ Formed(A[n]) /\ (A[n].pending = <<>> => ~A[n].open)
                      /\ A[n].pending # <<>> => Ran(kinds, batch, n)
           S == {n \in 0..l : Good(n)}
<1>1. A[0] = g /\ \A n \in 1..l : A[n] = AppendTurn(kinds, A[n - 1], batch[n])
  BY AppendEachSteps
<1> HIDE DEF A
<1>2. 0 \in S
  BY <1>1
<1>3. ASSUME NEW n \in 0..(l - 1), n \in S PROVE n + 1 \in S
  <2> DEFINE k == n + 1
  <2>1. k \in 1..l /\ k - 1 = n /\ k \in 0..l /\ batch[k] \in EventId
    OBVIOUS
  <2>2. SUFFICES Good(k)
    BY <2>1
  <2> HIDE DEF k
  <2>3. A[k] = AppendTurn(kinds, A[n], batch[k]) /\ Good(n)
    BY <1>1, <1>3, <2>1
  <2>4. /\ Formed(A[k]) /\ (A[k].pending = <<>> => ~A[k].open)
        /\ A[k].pending # <<>> =>
             \/ KindIn(kinds, batch[k]) \in {"start", "boundary"}
             \/ A[n].pending # <<>> /\ KindIn(kinds, batch[k]) # "assistant"
    BY <2>1, <2>3, AppendTurnForm
  <2>5. ASSUME A[k].pending # <<>> PROVE Ran(kinds, batch, k)
    <3>1. CASE KindIn(kinds, batch[k]) \in {"start", "boundary"}
      <4>1. k \in 1..k /\ \A j \in (k + 1)..k : FALSE
        BY <2>1
      <4>2. QED
        BY <3>1, <4>1 DEF Ran
    <3>2. CASE A[n].pending # <<>> /\ KindIn(kinds, batch[k]) # "assistant"
      <4>1. PICK i \in 1..n : /\ KindIn(kinds, batch[i]) \in {"start", "boundary"}
                              /\ \A j \in (i + 1)..n : KindIn(kinds, batch[j]) # "assistant"
        BY <2>3, <3>2 DEF Ran
      <4>2. i \in 1..k /\ \A j \in (i + 1)..k : j \in (i + 1)..n \/ j = k
        BY <2>1
      <4>3. QED
        BY <3>2, <4>1, <4>2 DEF Ran
    <3>3. QED
      BY <2>4, <2>5, <3>1, <3>2
  <2>6. QED
    BY <2>4, <2>5
<1>4. 0..l \subseteq S
  <2>1. l \in Nat
    OBVIOUS
  <2> HIDE DEF S, l
  <2>2. QED
    BY <1>2, <1>3, <2>1, InductionUpTo
<1>5. l \in S
  BY <1>4
<1>6. QED
  BY <1>5 DEF A

LEMMA UnplacedForm ==
    /\ Formed(Unplaced(NoGrouping))
    /\ Unplaced(NoGrouping).pending = <<>> /\ ~Unplaced(NoGrouping).open
BY EmptySeq DEF Formed, Unplaced, NoGrouping

\* Where nothing waits the next batch folds on as if it had been one.
LEMMA AppendTurnsConcat ==
    ASSUME NEW kinds, NEW X \in Seq(EventId), NEW Y \in Seq(EventId),
           Grouped(kinds, X).pending = <<>>
    PROVE  /\ AppendTurns(kinds, AppendTurns(kinds, NoGrouping, X), Y)
                = AppendTurns(kinds, NoGrouping, X \o Y)
           /\ ~ Ran(kinds, Y, Len(Y)) => Grouped(kinds, X \o Y).pending = <<>>
<1> DEFINE x == Grouped(kinds, X)
           u == Unplaced(AppendTurns(kinds, NoGrouping, X))
<1>1. Formed(x) /\ ~x.open
  BY UnplacedForm, AppendEachForm DEF Grouped
<1>2. Placed(x) = x
  BY DEF Placed
<1>3. AppendTurns(kinds, NoGrouping, X) = [turns |-> x.turns, open |-> x.open]
  BY <1>2 DEF AppendTurns, Grouped
<1>4. u = [turns |-> x.turns, open |-> x.open, pending |-> <<>>]
  BY <1>3 DEF Unplaced
<1>5. u = x
  BY <1>1, <1>4 DEF Formed
<1>6. AppendEach(kinds, Unplaced(NoGrouping), X \o Y)[Len(X \o Y)]
        = AppendEach(kinds, x, Y)[Len(Y)]
  BY AppendEachConcat DEF Grouped
<1> HIDE DEF x, u
<1>7. AppendTurns(kinds, AppendTurns(kinds, NoGrouping, X), Y)
        = AppendTurns(kinds, NoGrouping, X \o Y)
  BY <1>5, <1>6 DEF AppendTurns, u
<1>8. AppendEach(kinds, x, Y)[Len(Y)].pending # <<>> => Ran(kinds, Y, Len(Y))
  BY <1>1, AppendEachForm DEF x
<1>9. QED
  BY <1>6, <1>7, <1>8 DEF Grouped

\* A batch of no events changes nothing.
LEMMA AppendTurnsEmpty ==
    ASSUME NEW kinds, NEW g, g = [turns |-> g.turns, open |-> g.open]
    PROVE  AppendTurns(kinds, g, <<>>) = g
<1>1. Len(<<>>) = 0
  BY EmptySeq
<1>2. AppendEach(kinds, Unplaced(g), <<>>)[Len(<<>>)] = Unplaced(g)
  BY <1>1, AppendEachSteps
<1>3. Placed(Unplaced(g)) = Unplaced(g)
  BY DEF Placed, Unplaced
<1>4. AppendTurns(kinds, g, <<>>) = [turns |-> g.turns, open |-> g.open]
  BY <1>2, <1>3 DEF AppendTurns, Unplaced
<1>5. QED
  BY <1>4

LEMMA AppendTurnsShape ==
    ASSUME NEW kinds, NEW g, NEW batch
    PROVE  LET h == AppendTurns(kinds, g, batch) IN h = [turns |-> h.turns, open |-> h.open]
BY DEF AppendTurns

LEMMA AppendTurnsNone ==
    ASSUME NEW kinds
    PROVE  AppendTurns(kinds, NoGrouping, <<>>) = NoGrouping
           /\ Grouped(kinds, <<>>).pending = <<>>
<1>1. AppendTurns(kinds, NoGrouping, <<>>) = NoGrouping
  BY AppendTurnsEmpty DEF NoGrouping
<1>2. Len(<<>>) = 0
  BY EmptySeq
<1>3. Grouped(kinds, <<>>) = Unplaced(NoGrouping)
  BY <1>2, AppendEachSteps DEF Grouped
<1>4. QED
  BY <1>1, <1>3, UnplacedForm

LEMMA MinOf ==
    ASSUME NEW T, T \subseteq Nat, T # {}
    PROVE  Min(T) \in T /\ \A y \in T : Min(T) <= y
BY LeastOfMany DEF Min

\* A slice ends outside a run, or with the last of the replay.
LEMMA SliceEnds ==
    ASSUME NEW buffer \in Seq(EventId), NEW done \in BOOLEAN
    PROVE  LET c == ReplaySliceEnd(buffer, done)
           IN  /\ c \in 0..Len(buffer)
               /\ (done /\ c = Len(buffer)) \/ OpenRun(buffer, c) = {}
               /\ done /\ buffer # <<>> => c >= 1
<1> DEFINE desired == Least(SliceSize, Len(buffer))
           opened == OpenRun(buffer, desired)
           closers == {i \in (desired + 1)..Len(buffer) : ClosesCompactionRun(buffer[i])}
           c == ReplaySliceEnd(buffer, done)
<1>1. /\ desired \in 0..Len(buffer) /\ Len(buffer) \in Nat
      /\ buffer # <<>> => desired >= 1 /\ Len(buffer) >= 1
  BY StreamAssumption, EmptySeq DEF Least
<1>2. opened \subseteq 1..desired
  BY DEF OpenRun
<1>3. CASE opened = {}
  <2>1. c = desired
    BY <1>3 DEF ReplaySliceEnd
  <2>2. QED
    BY <1>1, <1>3, <2>1
<1>4. CASE opened # {} /\ closers # {}
  <2>1. c = Min(closers)
    BY <1>4 DEF ReplaySliceEnd
  <2>2. closers \subseteq Nat
    BY <1>1
  <2>3. c \in closers
    <3> HIDE DEF c, closers
    <3>1. QED
      BY <1>4, <2>1, <2>2, MinOf
  <2>4. c \in 1..Len(buffer) /\ ClosesCompactionRun(buffer[c])
    BY <1>1, <2>3
  <2> HIDE DEF c
  <2>5. ASSUME NEW i \in OpenRun(buffer, c) PROVE FALSE
    <3>1. /\ i \in 1..c /\ OpensCompactionRun(buffer[i])
          /\ \A j \in (i + 1)..c : ~ClosesCompactionRun(buffer[j])
      BY <2>5 DEF OpenRun
    <3>2. i = c
      BY <2>4, <3>1
    <3>3. QED
      BY <2>4, <3>1, <3>2 DEF OpensCompactionRun, ClosesCompactionRun
  <2>6. QED
    BY <2>4, <2>5 DEF c
<1>5. CASE opened # {} /\ closers = {} /\ done
  <2>1. c = Len(buffer)
    BY <1>5 DEF ReplaySliceEnd
  <2>2. c \in 0..Len(buffer) /\ (buffer # <<>> => c >= 1)
    BY <1>1, <2>1
  <2>3. done = TRUE
    BY <1>5
  <2> HIDE DEF c, desired
  <2>4. QED
    BY <2>1, <2>2, <2>3 DEF c
<1>6. CASE opened # {} /\ closers = {} /\ ~done
  <2> DEFINE first == Min(opened)
  <2>1. c = first - 1
    BY <1>6 DEF ReplaySliceEnd
  <2>2. first \in opened /\ \A i \in opened : first <= i
    <3>1. opened \subseteq Nat
      BY <1>2
    <3> HIDE DEF opened
    <3>2. QED
      BY <1>6, <3>1, MinOf
  <2>3. /\ first \in 1..desired /\ OpensCompactionRun(buffer[first])
        /\ \A j \in (first + 1)..desired : ~ClosesCompactionRun(buffer[j])
    BY <2>2 DEF OpenRun
  <2>4. ~ClosesCompactionRun(buffer[first])
    BY <2>3 DEF OpensCompactionRun, ClosesCompactionRun
  <2> HIDE DEF first, c, desired
  <2>5. ASSUME NEW i \in OpenRun(buffer, c) PROVE FALSE
    <3>1. /\ i \in 1..c /\ OpensCompactionRun(buffer[i])
          /\ \A j \in (i + 1)..c : ~ClosesCompactionRun(buffer[j])
      BY <2>5 DEF OpenRun
    <3>2. i \in 1..desired /\ i < first
      BY <1>1, <2>1, <2>3, <3>1
    <3>3. ASSUME NEW j \in (i + 1)..desired PROVE ~ClosesCompactionRun(buffer[j])
      <4>1. j \in (i + 1)..c \/ j = first \/ j \in (first + 1)..desired
        BY <1>1, <2>1, <2>3, <3>1
      <4>2. QED
        BY <2>3, <2>4, <3>1, <4>1
    <3>4. i \in opened
      BY <3>1, <3>2, <3>3 DEF OpenRun
    <3>5. QED
      BY <2>2, <2>3, <3>2, <3>4
  <2>6. c \in 0..Len(buffer)
    BY <1>1, <2>1, <2>3
  <2>7. QED
    BY <1>6, <2>5, <2>6 DEF c
<1>7. QED
  BY <1>3, <1>4, <1>5, <1>6

\* Where it ends follows from the kinds of the events queued.
LEMMA SliceEndKept ==
    ASSUME replayBuffer \in Seq(EventId), UNCHANGED <<replayBuffer, replayServerDone>>,
           \A i \in 1..Len(replayBuffer) :
                KindIn(log', replayBuffer[i]) = KindIn(log, replayBuffer[i])
    PROVE  ReplaySliceEnd(replayBuffer, replayServerDone)'
            = ReplaySliceEnd(replayBuffer, replayServerDone)
<1> DEFINE desired == Least(SliceSize, Len(replayBuffer))
           opened == OpenRun(replayBuffer, desired)
           closers == {i \in (desired + 1)..Len(replayBuffer) :
                        ClosesCompactionRun(replayBuffer[i])}
<1>1. desired \in 0..Len(replayBuffer) /\ Len(replayBuffer) \in Nat
  BY StreamAssumption DEF Least
<1>2. desired' = desired
  BY DEF Least
<1>3. ASSUME NEW i \in 1..Len(replayBuffer)
      PROVE  /\ OpensCompactionRun(replayBuffer[i])' = OpensCompactionRun(replayBuffer[i])
             /\ ClosesCompactionRun(replayBuffer[i])' = ClosesCompactionRun(replayBuffer[i])
  BY DEF OpensCompactionRun, ClosesCompactionRun, KindOf
<1>4. opened' = opened
  <2> HIDE DEF desired
  <2>1. \A i \in 1..desired : \A j \in (i + 1)..desired :
            i \in 1..Len(replayBuffer) /\ j \in 1..Len(replayBuffer)
    BY <1>1
  <2>2. \A i \in 1..desired : i \in 1..Len(replayBuffer)
    BY <1>1
  <2>3. ASSUME NEW i \in 1..desired PROVE i \in opened' <=> i \in opened
    BY <1>2, <1>3, <2>1, <2>2 DEF OpenRun
  <2>4. QED
    BY <1>2, <2>3 DEF OpenRun
<1>5. closers' = closers
  BY <1>1, <1>2, <1>3
<1>6. QED
  BY <1>2, <1>4, <1>5 DEF ReplaySliceEnd

-----------------------------------------------------------------------------
(* Steps that move queues only through a slice or a message.               *)

LEMMA DrainType ==
    ASSUME TypeOK, DrainsReplaySlice PROVE TypeOK'
<1>1. PICK take \in 0..Len(replayBuffer) :
        LET batch == SubSeq(replayBuffer, 1, take)
            rest == SubSeq(replayBuffer, take + 1, Len(replayBuffer))
            held == take = 0 /\ rest # <<>>
            ended == rest = <<>> /\ replayServerDone
        IN  /\ replayBuffer' = rest
            /\ IF rest # <<>> /\ ~held
               THEN replayScheduled' = TRUE /\ posted' = posted
               ELSE replayScheduled' = FALSE /\ posted' = posted - 1
            /\ isReplaying' = (isReplaying /\ ~ended)
            /\ IF ended THEN ReplaySliceAndEnd(batch) ELSE ReplaySlice(batch)
  BY DEF DrainsReplaySlice
<1> DEFINE batch == SubSeq(replayBuffer, 1, take)
           rest == SubSeq(replayBuffer, take + 1, Len(replayBuffer))
<1>2. batch \in Seq(EventId) /\ rest \in Seq(EventId)
  BY SliceParts DEF TypeOK
<1> HIDE DEF batch, rest
<1>3. replayBuffer' = rest /\ posted' \in {posted, posted - 1}
      /\ replayScheduled' \in BOOLEAN /\ isReplaying' \in BOOLEAN
      /\ (ReplaySliceAndEnd(batch) \/ ReplaySlice(batch))
  BY <1>1 DEF batch, rest, TypeOK
<1>4. events' \in Seq(EventId) /\ replayReplace' \in BOOLEAN
  <2>1. <<>> \o batch \in Seq(EventId) /\ events \o batch \in Seq(EventId)
    BY <1>2, ConcatProperties, EmptySeq DEF TypeOK
  <2>2. QED
    BY <1>3, <2>1, EmptySeq
    DEF ReplaySliceAndEnd, ReplaySlice, Folds, transcript, TypeOK
<1>5. posted > 0 /\ posted' \in Nat
  <2>1. posted \in Nat /\ posted > 0
    BY DEF DrainsReplaySlice, TypeOK
  <2>2. QED
    BY <1>3, <2>1
<1>6. /\ UNCHANGED <<log, sent, address, link, attempt, moves, replayServerDone,
                     eventBuffer, batchTimeout>>
  BY DEF DrainsReplaySlice, server, connection
<1>7. QED
  BY <1>2, <1>3, <1>4, <1>5, <1>6 DEF TypeOK

LEMMA ReceivesType ==
    ASSUME TypeOK, Addressed, Receives
    PROVE  /\ link' \in LinkType /\ address \in Session
           /\ UNCHANGED <<log, sent, address, attempt, moves>>
           /\ link.got \notin {0, link.snap + 1} => Event \in EventId
<1>1. address \in Session
  BY DEF TypeOK, Addressed, Receives
<1>2. link \in LinkType
  BY DEF TypeOK, LinkType
<1>3. link' \in LinkType
  BY <1>2 DEF Receives, LinkType
<1>4. link.got \notin {0, link.snap + 1} => Event \in EventId
  BY <1>1, <1>2, StreamedEvent DEF Event
<1>5. QED
  BY <1>1, <1>3, <1>4 DEF Receives, server

(* Every step keeps every variable of the tab in its type.                 *)
LEMMA TypeStep == ASSUME TypeOK, Addressed, [Next]_vars PROVE TypeOK'
<1>1. ASSUME NEW s \in Session, NEW kind \in Kind, Persists(s, kind) PROVE TypeOK'
  BY <1>1 DEF Persists, TypeOK, connection, queues, transcript
<1>2. ASSUME NEW s \in Session, Broadcasts(s) PROVE TypeOK'
  BY <1>2 DEF Broadcasts, TypeOK, connection, queues, transcript
<1>3. ASSUME NEW s \in Session, Reconnects(s) PROVE TypeOK'
  <2>1. /\ link' \in LinkType /\ address' \in Session
        /\ attempt' \in 0..MaxAttempts /\ moves' \in 0..MaxMoves
    <3>1. link' \in LinkType /\ address' \in Session
      BY <1>3 DEF Reconnects, NoLink, LinkType
    <3>2. moves \in 0..MaxMoves
      BY DEF TypeOK
    <3>3. attempt' \in 0..MaxAttempts /\ moves' \in 0..MaxMoves
      BY <1>3, <3>2, StreamAssumption DEF Reconnects
    <3>4. QED
      BY <3>1, <3>3
  <2>2. /\ isReplaying' = FALSE /\ replayServerDone' = FALSE
        /\ replayBuffer' \in Seq(EventId) /\ eventBuffer' \in Seq(EventId)
        /\ replayScheduled' = FALSE /\ batchTimeout' = FALSE /\ posted' = posted
    BY <1>3, EmptySeq DEF Reconnects, ResetEventBuffers
  <2>3. UNCHANGED <<log, sent, events>> /\ replayReplace' = TRUE
    BY <1>3 DEF Reconnects, server
  <2>4. QED
    BY <2>1, <2>2, <2>3 DEF TypeOK, LinkType
<1>4. CASE Connects
  <2>1. address \in Session
    BY <1>4 DEF Connects, TypeOK, Addressed
  <2>2. Len(log[address]) \in Nat /\ sent[address] \in Nat
    BY <2>1 DEF TypeOK
  <2>3. QED
    BY <1>4, <2>2, StreamAssumption DEF Connects, TypeOK, server, queues, transcript
<1>5. CASE Fails
  <2>1. link \in LinkType /\ attempt \in 0..MaxAttempts /\ moves \in 0..MaxMoves
    BY DEF TypeOK, LinkType
  <2>2. link' \in LinkType
    BY <1>5, <2>1 DEF Fails, Linked, LinkType
  <2>3. attempt' \in 0..MaxAttempts
    BY <1>5, <2>1, StreamAssumption DEF Fails
  <2>4. moves' \in 0..MaxMoves
    BY <1>5, <2>1, StreamAssumption DEF Fails
  <2>5. UNCHANGED <<log, sent, address, queues, transcript>>
    BY <1>5 DEF Fails, server
  <2>6. QED
    BY <2>2, <2>3, <2>4, <2>5 DEF TypeOK, LinkType, queues, transcript
<1>6. CASE Retries
  BY <1>6 DEF Retries, Linked, TypeOK, server, queues, transcript
<1>7. CASE Disconnects \/ Closes
  <2>1. /\ link' \in LinkType /\ address' \in {address, None}
        /\ attempt' = attempt /\ moves' \in 0..MaxMoves
    BY <1>7, StreamAssumption DEF Disconnects, Closes, NoLink, LinkType, TypeOK
  <2>2. ClearEvents /\ UNCHANGED <<log, sent>>
    BY <1>7 DEF Disconnects, Closes, server
  <2>3. /\ isReplaying' = FALSE /\ replayServerDone' = FALSE
        /\ replayBuffer' \in Seq(EventId) /\ eventBuffer' \in Seq(EventId)
        /\ replayScheduled' = FALSE /\ batchTimeout' = FALSE /\ posted' = posted
        /\ events' \in Seq(EventId) /\ replayReplace' = FALSE
    BY <2>2, EmptySeq DEF ClearEvents, ResetEventBuffers
  <2>4. QED
    BY <2>1, <2>2, <2>3 DEF TypeOK, LinkType
<1>8. CASE ReplayStarted
  BY <1>8, ReceivesType, EmptySeq DEF ReplayStarted, TypeOK, LinkType
<1>9. CASE ReplayEnded
  <2>1. replayBuffer \o eventBuffer \in Seq(EventId)
    BY ConcatProperties DEF TypeOK
  <2>2. link' \in LinkType /\ UNCHANGED <<log, sent, address, attempt, moves>>
    BY <1>9, ReceivesType DEF ReplayEnded
  <2>3. /\ replayServerDone' = TRUE /\ replayBuffer' = replayBuffer \o eventBuffer
        /\ eventBuffer' = <<>> /\ replayScheduled' = TRUE /\ posted' \in {posted, posted + 1}
        /\ UNCHANGED <<isReplaying, batchTimeout, events, replayReplace>>
    BY <1>9 DEF ReplayEnded, ScheduleReplayDrain, transcript
  <2>4. QED
    BY <2>1, <2>2, <2>3, EmptySeq DEF TypeOK, LinkType
<1>10. CASE Queues
  <2>1. Append(replayBuffer, Event) \in Seq(EventId)
    BY <1>10, ReceivesType, AppendProperties DEF Queues, TypeOK
  <2>2. link' \in LinkType /\ UNCHANGED <<log, sent, address, attempt, moves>>
    BY <1>10, ReceivesType DEF Queues
  <2>3. /\ replayBuffer' = Append(replayBuffer, Event)
        /\ replayScheduled' = TRUE /\ posted' \in {posted, posted + 1}
        /\ UNCHANGED <<isReplaying, replayServerDone, eventBuffer, batchTimeout,
                       events, replayReplace>>
    BY <1>10 DEF Queues, ScheduleReplayDrain, transcript
  <2>4. QED
    BY <2>1, <2>2, <2>3 DEF TypeOK, LinkType
<1>11. CASE Batches
  <2>1. Append(eventBuffer, Event) \in Seq(EventId)
    BY <1>11, ReceivesType, AppendProperties DEF Batches, TypeOK
  <2>2. events \o Append(eventBuffer, Event) \in Seq(EventId)
    BY <2>1, ConcatProperties DEF TypeOK
  <2>3. /\ events' \in Seq(EventId) /\ eventBuffer' \in Seq(EventId)
        /\ batchTimeout' \in BOOLEAN
    BY <1>11, <2>1, <2>2, EmptySeq DEF Batches, Folds, TypeOK
  <2>4. QED
    BY <1>11, <2>3, ReceivesType DEF Batches, TypeOK, LinkType
<1>12. CASE FlushesBatch
  <2>1. events \o eventBuffer \in Seq(EventId)
    BY ConcatProperties DEF TypeOK
  <2>2. QED
    BY <1>12, <2>1, EmptySeq DEF FlushesBatch, Folds, TypeOK, server, connection
<1>13. CASE DrainsReplaySlice
  BY <1>13, DrainType
<1>14. CASE UNCHANGED vars
  BY <1>14 DEF vars, server, connection, queues, transcript, TypeOK
<1>15. QED
  BY <1>1, <1>2, <1>3, <1>4, <1>5, <1>6, <1>7, <1>8, <1>9, <1>10, <1>11, <1>12, <1>13, <1>14
  DEF Next

-----------------------------------------------------------------------------
(* A step that leaves the link's messages, the queues and the transcript   *)
(* alone keeps what they hold.                                             *)
Held == <<isReplaying, replayServerDone, replayBuffer, eventBuffer, batchTimeout,
          events, replayReplace>>

LEMMA Untouched ==
    ASSUME IInv, UNCHANGED Held, address' = address,
           \/ link' = link
           \/ /\ link.status # "none"
              /\ link'.snap = link.snap /\ link'.base = link.base /\ link'.got = link.got
              /\ link'.status \in {"error", "reconnecting"}
    PROVE  Addressed' /\ BatchDue' /\ FreshLink' /\ ReplayQueues' /\ TranscriptFollowsStream'
<1>1. Streamed(address', link') = Streamed(address, link)
  BY DEF Streamed
<1>2. TranscriptFollowsStream'
  BY <1>1 DEF IInv, Held, TranscriptFollowsStream
<1>3. Addressed' /\ BatchDue' /\ FreshLink' /\ ReplayQueues'
  BY DEF IInv, Held, Addressed, BatchDue, FreshLink, ReplayQueues
<1>4. QED
  BY <1>2, <1>3

(* Nothing is claimed of a connection that has sent nothing, but that the  *)
(* batch is empty.                                                         *)
LEMMA Fresh ==
    ASSUME TypeOK, link'.got = 0, eventBuffer' = <<>>,
           address' = None => link'.status = "none"
    PROVE  Addressed' /\ BatchDue' /\ FreshLink' /\ ReplayQueues' /\ TranscriptFollowsStream'
BY DEF Addressed, BatchDue, FreshLink, ReplayQueues, TranscriptFollowsStream

LEMMA DrainFollows ==
    ASSUME IInv, DrainsReplaySlice
    PROVE  Addressed' /\ BatchDue' /\ FreshLink' /\ ReplayQueues' /\ TranscriptFollowsStream'
<1>1. PICK take \in 0..Len(replayBuffer) :
        LET batch == SubSeq(replayBuffer, 1, take)
            rest == SubSeq(replayBuffer, take + 1, Len(replayBuffer))
            ended == rest = <<>> /\ replayServerDone
        IN  /\ replayBuffer' = rest
            /\ isReplaying' = (isReplaying /\ ~ended)
            /\ IF ended THEN ReplaySliceAndEnd(batch) ELSE ReplaySlice(batch)
  BY DEF DrainsReplaySlice
<1> DEFINE batch == SubSeq(replayBuffer, 1, take)
           rest == SubSeq(replayBuffer, take + 1, Len(replayBuffer))
           ended == rest = <<>> /\ replayServerDone
<1>2. /\ batch \in Seq(EventId) /\ rest \in Seq(EventId) /\ batch \o rest = replayBuffer
  BY SliceParts DEF IInv, TypeOK
<1> HIDE DEF batch, rest
<1>3. /\ replayBuffer' = rest /\ isReplaying' = (isReplaying /\ ~ended)
      /\ IF ended THEN ReplaySliceAndEnd(batch) ELSE ReplaySlice(batch)
  BY <1>1 DEF batch, rest
<1>4. UNCHANGED <<sent, address, link, replayServerDone, eventBuffer, batchTimeout>>
  BY DEF DrainsReplaySlice, server, connection
<1>5. Addressed' /\ BatchDue' /\ FreshLink'
  BY <1>4 DEF IInv, Addressed, BatchDue, FreshLink
<1>6. ASSUME link.got > 0
      PROVE  (IF replayReplace' THEN <<>> ELSE events') =
                (IF replayReplace THEN <<>> ELSE events) \o batch
  <2>1. <<>> \o batch = batch /\ <<>> \o <<>> = <<>> /\ events \o <<>> = events
    BY <1>2, ConcatEmptySeq, EmptySeq DEF IInv, TypeOK
  <2>2. CASE batch = <<>>
    BY <1>3, <2>1, <2>2 DEF ReplaySliceAndEnd, ReplaySlice, transcript
  <2>3. CASE batch # <<>>
    BY <1>3, <2>1, <2>3 DEF ReplaySliceAndEnd, ReplaySlice, Folds
  <2>4. QED
    BY <2>2, <2>3
<1>7. TranscriptFollowsStream'
  <2>1. SUFFICES ASSUME link.got > 0
                 PROVE  (IF replayReplace' THEN <<>> ELSE events') \o rest \o eventBuffer
                            = Streamed(address, link)
    BY <1>3, <1>4 DEF TranscriptFollowsStream, Streamed
  <2> DEFINE base == IF replayReplace THEN <<>> ELSE events
  <2>2. base \in Seq(EventId)
    BY EmptySeq DEF IInv, TypeOK
  <2>3. base \o replayBuffer \o eventBuffer = Streamed(address, link)
    BY <2>1 DEF IInv, TranscriptFollowsStream
  <2> HIDE DEF base
  <2>4. (base \o batch) \o rest = base \o replayBuffer
    <3>1. (base \o batch) \o rest = base \o (batch \o rest)
      <4>1. base \in Seq(EventId) /\ batch \in Seq(EventId) /\ rest \in Seq(EventId)
        BY <1>2, <2>2
      <4>2. QED
        BY <4>1, ConcatAssociative
    <3>2. QED
      BY <1>2, <3>1
  <2>5. QED
    BY <1>6, <2>1, <2>3, <2>4 DEF base
<1>8. ReplayQueues'
  <2>1. SUFFICES ASSUME link.got > 0
                 PROVE  /\ link.got <= link.snap + 1 => isReplaying' /\ ~replayServerDone
                        /\ isReplaying' => eventBuffer = <<>>
                        /\ ~isReplaying' => replayBuffer' = <<>> /\ ~replayReplace'
    BY <1>4 DEF ReplayQueues
  <2>2. CASE isReplaying /\ ended
    <3>1. ~replayReplace' /\ rest = <<>>
      BY <1>3, <2>2 DEF ReplaySliceAndEnd, ReplaySlice, transcript, IInv, TypeOK
    <3>2. QED
      BY <1>3, <2>1, <2>2, <3>1 DEF IInv, ReplayQueues
  <2>3. CASE isReplaying /\ ~ended
    BY <1>3, <2>1, <2>3 DEF IInv, ReplayQueues
  <2>4. CASE ~isReplaying
    <3>1. replayBuffer = <<>> /\ ~replayReplace
      BY <2>1, <2>4 DEF IInv, ReplayQueues
    <3>2. rest = <<>>
      BY <1>2, <3>1, ConcatEqualIffEmpty, ConcatSimplifications
    <3>3. ~replayReplace'
      BY <1>3, <3>1 DEF ReplaySliceAndEnd, ReplaySlice, transcript
    <3>4. QED
      BY <1>3, <2>1, <2>4, <3>2, <3>3 DEF IInv, ReplayQueues
  <2>5. QED
    BY <2>2, <2>3, <2>4
<1>9. QED
  BY <1>5, <1>7, <1>8

\* What a handled message leaves of the strengthening.
LEMMA StartFollows ==
    ASSUME IInv, ReplayStarted
    PROVE  Addressed' /\ BatchDue' /\ FreshLink' /\ ReplayQueues' /\ TranscriptFollowsStream'
<1>1. link \in LinkType /\ address \in Session
  BY ReceivesType DEF IInv, TypeOK, LinkType, ReplayStarted
<1>2. /\ link' = [link EXCEPT !.got = @ + 1] /\ link'.got = 1
      /\ link'.snap = link.snap /\ link'.status = link.status /\ link.status = "connected"
      /\ UNCHANGED <<address, eventBuffer, batchTimeout>>
      /\ isReplaying' /\ ~replayServerDone' /\ replayBuffer' = <<>> /\ replayReplace'
  BY <1>1 DEF ReplayStarted, Receives, LinkType
<1>3. eventBuffer = <<>>
  BY DEF IInv, FreshLink, ReplayStarted, Receives
<1>4. Streamed(address', link') = <<>>
  BY <1>1, <1>2, StreamedMark DEF ReplayStarted
<1>5. TranscriptFollowsStream'
  BY <1>2, <1>3, <1>4, EmptySeq, ConcatEmptySeq DEF TranscriptFollowsStream
<1>6. QED
  BY <1>1, <1>2, <1>3, <1>5
  DEF IInv, Addressed, BatchDue, FreshLink, ReplayQueues, LinkType

LEMMA EndFollows ==
    ASSUME IInv, ReplayEnded
    PROVE  Addressed' /\ BatchDue' /\ FreshLink' /\ ReplayQueues' /\ TranscriptFollowsStream'
<1>1. link \in LinkType /\ address \in Session
  BY ReceivesType DEF IInv, TypeOK, LinkType, ReplayEnded
<1>2. /\ link' = [link EXCEPT !.got = @ + 1] /\ link'.got = link.snap + 2
      /\ link.got = link.snap + 1 /\ link.snap \in Nat
      /\ link'.snap = link.snap /\ link'.status = link.status /\ link.status = "connected"
      /\ UNCHANGED <<address, isReplaying, events, replayReplace, batchTimeout>>
      /\ replayBuffer' = replayBuffer \o eventBuffer /\ eventBuffer' = <<>>
  BY <1>1 DEF ReplayEnded, Receives, LinkType, transcript
<1>3. isReplaying /\ eventBuffer = <<>>
  BY <1>2 DEF IInv, ReplayQueues
<1>4. Streamed(address', link') = Streamed(address, link)
  BY <1>1, <1>2, StreamedMark
<1>5. replayBuffer' = replayBuffer
  BY <1>2, <1>3, ConcatEmptySeq DEF IInv, TypeOK
<1>6. TranscriptFollowsStream'
  <2>1. (IF replayReplace THEN <<>> ELSE events) \o replayBuffer \o eventBuffer
            = Streamed(address, link)
    BY <1>2 DEF IInv, TranscriptFollowsStream
  <2>2. eventBuffer' = eventBuffer /\ events' = events /\ replayReplace' = replayReplace
    BY <1>2, <1>3
  <2>3. QED
    BY <1>4, <1>5, <2>1, <2>2 DEF TranscriptFollowsStream
<1>7. QED
  BY <1>1, <1>2, <1>3, <1>6
  DEF IInv, Addressed, BatchDue, FreshLink, ReplayQueues, LinkType

LEMMA QueueFollows ==
    ASSUME IInv, Queues
    PROVE  Addressed' /\ BatchDue' /\ FreshLink' /\ ReplayQueues' /\ TranscriptFollowsStream'
<1>1. link \in LinkType /\ address \in Session /\ Event \in EventId
  BY ReceivesType DEF IInv, TypeOK, LinkType, Queues
<1>2. /\ link' = [link EXCEPT !.got = @ + 1] /\ link'.got = link.got + 1
      /\ link.got \in Nat \ {0} /\ link.snap \in Nat /\ link.got # link.snap + 1
      /\ link'.snap = link.snap /\ link'.status = link.status /\ link.status = "connected"
      /\ UNCHANGED <<address, isReplaying, replayServerDone, eventBuffer, batchTimeout,
                     events, replayReplace>>
      /\ isReplaying /\ replayBuffer' = Append(replayBuffer, Event)
  BY <1>1 DEF Queues, Receives, LinkType, transcript
<1>3. eventBuffer = <<>>
  BY <1>2 DEF IInv, ReplayQueues
<1>4. Streamed(address', link') = Append(Streamed(address, link), Event)
  BY <1>1, <1>2, StreamedEvent DEF Event
<1> DEFINE base == IF replayReplace THEN <<>> ELSE events
           queue == replayBuffer
<1>5. base \in Seq(EventId) /\ queue \in Seq(EventId)
  BY EmptySeq DEF IInv, TypeOK
<1>6. (base \o queue) \o <<>> = Streamed(address, link)
  BY <1>2, <1>3 DEF IInv, TranscriptFollowsStream
<1>7. (base \o Append(queue, Event)) \o <<>> = Append(Streamed(address, link), Event)
        => TranscriptFollowsStream'
  BY <1>2, <1>3, <1>4 DEF TranscriptFollowsStream
<1> HIDE DEF base, queue
<1>8. TranscriptFollowsStream'
  <2>1. /\ <<Event>> \in Seq(EventId) /\ base \o queue \in Seq(EventId)
        /\ Append(queue, Event) \in Seq(EventId)
    BY <1>1, <1>5, ConcatProperties, AppendProperties
  <2>2. base \o Append(queue, Event) \in Seq(EventId)
    BY <1>5, <2>1, ConcatProperties
  <2>3. /\ Append(queue, Event) = queue \o <<Event>>
        /\ Append(base \o queue, Event) = (base \o queue) \o <<Event>>
    BY <1>1, <1>5, <2>1, AppendIsConcat
  <2>4. base \o Append(queue, Event) = Append(base \o queue, Event)
    BY <1>5, <2>1, <2>3, ConcatAssociative
  <2>5. QED
    BY <1>6, <1>7, <2>1, <2>2, <2>4, ConcatEmptySeq
<1>9. QED
  BY <1>1, <1>2, <1>3, <1>8
  DEF IInv, Addressed, BatchDue, FreshLink, ReplayQueues, LinkType

LEMMA BatchFollows ==
    ASSUME IInv, Batches
    PROVE  Addressed' /\ BatchDue' /\ FreshLink' /\ ReplayQueues' /\ TranscriptFollowsStream'
<1>1. link \in LinkType /\ address \in Session /\ Event \in EventId
  BY ReceivesType DEF IInv, TypeOK, LinkType, Batches
<1>2. /\ link' = [link EXCEPT !.got = @ + 1] /\ link'.got = link.got + 1
      /\ link.got \in Nat \ {0} /\ link.snap \in Nat /\ link.got # link.snap + 1
      /\ link'.snap = link.snap /\ link'.status = link.status /\ link.status = "connected"
      /\ UNCHANGED <<address, isReplaying, replayServerDone, replayBuffer, replayReplace>>
      /\ ~isReplaying
  BY <1>1 DEF Batches, Receives, LinkType
<1>3. replayBuffer = <<>> /\ ~replayReplace
  BY <1>2 DEF IInv, ReplayQueues
<1>4. Streamed(address', link') = Append(Streamed(address, link), Event)
  BY <1>1, <1>2, StreamedEvent DEF Event
<1> DEFINE shown == events
           batch == eventBuffer
<1>5. shown \in Seq(EventId) /\ batch \in Seq(EventId)
  BY DEF IInv, TypeOK
<1>6. (shown \o <<>>) \o batch = Streamed(address, link)
  BY <1>2, <1>3 DEF IInv, TranscriptFollowsStream
<1>7. \/ events' = shown \o Append(batch, Event) /\ eventBuffer' = <<>>
      \/ events' = shown /\ eventBuffer' = Append(batch, Event) /\ batchTimeout'
  BY DEF Batches, Folds
<1>8. (events' \o <<>>) \o eventBuffer' = Append(Streamed(address, link), Event)
        => TranscriptFollowsStream'
  BY <1>2, <1>3, <1>4 DEF TranscriptFollowsStream
<1>9. BatchDue'
  BY <1>7 DEF BatchDue
<1> HIDE DEF shown, batch
<1>10. TranscriptFollowsStream'
  <2>1. /\ <<Event>> \in Seq(EventId) /\ Append(batch, Event) \in Seq(EventId)
        /\ shown \o batch \in Seq(EventId) /\ shown \o <<>> = shown
    BY <1>1, <1>5, ConcatProperties, AppendProperties, ConcatEmptySeq
  <2>2. shown \o Append(batch, Event) \in Seq(EventId)
    BY <1>5, <2>1, ConcatProperties
  <2>3. /\ Append(batch, Event) = batch \o <<Event>>
        /\ Append(shown \o batch, Event) = (shown \o batch) \o <<Event>>
    BY <1>1, <1>5, <2>1, AppendIsConcat
  <2>4. shown \o Append(batch, Event) = Append(shown \o batch, Event)
    BY <1>5, <2>1, <2>3, ConcatAssociative
  <2>5. (events' \o <<>>) \o eventBuffer' = shown \o Append(batch, Event)
    BY <1>5, <1>7, <2>1, <2>2, ConcatEmptySeq
  <2>6. QED
    BY <1>6, <1>8, <2>1, <2>4, <2>5
<1>11. QED
  BY <1>1, <1>2, <1>3, <1>9, <1>10
  DEF IInv, Addressed, FreshLink, ReplayQueues, LinkType

LEMMA FlushFollows ==
    ASSUME IInv, FlushesBatch
    PROVE  Addressed' /\ BatchDue' /\ FreshLink' /\ ReplayQueues' /\ TranscriptFollowsStream'
<1>1. /\ UNCHANGED <<address, link, isReplaying, replayServerDone, replayBuffer, replayReplace>>
      /\ eventBuffer' = <<>> /\ events' = events \o eventBuffer
  BY DEF FlushesBatch, Folds, connection
<1>2. Addressed' /\ BatchDue' /\ FreshLink' /\ ReplayQueues'
  BY <1>1 DEF IInv, Addressed, BatchDue, FreshLink, ReplayQueues
<1>3. ASSUME link.got > 0, isReplaying PROVE events' = events /\ eventBuffer' = eventBuffer
  BY <1>1, <1>3, ConcatEmptySeq DEF IInv, TypeOK, ReplayQueues
<1>4. ASSUME link.got > 0, ~isReplaying
      PROVE  (events' \o <<>>) \o <<>> = (events \o <<>>) \o eventBuffer
  <2>1. events \o eventBuffer \in Seq(EventId) /\ events \in Seq(EventId)
    BY ConcatProperties DEF IInv, TypeOK
  <2>2. QED
    BY <1>1, <2>1, ConcatEmptySeq
<1>5. TranscriptFollowsStream'
  <2>1. SUFFICES ASSUME link.got > 0
                 PROVE  (IF replayReplace THEN <<>> ELSE events') \o replayBuffer \o <<>>
                            = Streamed(address, link)
    BY <1>1 DEF TranscriptFollowsStream, Streamed
  <2>2. (IF replayReplace THEN <<>> ELSE events) \o replayBuffer \o eventBuffer
            = Streamed(address, link)
    BY <2>1 DEF IInv, TranscriptFollowsStream
  <2>3. CASE isReplaying
    BY <1>1, <1>3, <2>1, <2>2, <2>3
  <2>4. CASE ~isReplaying
    <3>1. replayBuffer = <<>> /\ ~replayReplace
      BY <2>1, <2>4 DEF IInv, ReplayQueues
    <3>2. QED
      BY <1>4, <2>1, <2>2, <2>4, <3>1
  <2>5. QED
    BY <2>3, <2>4
<1>6. QED
  BY <1>2, <1>5

-----------------------------------------------------------------------------
LEMMA Step == ASSUME IInv, [Next]_vars PROVE IInv'
<1> DEFINE Rest == Addressed /\ BatchDue /\ FreshLink /\ ReplayQueues
                     /\ TranscriptFollowsStream
<1>1. TypeOK'
  BY TypeStep DEF IInv
<1>2. ASSUME NEW s \in Session, NEW kind \in Kind, Persists(s, kind) PROVE Rest'
  BY <1>2, Untouched DEF Persists, Held, connection, queues, transcript
<1>3. ASSUME NEW s \in Session, Broadcasts(s) PROVE Rest'
  BY <1>3, Untouched DEF Broadcasts, Held, connection, queues, transcript
<1>4. ASSUME NEW s \in Session, Reconnects(s) PROVE Rest'
  <2>1. link'.got = 0 /\ eventBuffer' = <<>> /\ address' # None
    BY <1>4, StreamAssumption DEF Reconnects, NoLink, ResetEventBuffers
  <2>2. QED
    BY <2>1, Fresh DEF IInv
<1>5. ASSUME Connects PROVE Rest'
  <2>1. link'.got = 0 /\ eventBuffer' = <<>> /\ address' # None
    BY <1>5 DEF Connects, queues, IInv, FreshLink, Addressed
  <2>2. QED
    BY <2>1, Fresh DEF IInv
<1>6. ASSUME Fails PROVE Rest'
  BY <1>6, Untouched DEF Fails, Linked, Held, queues, transcript, IInv, TypeOK
<1>7. ASSUME Retries PROVE Rest'
  <2>1. /\ address' = address /\ link' = Linked("connecting") /\ link.status = "reconnecting"
        /\ ~batchTimeout /\ UNCHANGED Held
    BY <1>7 DEF Retries, Held, queues, transcript
  <2>2. eventBuffer = <<>>
    BY <2>1 DEF IInv, BatchDue
  <2>3. /\ link'.got = link.got /\ link'.snap = link.snap /\ link'.base = link.base
        /\ link'.status = "connecting"
    BY <2>1 DEF Linked, IInv, TypeOK
  <2>4. Streamed(address', link') = Streamed(address, link)
    BY <2>1, <2>3 DEF Streamed
  <2>5. TranscriptFollowsStream'
    BY <2>1, <2>3, <2>4 DEF IInv, Held, TranscriptFollowsStream
  <2>6. QED
    BY <2>1, <2>2, <2>3, <2>5
    DEF IInv, Held, Addressed, BatchDue, FreshLink, ReplayQueues
<1>8. ASSUME Disconnects \/ Closes PROVE Rest'
  <2>1. link'.got = 0 /\ eventBuffer' = <<>> /\ (address' = None => link'.status = "none")
    BY <1>8 DEF Disconnects, Closes, NoLink, ClearEvents, ResetEventBuffers
  <2>2. QED
    BY <2>1, Fresh DEF IInv
<1>9. ASSUME ReplayStarted PROVE Rest'
  BY <1>9, StartFollows
<1>10. ASSUME ReplayEnded PROVE Rest'
  BY <1>10, EndFollows
<1>11. ASSUME Queues PROVE Rest'
  BY <1>11, QueueFollows
<1>12. ASSUME Batches PROVE Rest'
  BY <1>12, BatchFollows
<1>13. ASSUME FlushesBatch PROVE Rest'
  BY <1>13, FlushFollows
<1>14. ASSUME DrainsReplaySlice PROVE Rest'
  BY <1>14, DrainFollows
<1>15. ASSUME UNCHANGED vars PROVE Rest'
  BY <1>15, Untouched DEF vars, connection, queues, transcript, Held
<1>16. Rest'
  BY <1>2, <1>3, <1>4, <1>5, <1>6, <1>7, <1>8, <1>9, <1>10, <1>11, <1>12, <1>13, <1>14, <1>15
  DEF Next
<1>17. QED
  BY <1>1, <1>16 DEF IInv

LEMMA Start == Init => IInv
<1> SUFFICES ASSUME Init PROVE IInv
  OBVIOUS
<1>1. TypeOK
  <2>1. log \in [Session -> Seq(Kind)] /\ sent \in [Session -> Nat]
    BY EmptySeq DEF Init
  <2>2. /\ replayBuffer \in Seq(EventId) /\ eventBuffer \in Seq(EventId)
        /\ events \in Seq(EventId)
    BY EmptySeq DEF Init
  <2>3. attempt \in 0..MaxAttempts /\ moves \in 0..MaxMoves /\ posted \in Nat
    BY StreamAssumption DEF Init
  <2>4. QED
    BY <2>1, <2>2, <2>3 DEF Init, TypeOK, NoLink
<1>2. QED
  BY <1>1 DEF Init, IInv, Addressed, BatchDue, FreshLink, ReplayQueues,
              TranscriptFollowsStream, NoLink

THEOREM Invariance == Spec => []IInv
<1>1. QED
  BY Start, Step, PTL DEF Spec

(* The tab's state stays in its types: the port never owes a message it    *)
(* was not sent, the attempts never pass their bound.                      *)
THEOREM TypeCorrect == Spec => []TypeOK
<1>1. IInv => TypeOK
  BY DEF IInv
<1>2. QED
  BY <1>1, Invariance, PTL

(* Whatever is lost, reopened, reset or drained late, transcript, queue    *)
(* and batch hold what the connection has sent, once and in order.         *)
THEOREM FollowsStream == Spec => []TranscriptFollowsStream
<1>1. IInv => TranscriptFollowsStream
  BY DEF IInv
<1>2. QED
  BY <1>1, Invariance, PTL

-----------------------------------------------------------------------------
(* The second strengthening: what the transcript holds, and how it is      *)
(* grouped, while a replay is drained.                                     *)

LoggedIn(kinds, q) ==
    \A i \in 1..Len(q) : q[i][1] \in Session /\ q[i][2] \in 1..Len(kinds[q[i][1]])

\* Everything read of a session is on its disk.
QueuesLogged == LoggedIn(log, events) /\ LoggedIn(log, replayBuffer) /\ LoggedIn(log, eventBuffer)

LogAhead ==
    /\ \A s \in Session : sent[s] <= Len(log[s])
    /\ address \in Session => link.snap <= Len(log[address])
    /\ address = None => link.got = 0

\* The replay ends with all that was on disk in the transcript.
ReplayShown == link.got > 0 /\ ~isReplaying => Len(events) >= link.snap

\* Up to its last slice a replay is folded whole, and nothing waits between
\* two slices.
GroupedSoFar ==
    link.got > 0 /\ ~replayReplace /\ Len(events) <= link.snap =>
        /\ grouping = AppendTurns(log, NoGrouping, events)
        /\ Len(events) < link.snap => Grouped(log, events).pending = <<>>

(* Whenever the queue has a slice to give, or a replay all of whose events *)
(* have arrived is still to be ended, a drain is under way: no message is  *)
(* left without the one that handles it (scheduleReplayDrain's flag,       *)
(* cleared by a reset while its port message is under way).                *)
NoWakeupMissed ==
    \/ isReplaying /\ replayServerDone
    \/ ReplaySliceEnd(replayBuffer, replayServerDone) > 0
  => posted > 0

DrainDue == (replayScheduled => posted > 0) /\ NoWakeupMissed

GInv == QueuesLogged /\ LogAhead /\ ReplayShown /\ GroupedSoFar /\ DrainDue

-----------------------------------------------------------------------------
LEMMA LoggedConcat ==
    ASSUME NEW kinds, NEW X \in Seq(EventId), NEW Y \in Seq(EventId),
           LoggedIn(kinds, X), LoggedIn(kinds, Y)
    PROVE  LoggedIn(kinds, X \o Y)
<1>1. /\ Len(X \o Y) = Len(X) + Len(Y) /\ Len(X) \in Nat /\ Len(Y) \in Nat
      /\ \A i \in 1..Len(X) : (X \o Y)[i] = X[i]
      /\ \A i \in 1..Len(Y) : (X \o Y)[Len(X) + i] = Y[i]
  BY ConcatProperties
<1>2. ASSUME NEW i \in 1..Len(X \o Y)
      PROVE  (X \o Y)[i][1] \in Session /\ (X \o Y)[i][2] \in 1..Len(kinds[(X \o Y)[i][1]])
  <2>1. CASE i \in 1..Len(X)
    BY <1>1, <2>1 DEF LoggedIn
  <2>2. CASE i > Len(X)
    <3>1. PICK j \in 1..Len(Y) : i = Len(X) + j
      <4>1. i - Len(X) \in 1..Len(Y) /\ i = Len(X) + (i - Len(X))
        BY <1>1, <2>2
      <4>2. QED
        BY <4>1
    <3>2. (X \o Y)[i] = Y[j]
      BY <1>1, <3>1
    <3>3. QED
      BY <3>2 DEF LoggedIn
  <2>3. QED
    BY <1>1, <2>1, <2>2
<1>3. QED
  BY <1>2 DEF LoggedIn

LEMMA LoggedParts ==
    ASSUME NEW kinds, NEW buffer \in Seq(EventId), NEW take \in 0..Len(buffer),
           LoggedIn(kinds, buffer)
    PROVE  /\ LoggedIn(kinds, SubSeq(buffer, 1, take))
           /\ LoggedIn(kinds, SubSeq(buffer, take + 1, Len(buffer)))
<1>1. /\ Len(SubSeq(buffer, 1, take)) = take
      /\ \A i \in 1..take : SubSeq(buffer, 1, take)[i] = buffer[i] /\ i \in 1..Len(buffer)
  BY SubSeqProperties
<1>2. /\ Len(SubSeq(buffer, take + 1, Len(buffer))) = Len(buffer) - take
      /\ \A i \in 1..(Len(buffer) - take) :
            /\ SubSeq(buffer, take + 1, Len(buffer))[i] = buffer[take + i]
            /\ take + i \in 1..Len(buffer)
  BY SubSeqProperties
<1>3. QED
  BY <1>1, <1>2 DEF LoggedIn

\* A log only grows: what was read of it stays, of the same kind.
LEMMA LogGrows ==
    ASSUME TypeOK, NEW s \in Session, NEW kind \in Kind, Persists(s, kind),
           NEW q, LoggedIn(log, q)
    PROVE  /\ LoggedIn(log', q)
           /\ \A i \in 1..Len(q) : KindIn(log', q[i]) = KindIn(log, q[i])
<1>1. /\ log \in [Session -> Seq(Kind)]
      /\ log' = [log EXCEPT ![s] = Append(@, kind)]
  BY DEF TypeOK, Persists
<1>2. /\ Len(Append(log[s], kind)) = Len(log[s]) + 1 /\ Len(log[s]) \in Nat
      /\ \A i \in 1..Len(log[s]) : Append(log[s], kind)[i] = log[s][i]
  BY <1>1, AppendProperties
<1>3. ASSUME NEW i \in 1..Len(q)
      PROVE  /\ q[i][2] \in 1..Len(log'[q[i][1]])
             /\ KindIn(log', q[i]) = KindIn(log, q[i])
  <2>1. q[i][1] \in Session /\ q[i][2] \in 1..Len(log[q[i][1]])
    BY DEF LoggedIn
  <2>2. CASE q[i][1] = s
    <3>1. log'[q[i][1]] = Append(log[s], kind)
      BY <1>1, <2>2
    <3>2. QED
      BY <1>2, <2>1, <2>2, <3>1 DEF KindIn
  <2>3. CASE q[i][1] # s
    <3>1. log'[q[i][1]] = log[q[i][1]]
      BY <1>1, <2>1, <2>3
    <3>2. QED
      BY <2>1, <3>1 DEF KindIn
  <2>4. QED
    BY <2>2, <2>3
<1>4. QED
  BY <1>3 DEF LoggedIn

LEMMA EventLogged ==
    ASSUME IInv, LogAhead, Receives, link.got \notin {0, link.snap + 1}
    PROVE  Event[1] \in Session /\ Event[2] \in 1..Len(log[Event[1]])
<1>1. address \in Session /\ link \in LinkType
  BY ReceivesType DEF IInv, TypeOK, LinkType
<1>2. /\ link.got \in Nat \ {0} /\ link.snap \in Nat /\ link.base \in Nat
      /\ link.got < link.snap + 2 + (sent[address] - link.base)
      /\ sent[address] \in Nat /\ Len(log[address]) \in Nat
      /\ sent[address] <= Len(log[address]) /\ link.snap <= Len(log[address])
  BY <1>1 DEF LinkType, Receives, Available, LogAhead, IInv, TypeOK
<1>3. Event[1] = address
  BY DEF Event
<1>4. Event[2] = IF link.got <= link.snap THEN link.got ELSE link.base + link.got - link.snap - 1
  BY DEF Event
<1>5. Event[2] \in 1..Len(log[address])
  <2> DEFINE g == link.got
             p == link.snap
             b == link.base
             n == sent[address]
             m == Len(log[address])
  <2>1. /\ g \in Nat \ {0} /\ p \in Nat /\ b \in Nat /\ n \in Nat /\ m \in Nat
        /\ g # p + 1 /\ g < p + 2 + (n - b) /\ n <= m /\ p <= m
    BY <1>2
  <2> HIDE DEF g, p, b, n, m
  <2>2. (IF g <= p THEN g ELSE b + g - p - 1) \in 1..m
    BY <2>1
  <2>3. QED
    BY <1>4, <2>2 DEF g, p, b, m
<1>6. QED
  BY <1>1, <1>3, <1>5

LEMMA LoggedAppend ==
    ASSUME NEW kinds, NEW X \in Seq(EventId), NEW e \in EventId, LoggedIn(kinds, X),
           e[1] \in Session, e[2] \in 1..Len(kinds[e[1]])
    PROVE  LoggedIn(kinds, Append(X, e))
<1>1. /\ Len(Append(X, e)) = Len(X) + 1 /\ Len(X) \in Nat
      /\ \A i \in 1..Len(X) : Append(X, e)[i] = X[i]
      /\ Append(X, e)[Len(X) + 1] = e
  BY AppendProperties
<1>2. \A i \in 1..(Len(X) + 1) : i \in 1..Len(X) \/ i = Len(X) + 1
  BY <1>1
<1>3. QED
  BY <1>1, <1>2 DEF LoggedIn

\* Past the second mark, what is streamed holds all that was on disk.
LEMMA StreamedLen ==
    ASSUME NEW s \in Session, NEW l \in LinkType, l.got >= l.snap + 2
    PROVE  Len(Streamed(s, l)) >= l.snap
<1> DEFINE m == l.base + l.got - l.snap - 2
<1>1. /\ Least(l.got - 1, l.snap) = l.snap /\ l.snap \in Nat /\ l.base \in Nat
      /\ m \in Int /\ m >= l.base
  BY DEF LinkType, Least
<1> HIDE DEF m
<1>2. Span(s, 0, l.snap) \in Seq(EventId) /\ Len(Span(s, 0, l.snap)) = l.snap - 0
  <2>1. l.snap \in Int /\ l.snap >= 0
    BY <1>1
  <2>2. QED
    BY <2>1, SpanType
<1>3. Span(s, l.base, m) \in Seq(EventId) /\ Len(Span(s, l.base, m)) = m - l.base
  BY <1>1, SpanType
<1>4. Streamed(s, l) = Span(s, 0, l.snap) \o Span(s, l.base, m)
  BY <1>1 DEF Streamed, m
<1>5. Len(Streamed(s, l)) = Len(Span(s, 0, l.snap)) + Len(Span(s, l.base, m))
  BY <1>2, <1>3, <1>4, ConcatProperties
<1>6. QED
  BY <1>1, <1>2, <1>3, <1>5

\* A slice that ends outside a run leaves nothing waiting.
LEMMA SliceClosed ==
    ASSUME NEW buffer \in Seq(EventId), NEW take \in 0..Len(buffer), OpenRun(buffer, take) = {}
    PROVE  ~ Ran(log, SubSeq(buffer, 1, take), Len(SubSeq(buffer, 1, take)))
<1> DEFINE batch == SubSeq(buffer, 1, take)
<1>1. Len(batch) = take /\ \A i \in 1..take : batch[i] = buffer[i]
  BY SubSeqProperties
<1> HIDE DEF batch
<1>2. ASSUME NEW i \in 1..take, KindIn(log, batch[i]) \in {"start", "boundary"},
             \A j \in (i + 1)..take : KindIn(log, batch[j]) # "assistant"
      PROVE  FALSE
  <2>1. \A j \in (i + 1)..take : j \in 1..take
    OBVIOUS
  <2>2. i \in OpenRun(buffer, take)
    BY <1>1, <1>2, <2>1 DEF OpenRun, OpensCompactionRun, ClosesCompactionRun, KindOf
  <2>3. QED
    BY <2>2
<1>3. ~ Ran(log, batch, take)
  BY <1>2 DEF Ran
<1>4. QED
  BY <1>1, <1>3 DEF batch

-----------------------------------------------------------------------------
(* The steps.                                                              *)

\* A step that keeps the log keeps what is claimed of what it keeps.
LEMMA SliceEndUnder ==
    ASSUME log' = log
    PROVE  ReplaySliceEnd(replayBuffer, replayServerDone)'
            = ReplaySliceEnd(replayBuffer', replayServerDone')
BY DEF ReplaySliceEnd, OpenRun, OpensCompactionRun, ClosesCompactionRun, KindOf, Least

\* An empty queue with the server not done owes no drain.
LEMMA NothingDue ==
    ASSUME log' = log, replayBuffer' = <<>>, replayServerDone' \in BOOLEAN,
           ~ (isReplaying' /\ replayServerDone')
    PROVE  NoWakeupMissed'
<1>1. Len(<<>>) = 0 /\ <<>> \in Seq(EventId)
  BY EmptySeq
<1>2. ReplaySliceEnd(replayBuffer', replayServerDone') \in 0..Len(replayBuffer')
  BY <1>1, SliceEnds
<1>3. ReplaySliceEnd(replayBuffer, replayServerDone)' = 0
  BY <1>1, <1>2, SliceEndUnder
<1>4. QED
  BY <1>3 DEF NoWakeupMissed

\* Closing or reopening the stream: nothing is claimed of it yet.
LEMMA ResetStep ==
    ASSUME TypeOK', QueuesLogged, LogAhead, UNCHANGED <<log, sent>>, link'.got = 0,
           ResetEventBuffers, events' \in {events, <<>>},
           address' \in Session => link'.snap = 0
    PROVE  GInv'
<1>1. Len(<<>>) = 0
  BY EmptySeq
<1>2. QueuesLogged'
  BY <1>1 DEF QueuesLogged, LoggedIn, ResetEventBuffers
<1>3. LogAhead'
  <2>1. \A s \in Session : Len(log[s])' >= 0
    BY DEF TypeOK
  <2>2. QED
    BY <2>1 DEF LogAhead
<1>4. DrainDue'
  <2>1. replayBuffer' = <<>> /\ replayServerDone' = FALSE /\ replayScheduled' = FALSE
    BY DEF ResetEventBuffers
  <2>2. NoWakeupMissed'
    BY <2>1, NothingDue
  <2>3. QED
    BY <2>1, <2>2 DEF DrainDue
<1>5. QED
  BY <1>2, <1>3, <1>4 DEF GInv, ReplayShown, GroupedSoFar

\* What the tab holds and is owed, with the log and what was read of it.
Kept == <<isReplaying, replayServerDone, replayBuffer, replayScheduled, posted,
          eventBuffer, events, grouping, replayReplace>>

LEMMA KeptStep ==
    ASSUME IInv, GInv, UNCHANGED Kept, UNCHANGED log, LogAhead',
           link'.got > 0 => link'.got = link.got /\ link'.snap = link.snap
    PROVE  GInv'
<1>1. QueuesLogged'
  BY DEF GInv, QueuesLogged, Kept
<1>2. ReplayShown'
  BY DEF GInv, ReplayShown, Kept
<1>3. GroupedSoFar'
  BY DEF GInv, GroupedSoFar, Kept
<1>4. ReplaySliceEnd(replayBuffer, replayServerDone)'
        = ReplaySliceEnd(replayBuffer, replayServerDone)
  BY SliceEndUnder DEF Kept
<1>5. DrainDue'
  BY <1>4 DEF GInv, DrainDue, NoWakeupMissed, Kept
<1>6. QED
  BY <1>1, <1>2, <1>3, <1>5 DEF GInv

LEMMA PersistsStep ==
    ASSUME IInv, GInv, NEW s \in Session, NEW kind \in Kind, Persists(s, kind)
    PROVE  GInv'
<1>1. /\ UNCHANGED <<sent, address, link, isReplaying, replayServerDone, replayBuffer,
                     replayScheduled, posted, eventBuffer, events, grouping, replayReplace>>
      /\ log' = [log EXCEPT ![s] = Append(@, kind)] /\ log \in [Session -> Seq(Kind)]
  BY DEF Persists, connection, queues, transcript, IInv, TypeOK
<1>2. /\ LoggedIn(log', events) /\ LoggedIn(log', replayBuffer) /\ LoggedIn(log', eventBuffer)
  BY LogGrows DEF IInv, GInv, QueuesLogged
<1>3. QueuesLogged'
  BY <1>1, <1>2 DEF QueuesLogged
<1>4. LogAhead'
  <2>1. \A t \in Session :
            Len(log[t]) \in Nat /\ Len(log'[t]) \in Nat /\ Len(log'[t]) >= Len(log[t])
    <3>1. Len(Append(log[s], kind)) = Len(log[s]) + 1
      BY <1>1, AppendProperties
    <3>2. QED
      BY <1>1, <3>1
  <2>2. link.snap \in Nat /\ sent \in [Session -> Nat]
    BY DEF IInv, TypeOK
  <2>3. ASSUME NEW t \in Session PROVE sent'[t] <= Len(log'[t])
    <3>1. sent'[t] = sent[t] /\ sent[t] \in Nat /\ sent[t] <= Len(log[t])
      BY <1>1, <2>2 DEF GInv, LogAhead
    <3>2. QED
      BY <2>1, <3>1
  <2>4. ASSUME address' \in Session PROVE link'.snap <= Len(log'[address'])
    <3>1. address \in Session /\ link.snap <= Len(log[address])
      BY <1>1, <2>4 DEF GInv, LogAhead
    <3>2. QED
      BY <1>1, <2>1, <2>2, <3>1
  <2>5. QED
    BY <1>1, <2>3, <2>4 DEF GInv, LogAhead
<1>5. ReplayShown'
  BY <1>1 DEF GInv, ReplayShown
<1>6. GroupedSoFar'
  <2>1. \A i \in 1..Len(events) : KindIn(log', events[i]) = KindIn(log, events[i])
    BY LogGrows DEF IInv, GInv, QueuesLogged
  <2>2. Len(events) \in Nat
    BY DEF IInv, TypeOK
  <2>3. Grouped(log', events) = Grouped(log, events)
    BY <2>1, <2>2, AppendEachSame DEF Grouped
  <2>4. AppendTurns(log', NoGrouping, events) = AppendTurns(log, NoGrouping, events)
    BY <2>1, <2>2, AppendEachSame DEF AppendTurns
  <2>5. QED
    BY <1>1, <2>3, <2>4 DEF GInv, GroupedSoFar
<1>7. DrainDue'
  <2>1. \A i \in 1..Len(replayBuffer) :
           KindIn(log', replayBuffer[i]) = KindIn(log, replayBuffer[i])
    BY LogGrows DEF IInv, GInv, QueuesLogged
  <2>2. ReplaySliceEnd(replayBuffer, replayServerDone)'
            = ReplaySliceEnd(replayBuffer, replayServerDone)
    BY <1>1, <2>1, SliceEndKept DEF IInv, TypeOK
  <2>3. QED
    BY <1>1, <2>2 DEF GInv, DrainDue, NoWakeupMissed
<1>8. QED
  BY <1>3, <1>4, <1>5, <1>6, <1>7 DEF GInv

LEMMA ReceivesAhead ==
    ASSUME IInv, LogAhead, Receives
    PROVE  /\ LogAhead' /\ UNCHANGED <<log, sent, address>>
           /\ link'.got = link.got + 1 /\ link'.snap = link.snap
           /\ link.got \in Nat /\ link.snap \in Nat /\ address \in Session
<1>1. address \in Session /\ link \in LinkType
  BY ReceivesType DEF IInv, TypeOK, LinkType
<1>2. /\ UNCHANGED <<log, sent, address>> /\ link' = [link EXCEPT !.got = @ + 1]
  BY DEF Receives, server
<1>3. /\ link'.got = link.got + 1 /\ link'.snap = link.snap
      /\ link.got \in Nat /\ link.snap \in Nat
  BY <1>1, <1>2 DEF LinkType
<1>4. QED
  BY <1>1, <1>2, <1>3, StreamAssumption DEF LogAhead

LEMMA StartStep ==
    ASSUME IInv, GInv, ReplayStarted, TypeOK'
    PROVE  GInv'
<1>1. LogAhead' /\ log' = log
  BY ReceivesAhead DEF GInv, ReplayStarted
<1>2. /\ isReplaying' /\ replayServerDone' = FALSE /\ replayBuffer' = <<>> /\ replayReplace'
      /\ UNCHANGED <<replayScheduled, posted, eventBuffer, events>>
  BY DEF ReplayStarted
<1>3. QueuesLogged'
  <2>1. Len(<<>>) = 0
    BY EmptySeq
  <2>2. QED
    BY <1>1, <1>2, <2>1 DEF GInv, QueuesLogged, LoggedIn
<1>4. NoWakeupMissed'
  BY <1>1, <1>2, NothingDue
<1>5. QED
  BY <1>1, <1>2, <1>3, <1>4 DEF GInv, ReplayShown, GroupedSoFar, DrainDue

LEMMA EndStep ==
    ASSUME IInv, GInv, ReplayEnded
    PROVE  GInv'
<1>1. /\ LogAhead' /\ log' = log /\ link'.snap = link.snap /\ link.got > 0
      /\ link.snap \in Nat
  BY ReceivesAhead DEF GInv, ReplayEnded
<1>2. /\ replayBuffer' = replayBuffer \o eventBuffer /\ eventBuffer' = <<>>
      /\ UNCHANGED <<isReplaying, events, grouping, replayReplace>>
      /\ ScheduleReplayDrain(posted) /\ link.got = link.snap + 1
  BY DEF ReplayEnded, transcript
<1>3. QueuesLogged'
  <2>1. LoggedIn(log, replayBuffer \o eventBuffer)
    BY LoggedConcat DEF IInv, TypeOK, GInv, QueuesLogged
  <2>2. Len(<<>>) = 0
    BY EmptySeq
  <2>3. LoggedIn(log, <<>>)
    BY <2>2 DEF LoggedIn
  <2>4. QED
    BY <1>1, <1>2, <2>1, <2>3 DEF GInv, QueuesLogged
<1>4. isReplaying'
  BY <1>1, <1>2 DEF IInv, ReplayQueues
<1>5. GroupedSoFar'
  BY <1>1, <1>2 DEF GInv, GroupedSoFar
<1>6. posted' > 0
  BY <1>2 DEF ScheduleReplayDrain, GInv, DrainDue, IInv, TypeOK
<1>7. QED
  BY <1>1, <1>3, <1>4, <1>5, <1>6 DEF GInv, ReplayShown, DrainDue, NoWakeupMissed

LEMMA QueueStep ==
    ASSUME IInv, GInv, Queues
    PROVE  GInv'
<1>1. /\ LogAhead' /\ log' = log /\ link'.snap = link.snap /\ link.got > 0
  BY ReceivesAhead DEF GInv, Queues
<1>2. /\ replayBuffer' = Append(replayBuffer, Event)
      /\ UNCHANGED <<isReplaying, eventBuffer, events, grouping, replayReplace>>
      /\ ScheduleReplayDrain(posted) /\ isReplaying
  BY DEF Queues, transcript
<1>3. QueuesLogged'
  <2>1. Event \in EventId /\ Event[1] \in Session /\ Event[2] \in 1..Len(log[Event[1]])
    BY ReceivesType, EventLogged DEF Queues, IInv, GInv
  <2>2. LoggedIn(log, Append(replayBuffer, Event))
    BY <2>1, LoggedAppend DEF IInv, TypeOK, GInv, QueuesLogged
  <2>3. QED
    BY <1>1, <1>2, <2>2 DEF GInv, QueuesLogged
<1>4. GroupedSoFar'
  BY <1>1, <1>2 DEF GInv, GroupedSoFar
<1>5. posted' > 0
  BY <1>2 DEF ScheduleReplayDrain, GInv, DrainDue, IInv, TypeOK
<1>6. QED
  BY <1>1, <1>2, <1>3, <1>4, <1>5 DEF GInv, ReplayShown, DrainDue, NoWakeupMissed

\* A flush onto the transcript kept: past the replay, or of nothing.
LEMMA FlushGrouped ==
    ASSUME IInv, GInv, UNCHANGED <<log, isReplaying, replayReplace>>,
           link'.snap = link.snap, link'.got > 0 => link.got > 0,
           NEW batch \in Seq(EventId), Folds(TRUE, batch),
           link.got > 0 /\ isReplaying => batch = <<>>
    PROVE  ReplayShown' /\ GroupedSoFar'
<1>1. /\ events' = events \o batch /\ grouping' = AppendTurns(log, grouping, batch)
      /\ events \in Seq(EventId) /\ link.snap \in Nat
  BY DEF Folds, IInv, TypeOK
<1>2. /\ Len(events') = Len(events) + Len(batch) /\ Len(events) \in Nat /\ Len(batch) \in Nat
      /\ batch # <<>> => Len(batch) > 0
  BY <1>1, ConcatProperties, EmptySeq
<1>3. ReplayShown'
  BY <1>1, <1>2 DEF GInv, ReplayShown
<1>4. ASSUME link.got > 0, ~replayReplace, Len(events') <= link.snap
      PROVE  /\ grouping' = AppendTurns(log, NoGrouping, events')
             /\ Len(events') < link.snap => Grouped(log, events').pending = <<>>
  <2>1. batch = <<>>
    BY <1>1, <1>2, <1>4 DEF GInv, ReplayShown
  <2>2. events' = events
    BY <1>1, <2>1, ConcatEmptySeq
  <2>3. grouping = AppendTurns(log, NoGrouping, events)
    BY <1>4, <2>2 DEF GInv, GroupedSoFar
  <2>4. grouping' = grouping
    <3>1. grouping = [turns |-> grouping.turns, open |-> grouping.open]
      BY <2>3, AppendTurnsShape
    <3>2. QED
      BY <1>1, <2>1, <3>1, AppendTurnsEmpty
  <2>5. QED
    BY <1>4, <2>2, <2>3, <2>4 DEF GInv, GroupedSoFar
<1>5. GroupedSoFar'
  BY <1>4 DEF GroupedSoFar
<1>6. QED
  BY <1>3, <1>5

LEMMA BatchStep ==
    ASSUME IInv, GInv, Batches
    PROVE  GInv'
<1>1. /\ LogAhead' /\ log' = log /\ link'.snap = link.snap /\ link.got > 0
  BY ReceivesAhead DEF GInv, Batches
<1>2. /\ UNCHANGED <<isReplaying, replayServerDone, replayBuffer, replayScheduled, posted,
                     replayReplace>>
      /\ ~isReplaying
  BY DEF Batches
<1>3. DrainDue'
  <2>1. ReplaySliceEnd(replayBuffer, replayServerDone)'
            = ReplaySliceEnd(replayBuffer, replayServerDone)
    BY <1>1, <1>2, SliceEndUnder
  <2>2. QED
    BY <1>2, <2>1 DEF GInv, DrainDue, NoWakeupMissed
<1> DEFINE batch == Append(eventBuffer, Event)
<1>4. LoggedIn(log, batch) /\ batch \in Seq(EventId)
  <2>1. Event \in EventId /\ Event[1] \in Session /\ Event[2] \in 1..Len(log[Event[1]])
    BY ReceivesType, EventLogged DEF Batches, IInv, GInv
  <2>2. QED
    BY <2>1, LoggedAppend, AppendProperties DEF IInv, TypeOK, GInv, QueuesLogged
<1>5. CASE Folds(TRUE, batch) /\ eventBuffer' = <<>>
  <2> HIDE DEF batch
  <2>1. ReplayShown' /\ GroupedSoFar'
    BY <1>1, <1>2, <1>4, <1>5, FlushGrouped
  <2>2. QueuesLogged'
    <3>1. LoggedIn(log, events \o batch)
      BY <1>4, LoggedConcat DEF IInv, TypeOK, GInv, QueuesLogged
    <3>2. Len(<<>>) = 0
      BY EmptySeq
    <3>3. LoggedIn(log, <<>>)
      BY <3>2 DEF LoggedIn
    <3>4. QED
      BY <1>1, <1>2, <1>5, <3>1, <3>3 DEF Folds, GInv, QueuesLogged
  <2>3. QED
    BY <1>1, <1>3, <2>1, <2>2 DEF GInv
<1>6. CASE eventBuffer' = batch /\ UNCHANGED <<events, grouping>>
  <2>1. QueuesLogged'
    BY <1>1, <1>2, <1>4, <1>6 DEF GInv, QueuesLogged
  <2>2. ReplayShown' /\ GroupedSoFar'
    BY <1>1, <1>2, <1>6 DEF GInv, ReplayShown, GroupedSoFar
  <2>3. QED
    BY <1>1, <1>3, <2>1, <2>2 DEF GInv
<1>7. QED
  BY <1>5, <1>6 DEF Batches

LEMMA FlushStep ==
    ASSUME IInv, GInv, FlushesBatch
    PROVE  GInv'
<1>1. /\ UNCHANGED <<log, sent, address, link, isReplaying, replayServerDone, replayBuffer,
                     replayScheduled, posted, replayReplace>>
      /\ Folds(TRUE, eventBuffer) /\ eventBuffer' = <<>>
  BY DEF FlushesBatch, server, connection
<1>2. eventBuffer \in Seq(EventId)
  BY DEF IInv, TypeOK
<1>3. ReplayShown' /\ GroupedSoFar'
  <2>1. link.got > 0 /\ isReplaying => eventBuffer = <<>>
    BY DEF IInv, ReplayQueues
  <2>2. QED
    BY <1>1, <1>2, <2>1, FlushGrouped
<1>4. QueuesLogged'
  <2>1. LoggedIn(log, events \o eventBuffer)
    BY <1>2, LoggedConcat DEF IInv, TypeOK, GInv, QueuesLogged
  <2>2. Len(<<>>) = 0
    BY EmptySeq
  <2>3. LoggedIn(log, <<>>)
    BY <2>2 DEF LoggedIn
  <2>4. QED
    BY <1>1, <2>1, <2>3 DEF Folds, GInv, QueuesLogged
<1>5. DrainDue'
  <2>1. ReplaySliceEnd(replayBuffer, replayServerDone)'
            = ReplaySliceEnd(replayBuffer, replayServerDone)
    BY <1>1, SliceEndUnder
  <2>2. QED
    BY <1>1, <2>1 DEF GInv, DrainDue, NoWakeupMissed
<1>6. LogAhead'
  BY <1>1 DEF GInv, LogAhead
<1>7. QED
  BY <1>3, <1>4, <1>5, <1>6 DEF GInv

\* A slice of the queue, onto the transcript or in its place.
LEMMA DrainStep ==
    ASSUME IInv, GInv, DrainsReplaySlice, IInv'
    PROVE  GInv'
<1> DEFINE take == ReplaySliceEnd(replayBuffer, replayServerDone)
           batch == SubSeq(replayBuffer, 1, take)
           rest == SubSeq(replayBuffer, take + 1, Len(replayBuffer))
           held == take = 0 /\ rest # <<>>
           ended == rest = <<>> /\ replayServerDone
<1>1. /\ take \in 0..Len(replayBuffer) /\ replayBuffer' = rest
      /\ IF rest # <<>> /\ ~held
         THEN replayScheduled' = TRUE /\ posted' = posted
         ELSE replayScheduled' = FALSE /\ posted' = posted - 1
      /\ isReplaying' = (isReplaying /\ ~ended)
      /\ IF ended THEN ReplaySliceAndEnd(batch) ELSE ReplaySlice(batch)
      /\ posted > 0
  BY DEF DrainsReplaySlice
<1>2. /\ UNCHANGED <<log, sent, address, link, replayServerDone, eventBuffer>>
  BY DEF DrainsReplaySlice, server, connection
<1>3. /\ replayBuffer \in Seq(EventId) /\ events \in Seq(EventId) /\ eventBuffer \in Seq(EventId)
      /\ replayServerDone \in BOOLEAN /\ posted \in Nat /\ link \in LinkType
      /\ link.snap \in Nat
  BY DEF IInv, TypeOK, LinkType
<1>4. /\ batch \in Seq(EventId) /\ rest \in Seq(EventId) /\ batch \o rest = replayBuffer
      /\ LoggedIn(log, batch) /\ LoggedIn(log, rest)
  <2> HIDE DEF take
  <2>1. QED
    BY <1>1, <1>3, SliceParts, LoggedParts DEF GInv, QueuesLogged
<1>5. /\ (replayServerDone /\ rest = <<>>) \/ ~ Ran(log, batch, Len(batch))
      /\ replayServerDone /\ rest # <<>> => take >= 1
  <2>1. /\ (replayServerDone /\ take = Len(replayBuffer)) \/ OpenRun(replayBuffer, take) = {}
        /\ replayServerDone /\ replayBuffer # <<>> => take >= 1
    BY <1>3, SliceEnds
  <2> HIDE DEF take
  <2>2. take = Len(replayBuffer) => rest = <<>>
    <3>1. Len(rest) = Len(replayBuffer) - take
      BY <1>1, <1>3, SubSeqProperties
    <3>2. QED
      BY <1>3, <1>4, <3>1, EmptySeq
  <2>3. OpenRun(replayBuffer, take) = {} => ~ Ran(log, batch, Len(batch))
    BY <1>1, <1>3, SliceClosed
  <2>4. replayBuffer = <<>> => rest = <<>>
    <3>1. Len(<<>>) = 0
      BY EmptySeq
    <3>2. QED
      BY <1>1, <2>2, <3>1
  <2>5. QED
    BY <2>1, <2>2, <2>3, <2>4
<1> HIDE DEF take
<1>6. QueuesLogged'
  <2>1. LoggedIn(log, events \o batch) /\ <<>> \o batch = batch
    BY <1>3, <1>4, LoggedConcat, ConcatEmptySeq DEF GInv, QueuesLogged
  <2>2. Len(<<>>) = 0
    BY EmptySeq
  <2>3. LoggedIn(log, <<>>)
    BY <2>2 DEF LoggedIn
  <2> HIDE DEF batch, rest
  <2>4. events' \in {events, events \o batch, <<>> \o batch, <<>>}
    BY <1>1 DEF ReplaySliceAndEnd, ReplaySlice, Folds, transcript
  <2>5. LoggedIn(log, events')
    BY <1>4, <2>1, <2>3, <2>4 DEF GInv, QueuesLogged
  <2>6. QED
    BY <1>1, <1>2, <1>4, <2>5 DEF GInv, QueuesLogged
<1>7. LogAhead'
  BY <1>2 DEF GInv, LogAhead
<1> HIDE DEF batch, rest
<1>8. ASSUME link.got > 0, ended PROVE Len(events') >= link.snap
  <2>1. CASE isReplaying
    <3>1. ~isReplaying' /\ eventBuffer = <<>> /\ link.got >= link.snap + 2 /\ link'.got > 0
      <4>1. link.got \in Nat
        BY <1>3 DEF LinkType
      <4>2. ~ (link.got <= link.snap + 1) /\ eventBuffer = <<>>
        BY <1>8, <2>1 DEF IInv, ReplayQueues
      <4>3. link.got >= link.snap + 2
        BY <1>3, <4>1, <4>2
      <4>4. ~isReplaying' /\ link' = link
        BY <1>1, <1>2, <1>8
      <4>5. QED
        BY <1>8, <4>2, <4>3, <4>4
    <3>2. replayBuffer' = <<>> /\ ~replayReplace'
      BY <3>1 DEF IInv, ReplayQueues
    <3>3. (events' \o <<>>) \o <<>> = Streamed(address, link)
      BY <1>2, <3>1, <3>2 DEF IInv, TranscriptFollowsStream, Streamed
    <3>4. events' \in Seq(EventId)
      BY DEF IInv, TypeOK
    <3>5. events' = Streamed(address, link)
      BY <3>3, <3>4, ConcatEmptySeq
    <3>6. address \in Session
      BY <1>8 DEF IInv, TypeOK, GInv, LogAhead
    <3>7. QED
      BY <1>3, <3>1, <3>5, <3>6, StreamedLen
  <2>2. CASE ~isReplaying
    <3>1. replayBuffer = <<>> /\ ~replayReplace
      BY <1>8, <2>2 DEF IInv, ReplayQueues
    <3>2. batch = <<>>
      BY <1>4, <3>1, ConcatEqualIffEmpty, ConcatSimplifications
    <3>3. events' = events
      BY <1>1, <3>1, <3>2 DEF ReplaySliceAndEnd, ReplaySlice, transcript
    <3>4. QED
      BY <1>8, <2>2, <3>3 DEF GInv, ReplayShown
  <2>3. QED
    BY <2>1, <2>2
<1>9. ReplayShown'
  <2>1. SUFFICES ASSUME link.got > 0, ~isReplaying' PROVE Len(events') >= link.snap
    BY <1>2 DEF ReplayShown
  <2>2. CASE ended
    BY <1>8, <2>1, <2>2
  <2>3. CASE ~ended
    <3>1. ~isReplaying
      BY <1>1, <2>1, <2>3
    <3>2. replayBuffer = <<>> /\ ~replayReplace
      BY <2>1, <3>1 DEF IInv, ReplayQueues
    <3>3. batch = <<>>
      BY <1>4, <3>2, ConcatEqualIffEmpty, ConcatSimplifications
    <3>4. events' = events
      BY <1>1, <2>3, <3>3 DEF ReplaySlice, transcript
    <3>5. QED
      BY <2>1, <3>1, <3>4 DEF GInv, ReplayShown
  <2>4. QED
    BY <2>2, <2>3
<1>10. GroupedSoFar'
  <2>1. SUFFICES ASSUME link.got > 0, ~replayReplace', Len(events') <= link.snap
                 PROVE  /\ grouping' = AppendTurns(log, NoGrouping, events')
                        /\ Len(events') < link.snap => Grouped(log, events').pending = <<>>
    BY <1>2 DEF GroupedSoFar
  <2>2. CASE UNCHANGED transcript
    BY <2>1, <2>2 DEF transcript, GInv, GroupedSoFar
  <2>3. CASE events' = <<>> /\ grouping' = NoGrouping
    BY <2>3, AppendTurnsNone
  <2>4. CASE batch # <<>> /\ Folds(~replayReplace, batch) /\ replayReplace
    <3>1. events' = batch /\ grouping' = AppendTurns(log, NoGrouping, batch)
      BY <1>4, <2>4, ConcatEmptySeq DEF Folds
    <3>2. ASSUME Len(batch) < link.snap PROVE Grouped(log, batch).pending = <<>>
      <4>1. ~ended
        <5>1. Len(batch) \in Nat
          BY <1>4
        <5>2. QED
          BY <1>3, <1>8, <2>1, <3>1, <3>2, <5>1
      <4>2. ~ Ran(log, batch, Len(batch))
        BY <1>5, <4>1
      <4>3. QED
        BY <1>4, <4>2, UnplacedForm, AppendEachForm DEF Grouped
    <3>3. QED
      BY <3>1, <3>2
  <2>5. CASE batch # <<>> /\ Folds(~replayReplace, batch) /\ ~replayReplace
    <3>1. events' = events \o batch /\ grouping' = AppendTurns(log, grouping, batch)
      BY <2>5 DEF Folds
    <3>2. Len(events) < link.snap
      <4>1. /\ Len(events') = Len(events) + Len(batch) /\ Len(events) \in Nat
            /\ Len(batch) \in Nat /\ Len(batch) # 0
        BY <1>3, <1>4, <2>5, <3>1, ConcatProperties, EmptySeq
      <4>2. QED
        BY <1>3, <2>1, <4>1
    <3>3. /\ grouping = AppendTurns(log, NoGrouping, events)
          /\ Grouped(log, events).pending = <<>>
      <4>1. Len(events) <= link.snap
        BY <1>3, <3>2
      <4>2. QED
        BY <2>1, <2>5, <3>2, <4>1 DEF GInv, GroupedSoFar
    <3>4. /\ AppendTurns(log, AppendTurns(log, NoGrouping, events), batch)
                = AppendTurns(log, NoGrouping, events \o batch)
          /\ ~ Ran(log, batch, Len(batch)) => Grouped(log, events \o batch).pending = <<>>
      BY <1>3, <1>4, <3>3, AppendTurnsConcat
    <3>5. ASSUME Len(events') < link.snap PROVE ~ Ran(log, batch, Len(batch))
      <4>1. ~ended
        <5>1. Len(events') \in Nat
          BY DEF IInv, TypeOK
        <5>2. QED
          BY <1>3, <1>8, <2>1, <3>5, <5>1
      <4>2. QED
        BY <1>5, <4>1
    <3>6. QED
      BY <3>1, <3>3, <3>4, <3>5
  <2>6. QED
    BY <1>1, <2>2, <2>3, <2>4, <2>5 DEF ReplaySliceAndEnd, ReplaySlice
<1>11. DrainDue'
  <2>1. CASE rest # <<>> /\ ~held
    BY <1>1, <2>1 DEF DrainDue, NoWakeupMissed
  <2>2. CASE held
    <3>1. ~replayServerDone
      BY <1>5, <2>2
    <3>2. batch = <<>>
      <4>1. Len(batch) = 0
        BY <1>3, <2>2, SubSeqProperties DEF batch
      <4>2. QED
        BY <1>4, <4>1, EmptySeq
    <3>3. rest = replayBuffer
      BY <1>4, <3>2, ConcatEmptySeq
    <3>4. ReplaySliceEnd(replayBuffer, replayServerDone)' = take
      BY <1>1, <1>2, <3>3, SliceEndUnder DEF take
    <3>5. QED
      BY <1>1, <1>2, <2>2, <3>1, <3>4 DEF DrainDue, NoWakeupMissed
  <2>3. CASE rest = <<>>
    <3>1. ~ (isReplaying' /\ replayServerDone')
      BY <1>1, <1>2, <2>3
    <3>2. NoWakeupMissed'
      BY <1>1, <1>2, <1>3, <2>3, <3>1, NothingDue
    <3>3. QED
      BY <1>1, <2>3, <3>2 DEF DrainDue
  <2>4. QED
    BY <2>1, <2>2, <2>3
<1>12. QED
  BY <1>6, <1>7, <1>9, <1>10, <1>11 DEF GInv

LEMMA GroupStep == ASSUME IInv, GInv, [Next]_vars, IInv' PROVE GInv'
<1> USE DEF IInv
<1>1. ASSUME NEW s \in Session, NEW kind \in Kind, Persists(s, kind) PROVE GInv'
  BY <1>1, PersistsStep
<1>2. ASSUME NEW s \in Session, Broadcasts(s) PROVE GInv'
  <2>1. /\ UNCHANGED <<log, address, link>> /\ UNCHANGED Kept
        /\ sent' = [sent EXCEPT ![s] = @ + 1] /\ sent[s] < Len(log[s])
    BY <1>2 DEF Broadcasts, Kept, connection, queues, transcript
  <2>2. LogAhead'
    <3>1. ASSUME NEW t \in Session PROVE sent'[t] <= Len(log[t])
      <4>1. sent \in [Session -> Nat] /\ log[t] \in Seq(Kind)
        BY DEF TypeOK
      <4>2. Len(log[t]) \in Nat /\ sent[t] <= Len(log[t])
        BY <4>1 DEF GInv, LogAhead
      <4>3. QED
        BY <2>1, <4>1, <4>2
    <3>2. QED
      BY <2>1, <3>1 DEF GInv, LogAhead
  <2>3. QED
    BY <2>1, <2>2, KeptStep
<1>3. ASSUME NEW s \in Session, Reconnects(s) PROVE GInv'
  BY <1>3, ResetStep DEF Reconnects, NoLink, server, GInv
<1>4. ASSUME Connects PROVE GInv'
  <2>1. /\ UNCHANGED <<log, sent, address>> /\ UNCHANGED Kept /\ link'.got = 0
        /\ link'.snap = Len(log[address])
    BY <1>4 DEF Connects, Kept, server, queues, transcript
  <2>2. LogAhead'
    <3>1. address \in Session => Len(log[address]) \in Nat
      BY DEF TypeOK
    <3>2. QED
      BY <2>1, <3>1 DEF GInv, LogAhead
  <2>3. QED
    BY <2>1, <2>2, KeptStep
<1>5. ASSUME Fails \/ Retries PROVE GInv'
  <2>1. /\ UNCHANGED <<log, sent, address>> /\ UNCHANGED Kept
        /\ link'.got = link.got /\ link'.snap = link.snap
    BY <1>5 DEF Fails, Retries, Linked, Kept, server, queues, transcript, TypeOK
  <2>2. LogAhead'
    BY <2>1 DEF GInv, LogAhead
  <2>3. QED
    BY <2>1, <2>2, KeptStep
<1>6. ASSUME Disconnects \/ Closes PROVE GInv'
  BY <1>6, ResetStep DEF Disconnects, Closes, ClearEvents, NoLink, server, GInv
<1>7. ASSUME ReplayStarted PROVE GInv'
  BY <1>7, StartStep
<1>8. ASSUME ReplayEnded PROVE GInv'
  BY <1>8, EndStep
<1>9. ASSUME Queues PROVE GInv'
  BY <1>9, QueueStep
<1>10. ASSUME Batches PROVE GInv'
  BY <1>10, BatchStep
<1>11. ASSUME FlushesBatch PROVE GInv'
  BY <1>11, FlushStep
<1>12. ASSUME DrainsReplaySlice PROVE GInv'
  BY <1>12, DrainStep
<1>13. ASSUME UNCHANGED vars PROVE GInv'
  <2>1. UNCHANGED <<log, sent, address, link>> /\ UNCHANGED Kept
    BY <1>13 DEF vars, server, connection, queues, transcript, Kept
  <2>2. LogAhead'
    BY <2>1 DEF GInv, LogAhead
  <2>3. QED
    BY <2>1, <2>2, KeptStep
<1>14. QED
  BY <1>1, <1>2, <1>3, <1>4, <1>5, <1>6, <1>7, <1>8, <1>9, <1>10, <1>11, <1>12, <1>13
  DEF Next

LEMMA GroupStart == Init => GInv
<1> SUFFICES ASSUME Init PROVE GInv
  OBVIOUS
<1>1. Len(<<>>) = 0 /\ <<>> \in Seq(EventId)
  BY EmptySeq
<1>2. QueuesLogged
  BY <1>1 DEF Init, QueuesLogged, LoggedIn
<1>3. LogAhead
  BY <1>1, StreamAssumption DEF Init, LogAhead, NoLink
<1>4. NoWakeupMissed
  <2>1. /\ replayBuffer = <<>> /\ replayServerDone \in BOOLEAN /\ replayBuffer \in Seq(EventId)
        /\ ~isReplaying
    BY <1>1 DEF Init
  <2>2. ReplaySliceEnd(replayBuffer, replayServerDone) \in 0..Len(replayBuffer)
    BY <2>1, SliceEnds
  <2>3. ReplaySliceEnd(replayBuffer, replayServerDone) = 0
    BY <1>1, <2>1, <2>2
  <2>4. QED
    BY <2>1, <2>3 DEF NoWakeupMissed
<1>5. QED
  BY <1>2, <1>3, <1>4 DEF Init, NoLink, GInv, ReplayShown, GroupedSoFar, DrainDue

(* The two strengthenings hold together.                                   *)
THEOREM GroupInvariance == Spec => [](IInv /\ GInv)
<1>1. IInv /\ GInv /\ [Next]_vars => (IInv /\ GInv)'
  BY Step, GroupStep
<1>2. QED
  BY <1>1, Start, GroupStart, PTL DEF Spec

(* However a replay is cut into slices, it is grouped as if it had been    *)
(* read at once, for every slice size and every log.                       *)
THEOREM GroupsAsWhole == Spec => []ReplayGroupsAsWhole
<1>1. GInv => ReplayGroupsAsWhole
  BY DEF GInv, GroupedSoFar, ReplayGroupsAsWhole
<1>2. QED
  BY <1>1, GroupInvariance, PTL

(* The drain of a replay is never lost: whatever a reset leaves behind, a  *)
(* queue with a slice to give has a port message under way.                *)
THEOREM WakesUp == Spec => []NoWakeupMissed
<1>1. GInv => NoWakeupMissed
  BY DEF GInv, DrainDue
<1>2. QED
  BY <1>1, GroupInvariance, PTL

=============================================================================
