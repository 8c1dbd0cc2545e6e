---------------------------- MODULE FramingProofs ----------------------------
(***************************************************************************)
(* Proofs about Framing, for headers and frames of any length, any number  *)
(* of requests, sessions and faults, and any cut of the bytes.             *)
(***************************************************************************)
EXTENDS Framing, SequenceTheorems, WellFoundedInduction, TLAPS

-----------------------------------------------------------------------------
(* Bytes and pieces of them.                                               *)

\* What is left when k bytes are taken.
LEMMA DroppedBytes ==
    ASSUME NEW S, NEW b \in Seq(S), NEW k \in 0 .. Len(b)
    PROVE  /\ Dropped(b, k) \in Seq(S) /\ Len(Dropped(b, k)) = Len(b) - k
           /\ \A i \in 1 .. Len(b) - k : Dropped(b, k)[i] = b[k + i]
<1>1. Len(b) \in Nat /\ \A i \in 1 .. Len(b) : b[i] \in S
  BY LenProperties, ElementOfSeq
<1>2. \A i \in k + 1 .. Len(b) : b[i] \in S
  BY <1>1
<1>3. k + 1 \in Int /\ Len(b) \in Int /\ Len(b) - (k + 1) + 1 = Len(b) - k
  BY <1>1
<1> DEFINE d == SubSeq(b, k + 1, Len(b))
<1>4. /\ d \in Seq(S)
      /\ Len(d) = IF k + 1 <= Len(b) THEN Len(b) - (k + 1) + 1 ELSE 0
      /\ \A i \in 1 .. Len(b) - (k + 1) + 1 : d[i] = b[k + 1 + i - 1]
  BY <1>2, <1>3, SubSeqProperties
<1>5. d = Dropped(b, k)
  BY DEF Dropped
<1> HIDE DEF d
<1>6. Len(d) = Len(b) - k
  BY <1>1, <1>4
<1>7. \A i \in 1 .. Len(b) - k : d[i] = b[k + i]
  <2>1. \A i \in 1 .. Len(b) - k : k + 1 + i - 1 = k + i
    BY <1>1
  <2> QED BY <1>3, <1>4, <2>1
<1> QED BY <1>4, <1>5, <1>6, <1>7

\* The first k bytes, and two pieces together.
Kept(b, k) == SubSeq(b, 1, k)
Join(a, b) == a \o b

\* What the first k bytes are.
LEMMA FirstBytes ==
    ASSUME NEW S, NEW b \in Seq(S), NEW k \in 0 .. Len(b)
    PROVE  /\ Kept(b, k) \in Seq(S) /\ Len(Kept(b, k)) = k
           /\ \A i \in 1 .. k : Kept(b, k)[i] = b[i]
<1>1. Len(b) \in Nat /\ \A i \in 1 .. Len(b) : b[i] \in S
  BY LenProperties, ElementOfSeq
<1>2. \A i \in 1 .. k : b[i] \in S
  BY <1>1
<1> DEFINE d == SubSeq(b, 1, k)
<1>3. /\ d \in Seq(S) /\ Len(d) = IF 1 <= k THEN k - 1 + 1 ELSE 0
      /\ \A i \in 1 .. k - 1 + 1 : d[i] = b[1 + i - 1]
  BY <1>2, SubSeqProperties
<1> HIDE DEF d
<1>4. k - 1 + 1 = k /\ \A i \in 1 .. k : 1 + i - 1 = i
  BY <1>1
<1>5. Len(d) = k /\ \A i \in 1 .. k : d[i] = b[i]
  BY <1>1, <1>3, <1>4
<1> QED BY <1>3, <1>5 DEF d, Kept

\* What two pieces are together, whichever is put to the other first.
LEMMA JoinedBytes ==
    ASSUME NEW S, NEW a \in Seq(S), NEW b \in Seq(S)
    PROVE  /\ Join(a, b) \in Seq(S) /\ Len(Join(a, b)) = Len(a) + Len(b)
           /\ \A i \in 1 .. Len(a) + Len(b) :
                Join(a, b)[i] = IF i <= Len(a) THEN a[i] ELSE b[i - Len(a)]
BY ConcatProperties DEF Join

\* Three pieces put together, in either order.
LEMMA JoinedInAnyOrder ==
    ASSUME NEW S, NEW a \in Seq(S), NEW b \in Seq(S), NEW c \in Seq(S)
    PROVE  Join(Join(a, b), c) = Join(a, Join(b, c))
BY ConcatAssociative DEF Join

\* Taking some bytes from the front and leaving the rest takes nothing away.
LEMMA CutInTwo ==
    ASSUME NEW S, NEW a \in Seq(S), NEW b \in Seq(S), NEW k \in 0 .. Len(b)
    PROVE  Join(Join(a, Kept(b, k)), Dropped(b, k)) = Join(a, b)
<1> DEFINE f == Kept(b, k)
           d == Dropped(b, k)
<1>1. f \in Seq(S) /\ Len(f) = k /\ \A i \in 1 .. k : f[i] = b[i]
  BY FirstBytes
<1>2. d \in Seq(S) /\ Len(d) = Len(b) - k /\ \A i \in 1 .. Len(b) - k : d[i] = b[k + i]
  BY DroppedBytes
<1>n. Len(b) \in Nat
  BY LenProperties
<1> HIDE DEF f, d
<1> DEFINE c == f \o d
<1>3. /\ c \in Seq(S) /\ Len(c) = k + (Len(b) - k)
      /\ \A i \in 1 .. k + (Len(b) - k) :
           c[i] = IF i <= k THEN f[i] ELSE d[i - k]
  BY <1>1, <1>2, ConcatProperties
<1> HIDE DEF c
<1>4. Len(c) = Len(b)
  BY <1>3, <1>n
<1>5. \A i \in 1 .. Len(b) : c[i] = b[i]
  <2> TAKE i \in 1 .. Len(b)
  <2>1. CASE i <= k
    BY <1>1, <1>3, <1>n, <2>1
  <2>2. CASE i > k
    <3>1. i - k \in 1 .. Len(b) - k /\ k + (i - k) = i /\ i \in 1 .. k + (Len(b) - k)
      BY <1>n, <2>2
    <3>2. c[i] = d[i - k]
      BY <1>3, <2>2, <3>1
    <3>3. d[i - k] = b[k + (i - k)]
      BY <1>2, <3>1
    <3> QED BY <3>1, <3>2, <3>3, Zenon
  <2> QED BY <1>n, <2>1, <2>2
<1>6. c = b
  BY <1>3, <1>4, <1>5, SeqEqual
<1>7. Join(Join(a, f), d) = Join(a, Join(f, d))
  BY <1>1, <1>2, JoinedInAnyOrder
<1>8. Join(f, d) = b
  BY <1>6 DEF c, Join
<1> QED BY <1>7, <1>8 DEF f, d

\* Taking bytes of the first of two pieces is taking them of both together.
LEMMA DroppedOfTwo ==
    ASSUME NEW S, NEW a \in Seq(S), NEW b \in Seq(S), NEW k \in 0 .. Len(a)
    PROVE  Join(Dropped(a, k), b) = Dropped(Join(a, b), k)
<1>n. Len(a) \in Nat /\ Len(b) \in Nat
  BY LenProperties
<1> DEFINE d == Dropped(a, k)
           c == a \o b
           e == Dropped(c, k)
<1>1. d \in Seq(S) /\ Len(d) = Len(a) - k /\ \A i \in 1 .. Len(a) - k : d[i] = a[k + i]
  BY DroppedBytes
<1>2. /\ c \in Seq(S) /\ Len(c) = Len(a) + Len(b)
      /\ \A i \in 1 .. Len(a) + Len(b) :
           c[i] = IF i <= Len(a) THEN a[i] ELSE b[i - Len(a)]
  BY ConcatProperties
<1> HIDE DEF c
<1>3. k \in 0 .. Len(c)
  BY <1>2, <1>n
<1>4. e \in Seq(S) /\ Len(e) = Len(c) - k /\ \A i \in 1 .. Len(c) - k : e[i] = c[k + i]
  <2>1. PICK m \in 0 .. Len(c) : m = k
    BY <1>3
  <2>2. /\ Dropped(c, m) \in Seq(S) /\ Len(Dropped(c, m)) = Len(c) - m
        /\ \A i \in 1 .. Len(c) - m : Dropped(c, m)[i] = c[m + i]
    BY <1>2, DroppedBytes
  <2> QED BY <2>1, <2>2
<1> HIDE DEF d, e
<1> DEFINE g == d \o b
<1>5. /\ g \in Seq(S) /\ Len(g) = Len(d) + Len(b)
      /\ \A i \in 1 .. Len(d) + Len(b) :
           g[i] = IF i <= Len(d) THEN d[i] ELSE b[i - Len(d)]
  BY <1>1, ConcatProperties
<1> HIDE DEF g
<1>6. Len(g) = Len(e)
  BY <1>1, <1>2, <1>4, <1>5, <1>n
<1>7. ASSUME NEW i \in 1 .. Len(e) PROVE g[i] = e[i]
  <2>1. k + i \in 1 .. Len(a) + Len(b) /\ i \in 1 .. Len(d) + Len(b) /\ e[i] = c[k + i]
    BY <1>1, <1>2, <1>4, <1>n
  <2>2. CASE i <= Len(d)
    BY <1>1, <1>2, <1>5, <1>n, <2>1, <2>2
  <2>3. CASE i > Len(d)
    <3>1. (k + i) - Len(a) = i - Len(d) /\ ~(k + i <= Len(a))
      BY <1>1, <1>n, <2>3
    <3>2. g[i] = b[i - Len(d)]
      BY <1>5, <2>1, <2>3
    <3>3. c[k + i] = b[(k + i) - Len(a)]
      BY <1>2, <2>1, <3>1
    <3> QED BY <2>1, <3>1, <3>2, <3>3, Zenon
  <2> QED BY <1>1, <1>n, <2>2, <2>3
<1>8. g = e
  BY <1>4, <1>5, <1>6, <1>7, SeqEqual
<1> QED BY <1>8 DEF c, d, e, g, Join

\* The bytes from i to j.
LEMMA BytesBetween ==
    ASSUME NEW S, NEW b \in Seq(S), NEW i \in 1 .. Len(b) + 1, NEW j \in i - 1 .. Len(b)
    PROVE  /\ SubSeq(b, i, j) \in Seq(S) /\ Len(SubSeq(b, i, j)) = j - i + 1
           /\ \A n \in 1 .. j - i + 1 : SubSeq(b, i, j)[n] = b[i + n - 1]
<1>1. Len(b) \in Nat /\ \A n \in 1 .. Len(b) : b[n] \in S
  BY LenProperties, ElementOfSeq
<1>2. i \in Int /\ j \in Int /\ \A n \in i .. j : b[n] \in S
  BY <1>1
<1> DEFINE d == SubSeq(b, i, j)
<1>3. /\ d \in Seq(S) /\ Len(d) = IF i <= j THEN j - i + 1 ELSE 0
      /\ \A n \in 1 .. j - i + 1 : d[n] = b[i + n - 1]
  BY <1>2, SubSeqProperties
<1> HIDE DEF d
<1>4. Len(d) = j - i + 1
  BY <1>1, <1>2, <1>3
<1> QED BY <1>3, <1>4 DEF d

-----------------------------------------------------------------------------
(* The loop of the 'data' handler.                                         *)

\* A set of naturals that is not empty has a least element.
LEMMA LeastOf ==
    ASSUME NEW T, T \subseteq Nat, T # {}
    PROVE  \E n \in T : \A m \in T : n <= m
<1> DEFINE R == OpToRel(<, Nat)
<1>1. \A m, n \in Nat : m < n => <<m, n>> \in R
  BY DEF OpToRel
<1>2. IsWellFoundedOn(R, Nat)
  BY NatLessThanWellFounded
<1> HIDE DEF R
<1>3. PICK n \in T : \A m \in T : ~(<<m, n>> \in R)
  BY <1>2, WFMin, Zenon
<1>4. \A m \in T : n \in Nat /\ m \in Nat /\ ~(m < n)
  BY <1>1, <1>3
<1> QED BY <1>4

\* The buffer holds less than the one frame it begins with, if it has a header.
Waits(t) == Len(t.input) < H \/ /\ Announced(t.input) \in 1 .. Cap
                                /\ Len(t.input) < H + Announced(t.input)

\* A turn has nothing to do, refuses what the buffer begins with, or takes it.
LEMMA TurnCases ==
    ASSUME NEW t \in Handlers
    PROVE  LET size == Announced(t.input) IN
           \/ Turn(t) = t /\ (t.refused \/ Waits(t))
           \/ /\ Turn(t) = Refuse(t) /\ ~t.refused /\ Len(t.input) >= H
              /\ \/ size \notin 1 .. Cap
                 \/ Len(t.input) >= H + size /\ ~Expected(t, t.input[1])
           \/ /\ Turn(t) = Take(t, H + size, Body(t.input, size))
              /\ ~t.refused /\ size \in 1 .. Cap /\ Len(t.input) >= H + size
              /\ Expected(t, t.input[1])
<1> DEFINE size == Announced(t.input)
<1>1. /\ H \in Nat \ {0} /\ Cap \in Nat \ {0}
      /\ t.input \in Seq(Bytes) /\ Len(t.input) \in Nat
  BY SizesAssumption, LenProperties DEF Handlers
<1>2. CASE t.refused \/ Len(t.input) < H
  BY <1>2 DEF Turn, Waits
<1>3. CASE ~t.refused /\ ~(Len(t.input) < H)
  <2>1. size \in Nat
    <3>1. 1 \in 1 .. Len(t.input)
      BY <1>1, <1>3
    <3>2. t.input[1] \in Bytes
      BY <1>1, <3>1, ElementOfSeq
    <3> QED BY <3>2 DEF Announced, Bytes
  <2>2. CASE size = 0 \/ size > Cap
    BY <1>1, <1>3, <2>1, <2>2 DEF Turn
  <2>3. CASE ~(size = 0 \/ size > Cap) /\ Len(t.input) < H + size
    BY <1>1, <1>3, <2>1, <2>3 DEF Turn, Waits
  <2>4. CASE ~(size = 0 \/ size > Cap) /\ ~(Len(t.input) < H + size)
    BY <1>1, <1>3, <2>1, <2>4 DEF Turn
  <2> QED BY <2>2, <2>3, <2>4
<1> QED BY <1>2, <1>3

\* What taking a frame changes.
LEMMA TakeEffect ==
    ASSUME NEW t \in Handlers, NEW size \in Nat, Len(t.input) >= H + size
    PROVE  LET u == Take(t, H + size, Body(t.input, size)) IN
           /\ u \in Handlers /\ Body(t.input, size) \in Seq(Bytes)
           /\ u.input = Dropped(t.input, H + size)
           /\ Len(u.input) = Len(t.input) - (H + size)
           /\ u.got = Append(t.got, Body(t.input, size))
           /\ u.ready = TRUE /\ u.refused = t.refused
           /\ u.pending = IF t.ready THEN FALSE ELSE t.pending
<1> DEFINE body == Body(t.input, size)
           rest == Dropped(t.input, H + size)
<1>1. /\ H \in Nat \ {0} /\ t.input \in Seq(Bytes) /\ Len(t.input) \in Nat
      /\ t.got \in Seq(Seq(Bytes)) /\ t.ready \in BOOLEAN /\ t.pending \in BOOLEAN
      /\ t.refused \in BOOLEAN
  BY SizesAssumption, LenProperties DEF Handlers
<1>2. H + size \in 0 .. Len(t.input)
  BY <1>1
<1>3. rest \in Seq(Bytes) /\ Len(rest) = Len(t.input) - (H + size)
  BY <1>1, <1>2, DroppedBytes
<1>4. body \in Seq(Bytes)
  <2>1. H + 1 \in 1 .. Len(t.input) + 1 /\ H + size \in (H + 1) - 1 .. Len(t.input)
    BY <1>1, <1>2
  <2> QED BY <1>1, <2>1, BytesBetween DEF Body
<1> HIDE DEF body, rest
<1>5. Append(t.got, body) \in Seq(Seq(Bytes))
  BY <1>1, <1>4
<1> DEFINE v == [t EXCEPT !.input = rest, !.got = Append(t.got, body), !.ready = TRUE,
                          !.pending = IF t.ready THEN FALSE ELSE @]
<1>6. /\ v \in Handlers /\ v.input = rest /\ v.got = Append(t.got, body)
      /\ v.ready = TRUE /\ v.refused = t.refused
      /\ v.pending = IF t.ready THEN FALSE ELSE t.pending
  BY <1>1, <1>3, <1>5 DEF Handlers
<1>7. v = Take(t, H + size, Body(t.input, size))
  BY DEF Take, body, rest
<1> HIDE DEF v
<1> QED BY <1>3, <1>4, <1>6, <1>7 DEF body, rest

\* A turn makes a handler of a handler.
LEMMA TurnType == ASSUME NEW t \in Handlers PROVE Turn(t) \in Handlers
<1> DEFINE size == Announced(t.input)
<1>1. Refuse(t) \in Handlers
  BY DEF Refuse, Handlers
<1>2. CASE /\ Turn(t) = Take(t, H + size, Body(t.input, size))
           /\ size \in 1 .. Cap /\ Len(t.input) >= H + size
  <2>1. size \in Nat
    BY <1>2, SizesAssumption
  <2> HIDE DEF size
  <2>2. Take(t, H + size, Body(t.input, size)) \in Handlers
    BY <1>2, <2>1, TakeEffect
  <2> QED BY <1>2, <2>2
<1>3. \/ Turn(t) = t \/ Turn(t) = Refuse(t)
      \/ /\ Turn(t) = Take(t, H + size, Body(t.input, size))
         /\ size \in 1 .. Cap /\ Len(t.input) >= H + size
  BY TurnCases
<1> QED BY <1>1, <1>2, <1>3

\* A loop that has ended does not go on.
LEMMA StopsStay ==
    ASSUME NEW t \in Handlers, t.refused \/ Waits(t)
    PROVE  Turn(t) = t
<1> DEFINE size == Announced(t.input)
<1>1. CASE t.refused \/ Len(t.input) < H
  BY <1>1 DEF Turn
<1>2. CASE size \in 1 .. Cap /\ Len(t.input) < H + size
  <2>1. ~(size = 0 \/ size > Cap)
    BY <1>2, SizesAssumption
  <2> QED BY <1>2, <2>1 DEF Turn
<1> QED BY <1>1, <1>2 DEF Waits

\* A turn that does not end the loop takes a header at least.
LEMMA TurnsShrink ==
    ASSUME NEW t \in Handlers, ~(Turn(t).refused \/ Waits(Turn(t)))
    PROVE  /\ Len(t.input) \in Nat /\ Len(Turn(t).input) \in Nat
           /\ Len(Turn(t).input) + H <= Len(t.input)
<1> DEFINE size == Announced(t.input)
           u == Take(t, H + size, Body(t.input, size))
<1>1. H \in Nat \ {0} /\ t.input \in Seq(Bytes) /\ Len(t.input) \in Nat
  BY SizesAssumption, LenProperties DEF Handlers
<1>2. Refuse(t).refused
  BY DEF Refuse, Handlers
<1>3. Turn(t) = u /\ size \in 1 .. Cap /\ Len(t.input) >= H + size
  BY <1>2, StopsStay, TurnCases
<1>4. size \in Nat /\ H + size \in 0 .. Len(t.input)
  BY <1>1, <1>3, SizesAssumption
<1> HIDE DEF size
<1>5. u.input = Dropped(t.input, H + size)
  BY DEF Take, Handlers
<1>6. Len(Dropped(t.input, H + size)) = Len(t.input) - (H + size)
  BY <1>1, <1>4, DroppedBytes
<1> QED BY <1>1, <1>3, <1>4, <1>5, <1>6

\* f[n] is what n turns make of s.
Turns(f, s, N) == f = [n \in 0 .. N |-> IF n = 0 THEN s
                                        ELSE [t \in Handlers |-> Turn(t)][f[n - 1]]]

\* The recursion of Loop has a solution.
LEMMA TurnsExist ==
    ASSUME NEW s, NEW N \in Nat
    PROVE  \E f : Turns(f, s, N)
<1> DEFINE turn == [t \in Handlers |-> Turn(t)]
           None(n) == ~ \E f : Turns(f, s, n)
           Bad == {n \in 0 .. N : None(n)}
<1>d. \A f, n : Turns(f, s, n) <=>
                f = [i \in 0 .. n |-> IF i = 0 THEN s ELSE turn[f[i - 1]]]
  BY DEF Turns
<1> SUFFICES ASSUME Bad # {} PROVE FALSE
  OBVIOUS
<1>1. PICK n \in Bad : \A m \in Bad : n <= m
  <2>1. Bad \subseteq Nat
    OBVIOUS
  <2> HIDE DEF Bad
  <2> QED BY <2>1, LeastOf
<1> HIDE DEF turn
<1>2. n # 0
  <2> DEFINE f == [i \in 0 .. 0 |-> s]
  <2>1. f = [i \in 0 .. 0 |-> IF i = 0 THEN s ELSE turn[f[i - 1]]]
    OBVIOUS
  <2>2. Turns(f, s, 0)
    BY <1>d, <2>1
  <2> QED BY <2>2
<1>3. n - 1 \in 0 .. N /\ n - 1 \notin Bad
  BY <1>1, <1>2
<1>4. PICK f : Turns(f, s, n - 1)
  BY <1>3
<1> DEFINE g == [i \in 0 .. n |-> IF i = n THEN turn[f[n - 1]] ELSE f[i]]
           h == [i \in 0 .. n |-> IF i = 0 THEN s ELSE turn[g[i - 1]]]
<1>5. \A i \in 0 .. n - 1 : f[i] = IF i = 0 THEN s ELSE turn[f[i - 1]]
  BY <1>4, <1>d
<1>6. ASSUME NEW i \in 0 .. n PROVE g[i] = h[i]
  <2>1. CASE i = n
    BY <1>2, <2>1
  <2>2. CASE i # n
    BY <1>5, <2>2
  <2> QED BY <2>1, <2>2
<1>7. g = h
  BY <1>6
<1>8. Turns(g, s, n)
  BY <1>7, <1>d
<1> QED BY <1>8

\* What every turn keeps, the loop keeps; and when it ends, it has refused, or it has
\* taken every frame that is whole.
LEMMA LoopEnds ==
    ASSUME NEW Good, Good \subseteq Handlers, \A t \in Good : Turn(t) \in Good,
           NEW s \in Good
    PROVE  Loop(s) \in Good /\ (Loop(s).refused \/ Waits(Loop(s)))
<1> DEFINE turn == [t \in Handlers |-> Turn(t)]
           L == Len(s.input)
           N == L \div H
           Step(f) == [n \in 0 .. N |-> IF n = 0 THEN s ELSE turn[f[n - 1]]]
           turns == CHOOSE f : f = Step(f)
<1>1. L \in Nat /\ H \in Nat \ {0}
  BY LenProperties, SizesAssumption DEF Handlers
<1>2. N \in Nat /\ L < N * H + H
  <2> HIDE DEF L
  <2> QED BY <1>1
<1>3. Loop(s) = turns[N]
  BY DEF Loop
<1>4. turns = Step(turns)
  <2>1. \E f : Turns(f, s, N)
    <3> HIDE DEF N
    <3> QED BY <1>2, TurnsExist
  <2>2. \A f : Turns(f, s, N) <=> f = Step(f)
    BY DEF Turns
  <2>3. \E f : f = Step(f)
    BY <2>1, <2>2
  <2> QED BY <2>3, Zenon
<1> HIDE DEF turns, N
<1>5. turns[0] = s /\ \A n \in 1 .. N : turns[n] = turn[turns[n - 1]]
  BY <1>2, <1>4
<1>6. \A t \in Good : turn[t] = Turn(t)
  OBVIOUS
<1> HIDE DEF turn, L
<1> DEFINE Stops(t) == t.refused \/ Waits(t)
           Fine(n) == /\ turns[n] \in Good
                      /\ Stops(turns[n]) \/ Len(turns[n].input) + n * H <= L
           Bad == {n \in 0 .. N : ~Fine(n)}
<1>7. Bad = {}
  <2> SUFFICES ASSUME Bad # {} PROVE FALSE
    OBVIOUS
  <2>1. PICK n \in Bad : \A m \in Bad : n <= m
    <3>1. Bad \subseteq Nat
      OBVIOUS
    <3> HIDE DEF Bad
    <3> QED BY <3>1, LeastOf
  <2>2. n \in 0 .. N /\ ~Fine(n)
    BY <2>1
  <2>3. n # 0
    <3>1. CASE n = 0
      <4>1. turns[0] \in Good /\ Len(turns[0].input) + 0 * H = L /\ L <= L
        BY <1>1, <1>5 DEF L
      <4> QED BY <2>2, <3>1, <4>1
    <3> QED BY <3>1
  <2>4. n - 1 \in 0 .. N /\ n \in 1 .. N /\ ~(n <= n - 1)
    BY <1>2, <2>2, <2>3
  <2>5. Fine(n - 1)
    <3>1. n - 1 \notin Bad
      <4> HIDE DEF Bad
      <4> QED BY <2>1, <2>4
    <3> HIDE DEF Fine
    <3> QED BY <2>4, <3>1
  <2> DEFINE t == turns[n - 1]
  <2>6. t \in Good /\ turns[n] = Turn(t) /\ Turn(t) \in Good
    <3>1. t \in Good
      BY <2>5
    <3>2. turns[n] = turn[t]
      BY <1>5, <2>4
    <3> HIDE DEF t
    <3> QED BY <1>6, <3>1, <3>2
  <2>7. Stops(t) \/ Len(t.input) + (n - 1) * H <= L
    BY <2>5
  <2>8. t \in Handlers
    BY <2>6
  <2> HIDE DEF t
  <2>9. ~Stops(Turn(t)) /\ ~(Len(Turn(t).input) + n * H <= L)
    BY <2>2, <2>6
  <2>10. ~Stops(t)
    <3>1. Stops(t) => Turn(t) = t
      BY <2>8, StopsStay
    <3> QED BY <2>9, <3>1
  <2> DEFINE a == Len(t.input)
             b == Len(Turn(t).input)
  <2>11. a \in Nat /\ b \in Nat /\ b + H <= a
    BY <2>8, <2>9, TurnsShrink
  <2> HIDE DEF a, b
  <2> DEFINE p == (n - 1) * H
             q == n * H
  <2>12. p \in Int /\ q \in Int /\ q = p + H
    BY <1>1, <2>4
  <2>13. a + p <= L
    BY <2>7, <2>10 DEF a
  <2> HIDE DEF p, q
  <2>14. b + q <= L
    BY <1>1, <2>11, <2>12, <2>13
  <2> QED BY <2>9, <2>14 DEF b, q
<1>8. Fine(N)
  BY <1>2, <1>7
<1>9. CASE Len(turns[N].input) + N * H <= L
  <2> DEFINE a == Len(turns[N].input)
             p == N * H
  <2>1. a \in Nat
    <3>1. turns[N].input \in Seq(Bytes)
      BY <1>8 DEF Handlers
    <3> QED BY <3>1, LenProperties
  <2>2. p \in Int
    BY <1>1, <1>2
  <2>l. L < p + H
    BY <1>2
  <2>r. a + p <= L
    BY <1>9
  <2> HIDE DEF a, p
  <2>3. a < H
    BY <1>1, <2>1, <2>2, <2>l, <2>r
  <2> QED BY <1>3, <1>8, <2>3 DEF Waits, a
<1> QED BY <1>3, <1>8, <1>9
-----------------------------------------------------------------------------
(* What the variables are, and the buffer between two events.              *)

\* The loop leaves a handler that has refused, or taken every whole frame.
LEMMA LoopWaits ==
    ASSUME NEW s \in Handlers
    PROVE  Loop(s) \in Handlers /\ (Loop(s).refused \/ Waits(Loop(s)))
BY TurnType, LoopEnds

\* The types of the control state.
Flags ==
    /\ attached \in BOOLEAN /\ ready \in BOOLEAN /\ pending \in BOOLEAN
    /\ refused \in BOOLEAN /\ session \in Nat /\ faults \in Nat
\* Bytes in the pipes and buffers, and bodies of frames.
Streams ==
    /\ input \in Seq(Bytes) /\ stdin \in Seq(Bytes) /\ partial \in Seq(Bytes)
    /\ stdout \in Seq(Bytes)
Histories ==
    /\ asked \in Seq(Seq(Bytes)) /\ heard \in Seq(Seq(Bytes))
    /\ sent \in Seq(Seq(Bytes)) /\ received \in Seq(Seq(Bytes))
\* Whose bytes are read: of a child that runs or has not been heard out.
Control ==
    /\ attached => parent = "up" /\ child \in {"up", "dead", "reaped"}
    /\ child = "up" /\ parent = "up" => attached
    /\ parent = "up" \/ parent = "gone"
Shape == Control /\ Flags /\ Streams /\ Histories

\* The body of a frame that is there as a whole.
LEMMA BodyBytes ==
    ASSUME NEW a \in Seq(Bytes), NEW size \in Nat, H + size <= Len(a)
    PROVE  /\ Body(a, size) \in Seq(Bytes) /\ Len(Body(a, size)) = size
           /\ \A i \in 1 .. size : Body(a, size)[i] = a[H + i]
<1> DEFINE first == H + 1
           last == H + size
           b == SubSeq(a, first, last)
<1>1. H \in Nat /\ Len(a) \in Nat
  BY SizesAssumption, LenProperties
<1>2. /\ first \in 1 .. Len(a) + 1 /\ last \in first - 1 .. Len(a)
      /\ last - first + 1 = size /\ \A i \in 1 .. size : first + i - 1 = H + i
  BY <1>1
<1>3. b = Body(a, size)
  BY DEF Body
<1> HIDE DEF first, last
<1>4. /\ b \in Seq(Bytes) /\ Len(b) = last - first + 1
      /\ \A i \in 1 .. last - first + 1 : b[i] = a[first + i - 1]
  BY <1>2, BytesBetween
<1> HIDE DEF b
<1>5. Len(b) = size /\ \A i \in 1 .. size : b[i] = a[H + i]
  BY <1>2, <1>4
<1> QED BY <1>3, <1>4, <1>5

\* A frame is bytes, and so is its body.
LEMMA WireBytes ==
    ASSUME session \in Nat, NEW n \in Nat, NEW size \in Nat
    PROVE  /\ Wire(n, size) \in Seq(Bytes) /\ Len(Wire(n, size)) = H + size
           /\ \A i \in 1 .. H + size : Wire(n, size)[i] = Byte(session, n, i, size)
           /\ Body(Wire(n, size), size) \in Seq(Bytes)
           /\ Len(Body(Wire(n, size), size)) = size
           /\ \A i \in 1 .. size :
                Body(Wire(n, size), size)[i] = Byte(session, n, H + i, size)
<1> DEFINE w == Wire(n, size)
<1>1. H \in Nat \ {0} /\ H + size \in Nat
  BY SizesAssumption
<1>2. \A i \in 1 .. H + size : Byte(session, n, i, size) \in Bytes
  BY <1>1 DEF Byte, Bytes
<1>3. w = [i \in 1 .. H + size |-> Byte(session, n, i, size)]
  BY DEF Wire
<1>4. w \in Seq(Bytes)
  BY <1>1, <1>2, <1>3, IsASeq
<1>5. w \in Seq(Bytes) /\ Len(w) = H + size
      /\ \A i \in 1 .. H + size : w[i] = Byte(session, n, i, size)
  <2>1. DOMAIN w = 1 .. H + size /\ DOMAIN w = 1 .. Len(w) /\ Len(w) \in Nat
    BY <1>3, <1>4, LenProperties
  <2>2. Len(w) = H + size
    <3> HIDE DEF w
    <3> QED BY <1>1, <2>1
  <2> QED BY <1>3, <1>4, <2>2
<1> HIDE DEF w
<1>6. /\ Body(w, size) \in Seq(Bytes) /\ Len(Body(w, size)) = size
      /\ \A i \in 1 .. size : Body(w, size)[i] = w[H + i]
  BY <1>1, <1>5, BodyBytes
<1>7. \A i \in 1 .. size : H + i \in 1 .. H + size
  BY <1>1
<1>8. \A i \in 1 .. size : Body(w, size)[i] = Byte(session, n, H + i, size)
  BY <1>5, <1>6, <1>7
<1> QED BY <1>5, <1>6, <1>8 DEF w

\* What send() and write_frame() add.
LEMMA SendShape ==
    ASSUME Shape, NEW size \in RequestSizes, Send(size)
    PROVE  stdin' \in Seq(Bytes) /\ asked' \in Seq(Seq(Bytes))
<1> DEFINE n == Len(asked) + 1
           w == Wire(n, size)
           b == Body(w, size)
<1>1. n \in Nat /\ size \in Nat /\ session \in Nat
  BY SizesAssumption, LenProperties DEF Shape, Flags, Histories
<1>2. w \in Seq(Bytes) /\ b \in Seq(Bytes)
  <2> HIDE DEF n
  <2> QED BY <1>1, WireBytes
<1>3. stdin' = stdin \o w /\ asked' = Append(asked, b)
  BY DEF Send
<1> HIDE DEF w, b
<1> QED BY <1>2, <1>3, ConcatProperties, AppendProperties DEF Shape, Streams, Histories

\* What write_frame() writes is bytes and a frame.
LEMMA WriteShape ==
    ASSUME Shape, NEW n \in Nat, NEW size \in Nat, Write(n, size)
    PROVE  stdout' \in Seq(Bytes) /\ sent' \in Seq(Seq(Bytes))
<1> DEFINE w == Wire(n, size)
           b == Body(w, size)
<1>1. w \in Seq(Bytes) /\ b \in Seq(Bytes)
  BY WireBytes DEF Shape, Flags
<1>2. stdout' = stdout \o w /\ sent' = Append(sent, b)
  BY DEF Write
<1> HIDE DEF w, b
<1> QED BY <1>1, <1>2, ConcatProperties, AppendProperties DEF Shape, Streams, Histories

\* The handler that an event begins with, and the loop over it.
Handed(k) == [input |-> input \o SubSeq(stdout, 1, k), ready |-> ready,
              pending |-> pending, got |-> received, refused |-> FALSE]

\* The loop of an event leaves bytes, and stops refused or waiting for more.
LEMMA HandedShape ==
    ASSUME Shape, NEW k \in 1 .. Len(stdout)
    PROVE  /\ Handed(k) \in Handlers /\ Loop(Handed(k)) \in Handlers
           /\ Loop(Handed(k)).refused \/ Waits(Loop(Handed(k)))
           /\ Dropped(stdout, k) \in Seq(Bytes) /\ Len(stdout) \in Nat
<1>1. /\ stdout \in Seq(Bytes) /\ k \in 0 .. Len(stdout) /\ input \in Seq(Bytes)
      /\ Len(stdout) \in Nat
  BY LenProperties DEF Shape, Streams
<1>2. Dropped(stdout, k) \in Seq(Bytes)
  BY <1>1, DroppedBytes
<1> DEFINE first == Kept(stdout, k)
           all == input \o first
<1>3. first \in Seq(Bytes)
  BY <1>1, FirstBytes
<1> HIDE DEF first
<1>4. all \in Seq(Bytes)
  BY <1>1, <1>3, ConcatProperties
<1>5. Handed(k) = [input |-> all, ready |-> ready, pending |-> pending, got |-> received,
                   refused |-> FALSE]
  BY DEF Handed, first, Kept
<1> HIDE DEF all
<1>6. Handed(k) \in Handlers
  BY <1>4, <1>5 DEF Handlers, Shape, Flags, Histories
<1> QED BY <1>1, <1>2, <1>6, LoopWaits

\* The three outcomes of a 'data' event: too many bytes, a frame refused, or what the
\* loop has made of them is kept.
Overflows(k) ==
    /\ Len(input) + k > Cap + H
    /\ Fail /\ refused' = TRUE /\ (child = "reaped" => stdout' = Dropped(stdout, k))
    /\ UNCHANGED <<received, asked>>
Refuses(k) ==
    /\ ~(Len(input) + k > Cap + H) /\ Loop(Handed(k)).refused
    /\ Fail /\ refused' = TRUE /\ received' = Loop(Handed(k)).got
    /\ child = "reaped" => stdout' = Dropped(stdout, k)
    /\ UNCHANGED asked
Accepts(k) ==
    LET s == Loop(Handed(k)) IN
    /\ ~(Len(input) + k > Cap + H) /\ ~s.refused
    /\ input' = s.input /\ ready' = s.ready /\ pending' = s.pending
    /\ received' = s.got /\ stdout' = Dropped(stdout, k)
    /\ \/ /\ s.ready /\ ~ready /\ s.pending
          /\ \E size \in RequestSizes : Send(size)
       \/ /\ ~(s.ready /\ ~ready /\ s.pending)
          /\ UNCHANGED <<stdin, asked>>
    /\ UNCHANGED <<child, attached, retiring, refused, partial>>

\* The 'data' event is one of them.
LEMMA DataCases ==
    ASSUME NEW k, Data(k)
    PROVE  /\ parent = "up" /\ attached /\ k \in 1 .. Len(stdout)
           /\ Overflows(k) \/ Refuses(k) \/ Accepts(k)
           /\ UNCHANGED <<parent, session, stale, heard, sent, faults>>
<1>1. Handed(k) = [input |-> input \o SubSeq(stdout, 1, k), ready |-> ready,
                   pending |-> pending, got |-> received, refused |-> FALSE]
  BY DEF Handed
<1> QED BY <1>1, Zenon DEF Data, Overflows, Refuses, Accepts

\* A session given up leaves nothing behind.
LEMMA FailShape ==
    ASSUME Shape, Fail
    PROVE  /\ attached' = FALSE /\ ready' = FALSE /\ pending' = FALSE /\ input' = <<>>
           /\ stdin' \in Seq(Bytes) /\ partial' \in Seq(Bytes)
           /\ stdout' = <<>> \/ child = "reaped" \/ child \notin {"up", "dead"}
           /\ (partial' = partial \/ partial' = <<>>)
           /\ child' # "up"
           /\ child \in {"up", "dead"} => stdout' = <<>> /\ child' = "dead"
           /\ child \notin {"up", "dead"} => child' = child
BY EmptySeq DEF Fail, Dies, Shape, Streams

\* Bytes taken from the request pipe.
LEMMA ReadShape ==
    ASSUME Shape, NEW k \in 1 .. Len(stdin)
    PROVE  /\ partial \o SubSeq(stdin, 1, k) \in Seq(Bytes)
           /\ Dropped(stdin, k) \in Seq(Bytes)
<1>1. stdin \in Seq(Bytes) /\ k \in 0 .. Len(stdin) /\ partial \in Seq(Bytes)
  BY LenProperties DEF Shape, Streams
<1> DEFINE first == Kept(stdin, k)
<1>2. first \in Seq(Bytes)
  BY <1>1, FirstBytes
<1> HIDE DEF first
<1>3. partial \o first \in Seq(Bytes)
  BY <1>1, <1>2, ConcatProperties
<1> QED BY <1>1, <1>3, DroppedBytes DEF first, Kept

\* What a request in the hands of the child is.
LEMMA WholeShape ==
    ASSUME Shape, Whole
    PROVE  /\ partial[1] \in Bytes /\ partial[1].size \in Nat /\ partial[1].frame \in Nat
           /\ H + partial[1].size = Len(partial) /\ Len(partial) >= 1
<1>1. partial \in Seq(Bytes) /\ Len(partial) \in Nat /\ H \in Nat \ {0}
  BY LenProperties, SizesAssumption DEF Shape, Streams
<1>2. Len(partial) >= 1 /\ 1 \in 1 .. Len(partial)
  BY <1>1 DEF Whole
<1>3. partial[1] \in Bytes
  BY <1>1, <1>2, ElementOfSeq
<1> QED BY <1>2, <1>3 DEF Bytes, Whole

\* Every action leaves bytes in the pipes and frames in the histories.
LEMMA ShapeKept == ASSUME Shape, [Next]_vars PROVE Shape'
<1> USE DEF Shape
<1>e. <<>> \in Seq(Bytes) /\ <<>> \in Seq(Seq(Bytes))
  BY EmptySeq
<1>s. ASSUME Start, parent = "up", pending' \in BOOLEAN PROVE Shape'
  <2>1. Control'
    BY <1>s DEF Control, Start
  <2>3. Flags'
    <3>1. /\ session \in Nat /\ session' = session + 1 /\ attached' = TRUE
          /\ ready' = FALSE /\ refused' = FALSE /\ faults' = faults /\ faults \in Nat
      BY <1>s DEF Flags, Start
    <3>2. session' \in Nat
      BY <3>1
    <3> QED BY <1>s, <3>1, <3>2, Zenon DEF Flags
  <2>2. Streams' /\ Histories'
    BY <1>e, <1>s DEF Streams, Histories, Start
  <2> QED BY <2>1, <2>2, <2>3
<1>0. CASE UNCHANGED vars
  BY <1>0 DEF vars, client, server, Control, Flags, Streams, Histories
<1>1. CASE Open
  BY <1>1, <1>s DEF Open, Flags
<1>2. CASE SearchFirst
  BY <1>2, <1>s DEF SearchFirst
<1>3. CASE SearchNext
  <2>1. PICK size \in RequestSizes : Send(size)
    BY <1>3 DEF SearchNext
  <2>2. stdin' \in Seq(Bytes) /\ asked' \in Seq(Seq(Bytes))
    BY <2>1, SendShape
  <2> QED BY <1>3, <2>2 DEF SearchNext, Control, Flags, Streams, Histories, server
<1>f. ASSUME Fail, attached, UNCHANGED <<parent, session, asked, faults, heard, sent>>,
             refused' \in BOOLEAN, stdout' \in Seq(Bytes), received' \in Seq(Seq(Bytes))
      PROVE  Shape'
  <2>1. /\ attached' = FALSE /\ ready' = FALSE /\ pending' = FALSE /\ input' = <<>>
        /\ stdin' \in Seq(Bytes) /\ partial' \in Seq(Bytes) /\ child' # "up"
    BY <1>f, FailShape
  <2> QED BY <1>e, <1>f, <2>1 DEF Control, Flags, Streams, Histories
<1>4. CASE GiveUp
  <2>1. /\ Fail /\ attached /\ (child = "reaped" => UNCHANGED stdout)
        /\ UNCHANGED <<parent, session, asked, faults, heard, sent, received, refused>>
    BY <1>4 DEF GiveUp
  <2>2. stdout' = <<>> \/ stdout' = stdout
    BY <2>1, FailShape DEF Control
  <2> QED BY <1>e, <1>f, <2>1, <2>2 DEF Flags, Streams, Histories
<1>5. ASSUME NEW k \in 1 .. Len(stdout), Data(k) PROVE Shape'
  <2>1. /\ attached /\ UNCHANGED <<parent, session, faults, heard, sent>>
        /\ Overflows(k) \/ Refuses(k) \/ Accepts(k)
    BY <1>5, DataCases
  <2> DEFINE s == Loop(Handed(k))
  <2>2. s \in Handlers /\ Dropped(stdout, k) \in Seq(Bytes)
    BY HandedShape
  <2>3. CASE Overflows(k)
    <3>1. Fail /\ refused' = TRUE /\ UNCHANGED <<received, asked>>
          /\ (child = "reaped" => stdout' = Dropped(stdout, k))
      BY <2>3 DEF Overflows
    <3>2. stdout' \in Seq(Bytes)
      BY <1>e, <2>1, <2>2, <3>1, FailShape DEF Control
    <3> QED BY <1>f, <2>1, <3>1, <3>2 DEF Flags, Histories
  <2>4. CASE Refuses(k)
    <3>1. Fail /\ refused' = TRUE /\ received' = s.got /\ UNCHANGED asked
          /\ (child = "reaped" => stdout' = Dropped(stdout, k))
      BY <2>4 DEF Refuses
    <3>2. stdout' \in Seq(Bytes)
      BY <1>e, <2>1, <2>2, <3>1, FailShape DEF Control
    <3>3. received' \in Seq(Seq(Bytes))
      BY <2>2, <3>1 DEF Handlers
    <3> QED BY <1>f, <2>1, <3>1, <3>2, <3>3
  <2>5. CASE Accepts(k)
    <3>1. /\ input' = s.input /\ ready' = s.ready /\ pending' = s.pending
          /\ received' = s.got /\ stdout' = Dropped(stdout, k)
          /\ UNCHANGED <<child, attached, refused, partial>>
          /\ (UNCHANGED <<stdin, asked>>) \/ \E size \in RequestSizes : Send(size)
      BY <2>5 DEF Accepts
    <3>2. stdin' \in Seq(Bytes) /\ asked' \in Seq(Seq(Bytes))
      BY <3>1, SendShape DEF Streams, Histories
    <3>3. /\ input' \in Seq(Bytes) /\ ready' \in BOOLEAN /\ pending' \in BOOLEAN
          /\ received' \in Seq(Seq(Bytes))
      BY <2>2, <3>1 DEF Handlers
    <3>4. Control' /\ Flags'
      BY <2>1, <3>1, <3>3 DEF Control, Flags
    <3>5. Streams' /\ Histories'
      BY <2>1, <2>2, <3>1, <3>2, <3>3 DEF Streams, Histories
    <3> QED BY <3>4, <3>5
  <2> QED BY <2>1, <2>3, <2>4, <2>5
<1>6. CASE StaleData
  BY <1>6 DEF StaleData, client, server, Control, Flags, Streams, Histories
<1>7. CASE Reap
  BY <1>7 DEF Reap, client, server, Control, Flags, Streams, Histories
<1>8. CASE Close
  BY <1>8, <1>e DEF Close, server, Control, Flags, Streams, Histories
<1>w. ASSUME NEW n \in Nat, NEW size \in Nat, Write(n, size), UNCHANGED client,
             UNCHANGED <<parent, child, session>>, stdin' \in Seq(Bytes),
             partial' \in Seq(Bytes), heard' \in Seq(Seq(Bytes)), faults' \in Nat
      PROVE  Shape'
  <2>1. stdout' \in Seq(Bytes) /\ sent' \in Seq(Seq(Bytes))
    BY <1>w, WriteShape
  <2> QED BY <1>w, <2>1 DEF client, Control, Flags, Streams, Histories
<1>n. (\A n \in HelloSizes \cup ReplySizes : n \in Nat) /\ H \in Nat /\ Cap \in Nat
  BY SizesAssumption
<1>9. CASE Hello
  <2>1. PICK size \in HelloSizes : Write(1, size)
    BY <1>9 DEF Hello
  <2> QED BY <1>9, <1>n, <1>w, <2>1 DEF Hello, Flags, Streams, Histories
<1>10. CASE Answer
  <2>1. PICK size \in ReplySizes : Write(partial[1].frame + 1, size)
    BY <1>10 DEF Answer
  <2>2. partial[1].size \in Nat /\ partial[1].frame + 1 \in Nat
        /\ H + partial[1].size = Len(partial)
    BY <1>10, WholeShape DEF Answer
  <2>3. Body(partial, partial[1].size) \in Seq(Bytes)
    <3>1. Len(partial) \in Nat
      BY LenProperties DEF Streams
    <3> QED BY <1>n, <2>2, <3>1, BodyBytes DEF Streams
  <2>4. heard' \in Seq(Seq(Bytes))
    BY <1>10, <2>3, AppendProperties DEF Answer, Histories
  <2> QED BY <1>10, <1>e, <1>n, <1>w, <2>1, <2>2, <2>4 DEF Answer, Flags, Streams
<1>11. CASE Orphaned
  BY <1>11, <1>e DEF Orphaned, Dies, client, Control, Flags, Streams, Histories
<1>12. ASSUME NEW k \in 1 .. Len(stdin), Read(k) PROVE Shape'
  <2>1. partial' \in Seq(Bytes) /\ stdin' \in Seq(Bytes)
    BY <1>12, ReadShape DEF Read
  <2> QED BY <1>12, <2>1 DEF Read, Reading, client, Control, Flags, Streams, Histories
<1>13. CASE Crash
  <2>1. PICK k \in 0 .. Len(stdout) : stdout' = SubSeq(stdout, 1, k)
    BY <1>13 DEF Crash
  <2>2. stdout' \in Seq(Bytes)
    BY <2>1, FirstBytes DEF Streams, Kept
  <2> QED BY <1>13, <1>e, <2>2
      DEF Crash, Dies, client, Control, Flags, Streams, Histories
<1>14. CASE Misbehave
  <2>1. PICK n \in {0, Len(sent)}, size \in {0, 1, Cap + 1} : Write(n, size)
    BY <1>14 DEF Misbehave
  <2>2. n \in Nat /\ size \in Nat
    BY <1>n, <2>1, LenProperties DEF Histories
  <2> QED BY <1>14, <1>w, <2>1, <2>2 DEF Misbehave, Flags, Streams, Histories
<1>15. CASE ParentDies
  <2>1. PICK k \in 0 .. Len(stdin) : stdin' = SubSeq(stdin, 1, k)
    BY <1>15 DEF ParentDies
  <2>2. stdin' \in Seq(Bytes)
    BY <2>1, FirstBytes DEF Streams, Kept
  <2> QED BY <1>15, <1>e, <2>2
      DEF ParentDies, server, Control, Flags, Streams, Histories
<1> QED BY <1>0, <1>1, <1>2, <1>3, <1>4, <1>5, <1>6, <1>7, <1>8, <1>9, <1>10, <1>11,
           <1>12, <1>13, <1>14, <1>15, Zenon DEF Next, Client, Child

\* At first there is no child, and nothing has been written.
LEMMA ShapeInit == Init => Shape
<1> SUFFICES ASSUME Init PROVE Shape
  OBVIOUS
<1>1. <<>> \in Seq(Bytes) /\ <<>> \in Seq(Seq(Bytes))
  BY EmptySeq
<1>2. Control /\ Flags
  BY DEF Init, Control, Flags
<1>3. Streams /\ Histories
  BY <1>1 DEF Init, Streams, Histories
<1> QED BY <1>2, <1>3 DEF Shape

\* The buffer is emptied, left alone, or what the loop leaves.
LEMMA BufferStep ==
    ASSUME Shape, [Next]_vars
    PROVE  \/ input' = <<>> \/ input' = input
           \/ \E k \in 1 .. Len(stdout) : Accepts(k)
<1> USE DEF Open, SearchFirst, Start, SearchNext, GiveUp, Fail, StaleData, Reap, Close,
            Hello, Answer, Orphaned, Read, Crash, Misbehave, ParentDies, client, server
<1>1. ASSUME NEW k \in 1 .. Len(stdout), Data(k)
      PROVE  input' = <<>> \/ \E n \in 1 .. Len(stdout) : Accepts(n)
  BY <1>1, DataCases DEF Overflows, Refuses
<1>2. CASE Open \/ SearchFirst \/ SearchNext \/ GiveUp \/ StaleData \/ Reap \/ Close
  BY <1>2
<1>3. CASE Hello \/ Answer \/ Orphaned \/ (\E k \in 1 .. Len(stdin) : Read(k))
  BY <1>3
<1>4. CASE Crash \/ Misbehave \/ ParentDies \/ UNCHANGED vars
  BY <1>4 DEF vars
<1> QED BY <1>1, <1>2, <1>3, <1>4 DEF Next, Client, Child

\* Whatever a step does to the buffer, no whole frame is left in it.
LEMMA BufferKept == ASSUME Shape, NoFrameWaits, [Next]_vars PROVE NoFrameWaits'
<1>1. CASE input' = <<>>
  BY <1>1, EmptySeq, SizesAssumption DEF NoFrameWaits
<1>2. CASE input' = input
  BY <1>2 DEF NoFrameWaits, Announced
<1>3. ASSUME NEW k \in 1 .. Len(stdout), Accepts(k) PROVE NoFrameWaits'
  <2> DEFINE s == Loop(Handed(k))
  <2>1. s \in Handlers /\ (s.refused \/ Waits(s)) /\ ~s.refused /\ input' = s.input
    BY <1>3, HandedShape DEF Accepts
  <2>2. Len(s.input) \in Nat /\ H \in Nat
    BY <2>1, LenProperties, SizesAssumption DEF Handlers
  <2> HIDE DEF s
  <2> QED BY <2>1, <2>2 DEF NoFrameWaits, Waits, Announced
<1> QED BY <1>1, <1>2, <1>3, BufferStep

\* What the variables are in every state that can be reached.
THEOREM TypeCorrect == Spec => []Shape
<1>1. Init => Shape
  BY ShapeInit
<1>2. Shape /\ [Next]_vars => Shape'
  BY ShapeKept
<1> QED BY <1>1, <1>2, PTL DEF Spec

\* After every 'data' event the buffer holds less than the one frame it begins with,
\* whatever the child has sent.
THEOREM NoFrameIsLeft == Spec => []NoFrameWaits
<1>1. Init => NoFrameWaits
  BY EmptySeq, SizesAssumption DEF Init, NoFrameWaits
<1>2. Shape /\ NoFrameWaits /\ [Next]_vars => NoFrameWaits'
  BY BufferKept
<1> QED BY <1>1, <1>2, TypeCorrect, PTL DEF Spec

\* So the client never keeps more of a child's output than a header and the cap.
THEOREM BufferIsBounded == Spec => [](Len(input) < H + Cap)
<1>1. ASSUME Shape, NoFrameWaits PROVE Len(input) < H + Cap
  <2>1. Len(input) \in Nat /\ H \in Nat \ {0} /\ Cap \in Nat \ {0}
    BY <1>1, LenProperties, SizesAssumption DEF Shape, Streams
  <2>2. CASE Len(input) >= H
    <3>1. PICK size \in 1 .. Cap : size = Announced(input)
      BY <1>1, <2>2 DEF NoFrameWaits
    <3>2. Len(input) < H + size
      BY <1>1, <2>2, <3>1 DEF NoFrameWaits
    <3> QED BY <2>1, <3>2
  <2>3. CASE ~(Len(input) >= H)
    BY <2>1, <2>3
  <2> QED BY <2>2, <2>3
<1> QED BY <1>1, TypeCorrect, NoFrameIsLeft, PTL
-----------------------------------------------------------------------------
(* Frames in a stream of bytes.                                            *)

\* w is the frames with these bodies, written one after the other in session ses:
\* frame i, of number num[i], ends at off[i].
Written(ses, bodies, w, off, num) ==
    /\ bodies \in Seq(Seq(Bytes)) /\ w \in Seq(Bytes)
    /\ off \in [0 .. Len(bodies) -> Nat] /\ off[0] = 0 /\ off[Len(bodies)] = Len(w)
    /\ num \in [1 .. Len(bodies) -> Nat]
    /\ \A i \in 0 .. Len(bodies) : off[i] <= Len(w)
    /\ \A i \in 1 .. Len(bodies) :
          /\ off[i] = off[i - 1] + (H + Len(bodies[i]))
          /\ \A j \in 1 .. H + Len(bodies[i]) :
                w[off[i - 1] + j] = Byte(ses, num[i], j, Len(bodies[i]))
          /\ \A j \in 1 .. Len(bodies[i]) :
                bodies[i][j] = Byte(ses, num[i], H + j, Len(bodies[i]))

\* b is what w has from start on, up to some byte.
IsPiece(b, w, start) ==
    start + Len(b) <= Len(w) /\ \A p \in 1 .. Len(b) : b[p] = w[start + p]

\* A piece without its first bytes, and those first bytes, are pieces.
LEMMA PieceDropped ==
    ASSUME NEW b \in Seq(Bytes), NEW w \in Seq(Bytes), NEW start \in Nat,
           IsPiece(b, w, start), NEW k \in 0 .. Len(b)
    PROVE  IsPiece(Dropped(b, k), w, start + k)
<1> DEFINE d == Dropped(b, k)
<1>1. Len(b) \in Nat /\ Len(w) \in Nat
  BY LenProperties
<1>2. Len(d) = Len(b) - k /\ \A i \in 1 .. Len(b) - k : d[i] = b[k + i]
  BY DroppedBytes
<1> HIDE DEF d
<1>3. ASSUME NEW i \in 1 .. Len(d) PROVE d[i] = w[(start + k) + i]
  <2>1. k + i \in 1 .. Len(b) /\ start + (k + i) = (start + k) + i /\ d[i] = b[k + i]
    BY <1>1, <1>2
  <2>2. b[k + i] = w[start + (k + i)]
    BY <2>1 DEF IsPiece
  <2> QED BY <2>1, <2>2, Zenon
<1>4. (start + k) + Len(d) <= Len(w)
  BY <1>1, <1>2 DEF IsPiece
<1> QED BY <1>3, <1>4 DEF IsPiece, d

\* The first part of a piece is a piece.
LEMMA PieceFirst ==
    ASSUME NEW a \in Seq(Bytes), NEW b \in Seq(Bytes), NEW w \in Seq(Bytes),
           NEW start \in Nat, IsPiece(Join(a, b), w, start)
    PROVE  IsPiece(a, w, start)
<1> DEFINE c == Join(a, b)
<1>1. Len(a) \in Nat /\ Len(b) \in Nat /\ Len(w) \in Nat
  BY LenProperties
<1>2. /\ Len(c) = Len(a) + Len(b)
      /\ \A i \in 1 .. Len(a) + Len(b) :
            c[i] = IF i <= Len(a) THEN a[i] ELSE b[i - Len(a)]
  BY JoinedBytes
<1>3. IsPiece(c, w, start)
  OBVIOUS
<1> HIDE DEF c
<1>4. start + Len(a) <= Len(w)
  <2>1. start + Len(c) <= Len(w) /\ Len(c) = Len(a) + Len(b)
    BY <1>2, <1>3 DEF IsPiece
  <2> QED BY <1>1, <2>1
<1>5. ASSUME NEW p \in 1 .. Len(a) PROVE a[p] = w[start + p]
  <2>1. p \in 1 .. Len(a) + Len(b) /\ p <= Len(a)
    BY <1>1
  <2>2. c[p] = a[p]
    BY <1>2, <2>1
  <2>3. c[p] = w[start + p]
    BY <1>2, <1>3, <2>1 DEF IsPiece
  <2> QED BY <2>2, <2>3
<1> QED BY <1>4, <1>5 DEF IsPiece

\* A piece that lacks nothing grows with what is written.
LEMMA PieceOfMore ==
    ASSUME NEW b \in Seq(Bytes), NEW w \in Seq(Bytes), NEW f \in Seq(Bytes),
           NEW start \in Nat, IsPiece(b, w, start), start + Len(b) = Len(w)
    PROVE  /\ IsPiece(Join(b, f), Join(w, f), start)
           /\ start + Len(Join(b, f)) = Len(Join(w, f))
<1> DEFINE c == Join(b, f)
           v == Join(w, f)
<1>1. Len(b) \in Nat /\ Len(f) \in Nat /\ Len(w) \in Nat
  BY LenProperties
<1>2. /\ Len(c) = Len(b) + Len(f)
      /\ \A i \in 1 .. Len(b) + Len(f) :
            c[i] = IF i <= Len(b) THEN b[i] ELSE f[i - Len(b)]
  BY JoinedBytes
<1>3. /\ Len(v) = Len(w) + Len(f)
      /\ \A i \in 1 .. Len(w) + Len(f) :
            v[i] = IF i <= Len(w) THEN w[i] ELSE f[i - Len(w)]
  BY JoinedBytes
<1> HIDE DEF c, v
<1>l. Len(c) = Len(b) + Len(f) /\ Len(v) = Len(w) + Len(f)
  BY <1>2, <1>3
<1>w. ASSUME NEW p \in 1 .. Len(b) PROVE start + p \in 1 .. Len(w) /\ b[p] = v[start + p]
  <2>1. start + Len(b) <= Len(w) /\ b[p] = w[start + p]
    BY DEF IsPiece
  <2>2. start + p \in 1 .. Len(w)
    BY <1>1, <2>1
  <2>3. start + p \in 1 .. Len(w) + Len(f) /\ start + p <= Len(w)
    BY <1>1, <2>2
  <2> QED BY <1>3, <2>1, <2>2, <2>3
<1>5. IsPiece(c, v, start)
  <2>1. ASSUME NEW p \in 1 .. Len(c) PROVE c[p] = v[start + p]
    <3>1. CASE p <= Len(b)
      <4>1. p \in 1 .. Len(b) /\ p \in 1 .. Len(b) + Len(f)
        BY <1>1, <3>1
      <4> QED BY <1>2, <1>w, <3>1, <4>1
    <3>2. CASE p > Len(b)
      <4>0. p \in Nat /\ Len(b) < p /\ p <= Len(b) + Len(f)
        BY <1>1, <1>l, <3>2
      <4>a. ~(p <= Len(b)) /\ p \in 1 .. Len(b) + Len(f)
        BY <1>1, <4>0
      <4>b. (start + p) - Len(w) = p - Len(b)
        BY <1>1, <4>0
      <4>c. ~(start + p <= Len(w)) /\ start + p \in 1 .. Len(w) + Len(f)
        BY <1>1, <4>0
      <4>1. /\ ~(start + p <= Len(w)) /\ start + p \in 1 .. Len(w) + Len(f)
            /\ ~(p <= Len(b)) /\ p \in 1 .. Len(b) + Len(f)
            /\ (start + p) - Len(w) = p - Len(b)
        BY <4>a, <4>b, <4>c
      <4>2. c[p] = f[p - Len(b)]
        BY <1>2, <4>1
      <4>3. v[start + p] = f[(start + p) - Len(w)]
        BY <1>3, <4>1
      <4> QED BY <4>1, <4>2, <4>3, Zenon
    <3> QED BY <1>1, <1>l, <3>1, <3>2
  <2>2. start + Len(c) <= Len(v)
    BY <1>1, <1>l
  <2> QED BY <2>1, <2>2 DEF IsPiece
<1>6. start + Len(c) = Len(v)
  <2>1. start + (Len(b) + Len(f)) = Len(w) + Len(f)
    BY <1>1
  <2> QED BY <1>l, <2>1
<1> QED BY <1>5, <1>6 DEF c, v

\* A new pipe holds nothing.
LEMMA NothingWritten ==
    ASSUME NEW ses \in Nat
    PROVE  /\ \E off, num : Written(ses, <<>>, <<>>, off, num) /\ off[0] = 0
           /\ IsPiece(Join(<<>>, <<>>), <<>>, 0) /\ 0 + Len(Join(<<>>, <<>>)) = Len(<<>>)
<1>1. <<>> \in Seq(Bytes) /\ <<>> \in Seq(Seq(Bytes)) /\ Len(<<>>) = 0
  BY EmptySeq
<1> DEFINE off == [i \in 0 .. 0 |-> 0]
           num == [i \in 1 .. 0 |-> 0]
<1>2. off \in [0 .. 0 -> Nat] /\ off[0] = 0 /\ num \in [1 .. 0 -> Nat]
  OBVIOUS
<1> HIDE DEF off, num
<1>3. Written(ses, <<>>, <<>>, off, num)
  <2>1. \A i \in 0 .. 0 : off[i] <= 0
    BY <1>2
  <2> QED BY <1>1, <1>2, <2>1 DEF Written
<1>4. Join(<<>>, <<>>) = <<>>
  BY <1>1 DEF Join
<1>5. IsPiece(<<>>, <<>>, 0)
  BY <1>1 DEF IsPiece
<1> QED BY <1>1, <1>2, <1>3, <1>4, <1>5

\* If a byte has not been taken yet, a frame has not been, and a piece from there on
\* begins with that frame.
LEMMA PieceHead ==
    ASSUME NEW ses, NEW bodies, NEW w, NEW off, NEW num,
           Written(ses, bodies, w, off, num), NEW r \in 0 .. Len(bodies),
           NEW a \in Seq(Bytes), Len(a) >= 1, IsPiece(a, w, off[r])
    PROVE  /\ r + 1 \in 1 .. Len(bodies) /\ bodies[r + 1] \in Seq(Bytes)
           /\ Len(bodies[r + 1]) \in Nat /\ num[r + 1] \in Nat
           /\ off[r + 1] = off[r] + (H + Len(bodies[r + 1]))
           /\ \A j \in 1 .. Len(a) : j <= H + Len(bodies[r + 1]) =>
                 a[j] = Byte(ses, num[r + 1], j, Len(bodies[r + 1]))
<1>1. /\ bodies \in Seq(Seq(Bytes)) /\ w \in Seq(Bytes)
      /\ off \in [0 .. Len(bodies) -> Nat] /\ off[Len(bodies)] = Len(w)
      /\ num \in [1 .. Len(bodies) -> Nat]
  BY DEF Written
<1>2. /\ Len(bodies) \in Nat /\ Len(a) \in Nat /\ Len(w) \in Nat
      /\ off[r] \in Nat /\ H \in Nat
  BY <1>1, LenProperties, SizesAssumption
<1>3. off[r] + Len(a) <= Len(w)
  BY DEF IsPiece
<1>4. r # Len(bodies)
  BY <1>1, <1>2, <1>3
<1> DEFINE i == r + 1
<1>5. i \in 1 .. Len(bodies) /\ i - 1 = r
  BY <1>2, <1>4
<1>6. bodies[i] \in Seq(Bytes) /\ num[i] \in Nat
  BY <1>1, <1>5, ElementOfSeq
<1>7. Len(bodies[i]) \in Nat
  BY <1>6, LenProperties
<1> HIDE DEF i
<1>8. /\ off[i] = off[i - 1] + (H + Len(bodies[i]))
      /\ \A j \in 1 .. H + Len(bodies[i]) :
            w[off[i - 1] + j] = Byte(ses, num[i], j, Len(bodies[i]))
  BY <1>5 DEF Written
<1>9. ASSUME NEW j \in 1 .. Len(a), j <= H + Len(bodies[i])
      PROVE  a[j] = Byte(ses, num[i], j, Len(bodies[i]))
  <2>1. j \in 1 .. H + Len(bodies[i])
    BY <1>2, <1>7, <1>9
  <2>2. a[j] = w[off[r] + j]
    BY DEF IsPiece
  <2> QED BY <1>5, <1>8, <2>1, <2>2
<1> QED BY <1>5, <1>6, <1>7, <1>8, <1>9 DEF i

\* The bytes begin with the frame of this number and size.
Begins(a, ses, n, size) ==
    \A j \in 1 .. Len(a) : j <= H + size => a[j] = Byte(ses, n, j, size)

\* A header that is there announces the frame it begins.
LEMMA HeaderIsRead ==
    ASSUME NEW ses, NEW n, NEW size \in Nat, NEW a \in Seq(Bytes), Len(a) >= H,
           Begins(a, ses, n, size)
    PROVE  Announced(a) = size /\ a[1] = Byte(ses, n, 1, size)
<1>1. H \in Nat \ {0} /\ Len(a) \in Nat
  BY SizesAssumption, LenProperties
<1>2. \A j \in 1 .. H : a[j] = Byte(ses, n, j, size)
  BY <1>1 DEF Begins
<1>f. \A j : Byte(ses, n, j, size).at = j /\ Byte(ses, n, j, size).size = size
  BY DEF Byte
<1>3. \A j \in 1 .. H : a[j].at = j
  BY <1>2, <1>f, Zenon
<1>o. 1 \in 1 .. H
  BY <1>1
<1>4. 1 \in 1 .. H /\ a[1].size = size
  BY <1>o, <1>2, <1>f, Zenon
<1> QED BY <1>2, <1>3, <1>4, Zenon DEF Announced

\* A frame that is there as a whole has the body that was sent.
LEMMA BodyIsRead ==
    ASSUME NEW ses, NEW bodies, NEW w, NEW off, NEW num,
           Written(ses, bodies, w, off, num), NEW r \in 0 .. Len(bodies),
           NEW a \in Seq(Bytes), IsPiece(a, w, off[r]),
           r + 1 \in 1 .. Len(bodies), H + Len(bodies[r + 1]) <= Len(a)
    PROVE  Body(a, Len(bodies[r + 1])) = bodies[r + 1]
<1> DEFINE i == r + 1
           size == Len(bodies[i])
           b == Body(a, size)
<1>1. bodies \in Seq(Seq(Bytes)) /\ bodies[i] \in Seq(Bytes) /\ size \in Nat
      /\ H \in Nat \ {0} /\ Len(a) \in Nat
  BY ElementOfSeq, LenProperties, SizesAssumption DEF Written
<1>2. b \in Seq(Bytes) /\ Len(b) = size /\ \A j \in 1 .. size : b[j] = a[H + j]
  BY <1>1, BodyBytes
<1>3. Len(a) >= 1
  BY <1>1
<1>4. \A j \in 1 .. Len(a) : j <= H + size => a[j] = Byte(ses, num[i], j, size)
  BY <1>3, PieceHead
<1>5. \A j \in 1 .. size : bodies[i][j] = Byte(ses, num[i], H + j, size)
  BY DEF Written
<1> HIDE DEF b, i
<1>6. \A j \in 1 .. size : b[j] = bodies[i][j]
  <2> TAKE j \in 1 .. size
  <2>1. H + j \in 1 .. Len(a) /\ H + j <= H + size
    BY <1>1 DEF i
  <2>2. a[H + j] = Byte(ses, num[i], H + j, size)
    BY <1>4, <2>1
  <2> QED BY <1>2, <1>5, <2>2
<1>7. b = bodies[i]
  BY <1>1, <1>2, <1>6, SeqEqual
<1> QED BY <1>7 DEF b, i

\* f is the frame of number n with this body.
IsFrame(ses, n, f, body) ==
    /\ f \in Seq(Bytes) /\ body \in Seq(Bytes) /\ Len(f) = H + Len(body)
    /\ \A j \in 1 .. H + Len(body) : f[j] = Byte(ses, n, j, Len(body))
    /\ \A j \in 1 .. Len(body) : body[j] = Byte(ses, n, H + j, Len(body))
\* new numbers the first count frames as num does, and the next one n.
Numbers(new, num, count, n) ==
    (\A i \in 1 .. count : new[i] = num[i]) /\ new[count + 1] = n

\* One more frame at the end of a stream.
LEMMA WrittenMore ==
    ASSUME NEW ses, NEW bodies, NEW w, NEW off, NEW num,
           Written(ses, bodies, w, off, num), NEW taken \in 0 .. Len(bodies),
           NEW n \in Nat, NEW f, NEW b, IsFrame(ses, n, f, b)
    PROVE  \E off2, num2 :
              /\ Written(ses, Append(bodies, b), Join(w, f), off2, num2)
              /\ off2[taken] = off[taken] /\ Numbers(num2, num, Len(bodies), n)
<1> DEFINE N == Len(bodies)
           size == Len(b)
           more == Append(bodies, b)
           v == Join(w, f)
           off2 == [i \in 0 .. N + 1 |->
                       IF i = N + 1 THEN Len(w) + (H + size) ELSE off[i]]
           num2 == [i \in 1 .. N + 1 |-> IF i = N + 1 THEN n ELSE num[i]]
<1>1. /\ bodies \in Seq(Seq(Bytes)) /\ w \in Seq(Bytes)
      /\ off \in [0 .. N -> Nat] /\ off[0] = 0 /\ off[N] = Len(w)
      /\ num \in [1 .. N -> Nat]
  BY DEF Written
<1> HIDE DEF off2, num2, more
<1>f. /\ f \in Seq(Bytes) /\ b \in Seq(Bytes) /\ Len(f) = H + size
      /\ \A j \in 1 .. H + size : f[j] = Byte(ses, n, j, size)
      /\ \A j \in 1 .. size : b[j] = Byte(ses, n, H + j, size)
  BY DEF IsFrame
<1>s. size \in Nat
  BY <1>f, LenProperties
<1> HIDE DEF size
<1>2. N \in Nat /\ Len(w) \in Nat /\ H \in Nat \ {0} /\ Len(f) \in Nat
  BY <1>1, <1>f, LenProperties, SizesAssumption
<1>3. /\ more \in Seq(Seq(Bytes)) /\ Len(more) = N + 1 /\ more[N + 1] = b
      /\ \A i \in 1 .. N : more[i] = bodies[i]
  BY <1>1, <1>f, AppendProperties DEF more
<1>4. /\ v \in Seq(Bytes) /\ Len(v) = Len(w) + Len(f)
      /\ \A i \in 1 .. Len(w) + Len(f) :
            v[i] = IF i <= Len(w) THEN w[i] ELSE f[i - Len(w)]
  <2>1. w \in Seq(Bytes) /\ f \in Seq(Bytes)
    BY <1>1, <1>f
  <2> QED BY <2>1, JoinedBytes
<1> HIDE DEF N, v
<1>5. /\ off2 \in [0 .. N + 1 -> Nat] /\ off2[0] = 0 /\ off2[N + 1] = Len(w) + (H + size)
      /\ \A i \in 0 .. N : off2[i] = off[i]
  <2>1. Len(w) + (H + size) \in Nat
    BY <1>2, <1>s
  <2>2. \A i \in 0 .. N : i \in 0 .. N + 1 /\ i # N + 1
    BY <1>2
  <2>3. \A i \in 0 .. N + 1 : i # N + 1 => i \in 0 .. N
    BY <1>2
  <2>4. N + 1 \in 0 .. N + 1 /\ 0 \in 0 .. N
    BY <1>2
  <2>5. off2 \in [0 .. N + 1 -> Nat]
    BY <1>1, <2>1, <2>3 DEF off2
  <2> QED BY <1>1, <2>2, <2>4, <2>5 DEF off2
<1>6. /\ num2 \in [1 .. N + 1 -> Nat] /\ num2[N + 1] = n
      /\ \A i \in 1 .. N : num2[i] = num[i]
  <2>1. \A i \in 1 .. N : i \in 1 .. N + 1 /\ i # N + 1
    BY <1>2
  <2>2. \A i \in 1 .. N + 1 : i # N + 1 => i \in 1 .. N
    BY <1>2
  <2>3. N + 1 \in 1 .. N + 1
    BY <1>2
  <2>4. num2 \in [1 .. N + 1 -> Nat]
    BY <1>1, <2>2 DEF num2
  <2> QED BY <2>1, <2>3, <2>4 DEF num2
<1>7. ASSUME NEW i \in 1 .. N
      PROVE  /\ off2[i] = off2[i - 1] + (H + Len(more[i]))
             /\ \A j \in 1 .. H + Len(more[i]) :
                   v[off2[i - 1] + j] = Byte(ses, num2[i], j, Len(more[i]))
             /\ \A j \in 1 .. Len(more[i]) :
                   more[i][j] = Byte(ses, num2[i], H + j, Len(more[i]))
  <2>1. i \in 0 .. N /\ i - 1 \in 0 .. N
    BY <1>2
  <2>2. /\ more[i] = bodies[i] /\ num2[i] = num[i] /\ off2[i] = off[i]
        /\ off2[i - 1] = off[i - 1]
    BY <1>3, <1>5, <1>6, <2>1
  <2>3. /\ off[i] = off[i - 1] + (H + Len(bodies[i]))
        /\ \A j \in 1 .. H + Len(bodies[i]) :
              w[off[i - 1] + j] = Byte(ses, num[i], j, Len(bodies[i]))
        /\ \A j \in 1 .. Len(bodies[i]) :
              bodies[i][j] = Byte(ses, num[i], H + j, Len(bodies[i]))
    BY DEF Written, N
  <2>4. ASSUME NEW j \in 1 .. H + Len(bodies[i])
        PROVE  v[off[i - 1] + j] = w[off[i - 1] + j]
    <3>1. off[i] \in Nat /\ off[i - 1] \in Nat /\ off[i] <= Len(w)
      BY <1>1, <2>1 DEF Written, N
    <3>2. bodies[i] \in Seq(Bytes)
      BY <1>1, ElementOfSeq DEF N
    <3>3. Len(bodies[i]) \in Nat
      BY <3>2, LenProperties
    <3>4. off[i - 1] + j \in 1 .. Len(w)
      <4>1. off[i] = off[i - 1] + (H + Len(bodies[i]))
        BY <2>3
      <4>2. H \in Nat /\ Len(w) \in Nat
        BY <1>2, SizesAssumption
      <4>3. PICK lo \in Nat, hi \in Nat, size2 \in Nat :
                lo = off[i - 1] /\ hi = off[i] /\ size2 = Len(bodies[i])
        BY <3>1, <3>3
      <4>4. j \in 1 .. H + size2 /\ hi = lo + (H + size2) /\ hi <= Len(w)
        BY <3>1, <4>1, <4>3
      <4>5. lo + j \in 1 .. Len(w)
        BY <4>2, <4>4
      <4> QED BY <4>3, <4>5
    <3>5. off[i - 1] + j \in 1 .. Len(w) + Len(f) /\ off[i - 1] + j <= Len(w)
      BY <1>2, <3>4
    <3> QED BY <1>4, <3>5
  <2> QED BY <2>2, <2>3, <2>4
<1>8. ASSUME NEW i \in 1 .. N + 1, i = N + 1
      PROVE  /\ off2[i] = off2[i - 1] + (H + Len(more[i]))
             /\ \A j \in 1 .. H + Len(more[i]) :
                   v[off2[i - 1] + j] = Byte(ses, num2[i], j, Len(more[i]))
             /\ \A j \in 1 .. Len(more[i]) :
                   more[i][j] = Byte(ses, num2[i], H + j, Len(more[i]))
  <2>1. i - 1 = N /\ N \in 0 .. N
    BY <1>2, <1>8
  <2>2. /\ off2[i - 1] = Len(w) /\ off2[i] = Len(w) + (H + size)
        /\ Len(more[i]) = size /\ more[i] = b /\ num2[i] = n
    BY <1>1, <1>3, <1>5, <1>6, <1>8, <2>1 DEF size
  <2>3. ASSUME NEW j \in 1 .. H + size PROVE v[Len(w) + j] = f[j]
    <3>1. /\ Len(w) + j \in 1 .. Len(w) + Len(f) /\ ~(Len(w) + j <= Len(w))
          /\ (Len(w) + j) - Len(w) = j
      BY <1>2, <1>f, <1>s
    <3>2. v[Len(w) + j] = f[(Len(w) + j) - Len(w)]
      BY <1>4, <3>1
    <3> QED BY <3>1, <3>2, Zenon
  <2> QED BY <1>f, <2>2, <2>3
<1>9. \A i \in 0 .. N + 1 : off2[i] <= Len(v)
  <2> TAKE i \in 0 .. N + 1
  <2>1. CASE i = N + 1
    BY <1>2, <1>4, <1>5, <1>f, <2>1
  <2>2. CASE i # N + 1
    <3>1. i \in 0 .. N
      BY <1>2, <2>2
    <3>2. off2[i] = off[i] /\ off[i] \in Nat /\ off[i] <= Len(w)
      BY <1>1, <1>5, <3>1 DEF Written, N
    <3> QED BY <1>2, <1>4, <3>2
  <2> QED BY <2>1, <2>2
<1>10. \A i \in 1 .. N + 1 : i \in 1 .. N \/ i = N + 1
  BY <1>2
<1>11. off2[N + 1] = Len(v)
  BY <1>4, <1>5, <1>f
<1>12. Written(ses, more, v, off2, num2)
  <2>1. ASSUME NEW i \in 1 .. N + 1
        PROVE  /\ off2[i] = off2[i - 1] + (H + Len(more[i]))
               /\ \A j \in 1 .. H + Len(more[i]) :
                     v[off2[i - 1] + j] = Byte(ses, num2[i], j, Len(more[i]))
               /\ \A j \in 1 .. Len(more[i]) :
                     more[i][j] = Byte(ses, num2[i], H + j, Len(more[i]))
    <3>1. CASE i \in 1 .. N
      BY <1>7, <3>1
    <3>2. CASE i = N + 1
      BY <1>8, <3>2, Zenon
    <3> QED BY <1>10, <3>1, <3>2
  <2>2. Len(more) = N + 1 /\ more \in Seq(Seq(Bytes)) /\ v \in Seq(Bytes)
    BY <1>3, <1>4
  <2> QED BY <1>5, <1>6, <1>9, <1>11, <2>1, <2>2, Zenon DEF Written
<1> QED BY <1>5, <1>6, <1>12 DEF N, more, v, Numbers

\* b is what is left of the frames with these bodies when as many as taken have been
\* taken; all that is left of them, if nothing was lost.
Carried(ses, bodies, num, taken, b, whole) ==
    \E w, off :
        /\ Written(ses, bodies, w, off, num)
        /\ IsPiece(b, w, off[taken])
        /\ whole => off[taken] + Len(b) = Len(w)

\* A new pipe carries nothing.
LEMMA CarriedNothing ==
    ASSUME NEW ses \in Nat
    PROVE  \E num : Carried(ses, <<>>, num, 0, Join(<<>>, <<>>), TRUE)
BY NothingWritten DEF Carried

\* What is written onto a pipe that lost nothing is carried as well.
LEMMA CarriedMore ==
    ASSUME NEW ses, NEW bodies, NEW num, NEW taken \in 0 .. Len(bodies),
           NEW a \in Seq(Bytes), NEW c \in Seq(Bytes),
           Carried(ses, bodies, num, taken, Join(a, c), TRUE),
           NEW n \in Nat, NEW f, NEW body, IsFrame(ses, n, f, body)
    PROVE  \E new :
              /\ Carried(ses, Append(bodies, body), new, taken, Join(a, Join(c, f)), TRUE)
              /\ Numbers(new, num, Len(bodies), n)
<1> DEFINE d == Join(a, c)
<1>f. f \in Seq(Bytes)
  BY DEF IsFrame
<1>1. d \in Seq(Bytes) /\ Join(d, f) = Join(a, Join(c, f))
  BY <1>f, JoinedBytes, JoinedInAnyOrder
<1>2. PICK w, off : /\ Written(ses, bodies, w, off, num) /\ IsPiece(d, w, off[taken])
                    /\ off[taken] + Len(d) = Len(w)
  BY DEF Carried
<1> HIDE DEF d
<1>3. w \in Seq(Bytes) /\ off[taken] \in Nat
  BY <1>2 DEF Written
<1>w. Written(ses, bodies, w, off, num)
  BY <1>2
<1>4. PICK off2, new :
          /\ Written(ses, Append(bodies, body), Join(w, f), off2, new)
          /\ off2[taken] = off[taken] /\ Numbers(new, num, Len(bodies), n)
  BY <1>w, WrittenMore
<1>5. IsPiece(Join(d, f), Join(w, f), off[taken])
      /\ off[taken] + Len(Join(d, f)) = Len(Join(w, f))
  <2>1. d \in Seq(Bytes) /\ IsPiece(d, w, off[taken]) /\ off[taken] + Len(d) = Len(w)
    BY <1>1, <1>2
  <2>2. PICK start \in Nat : start = off[taken]
    BY <1>3
  <2>3. IsPiece(d, w, start) /\ start + Len(d) = Len(w)
    BY <2>1, <2>2
  <2>4. /\ IsPiece(Join(d, f), Join(w, f), start)
        /\ start + Len(Join(d, f)) = Len(Join(w, f))
    BY <1>3, <1>f, <2>1, <2>3, PieceOfMore
  <2> QED BY <2>2, <2>4
<1>7. Carried(ses, Append(bodies, body), new, taken, Join(d, f), TRUE)
  BY <1>4, <1>5, Zenon DEF Carried
<1> QED BY <1>1, <1>4, <1>7, Zenon

\* What is lost at the end leaves a piece.
LEMMA CarriedCut ==
    ASSUME NEW ses, NEW bodies, NEW num, NEW taken \in 0 .. Len(bodies),
           NEW a \in Seq(Bytes), NEW c \in Seq(Bytes), NEW k \in 0 .. Len(c), NEW whole,
           Carried(ses, bodies, num, taken, Join(a, c), whole)
    PROVE  Carried(ses, bodies, num, taken, Join(a, Kept(c, k)), FALSE)
<1> DEFINE f == Kept(c, k)
           d == Dropped(c, k)
           e == Join(a, f)
<1>1. f \in Seq(Bytes) /\ d \in Seq(Bytes)
  BY FirstBytes, DroppedBytes
<1>2. Join(e, d) = Join(a, c)
  BY CutInTwo
<1> HIDE DEF f, d
<1>3. e \in Seq(Bytes)
  BY <1>1, JoinedBytes
<1>4. PICK w, off : /\ Written(ses, bodies, w, off, num)
                    /\ IsPiece(Join(a, c), w, off[taken])
  BY DEF Carried
<1>5. w \in Seq(Bytes) /\ off[taken] \in Nat
  BY <1>4 DEF Written
<1> HIDE DEF e
<1>6. IsPiece(Join(e, d), w, off[taken])
  BY <1>2, <1>4
<1>7. IsPiece(e, w, off[taken])
  BY <1>1, <1>3, <1>5, <1>6, PieceFirst
<1> QED BY <1>4, <1>7 DEF Carried, e, f

\* The first bytes that are carried are bytes of the frame that comes next; a header
\* announces it, and its body is there when it is there as a whole.
LEMMA CarriedPiece ==
    ASSUME NEW ses, NEW bodies, NEW num, NEW taken \in 0 .. Len(bodies), NEW whole,
           NEW a \in Seq(Bytes), NEW c \in Seq(Bytes), Len(a) >= 1,
           Carried(ses, bodies, num, taken, Join(a, c), whole)
    PROVE  \E w, off : Written(ses, bodies, w, off, num) /\ IsPiece(a, w, off[taken])
<1>1. PICK w, off : /\ Written(ses, bodies, w, off, num)
                    /\ IsPiece(Join(a, c), w, off[taken])
  BY DEF Carried
<1>2. w \in Seq(Bytes) /\ off[taken] \in Nat
  BY <1>1 DEF Written
<1>3. PICK start \in Nat : start = off[taken]
  BY <1>2
<1>4. IsPiece(Join(a, c), w, start)
  BY <1>1, <1>3
<1>5. IsPiece(a, w, start)
  BY <1>2, <1>4, PieceFirst
<1> QED BY <1>1, <1>3, <1>5

\* The bytes that come first are those of the next frame's header and body.
LEMMA CarriedHead ==
    ASSUME NEW ses, NEW bodies, NEW num, NEW taken \in 0 .. Len(bodies), NEW whole,
           NEW a \in Seq(Bytes), NEW c \in Seq(Bytes), Len(a) >= 1,
           Carried(ses, bodies, num, taken, Join(a, c), whole)
    PROVE  /\ taken + 1 \in 1 .. Len(bodies) /\ bodies[taken + 1] \in Seq(Bytes)
           /\ Len(bodies[taken + 1]) \in Nat /\ num[taken + 1] \in Nat
           /\ \A j \in 1 .. Len(a) : j <= H + Len(bodies[taken + 1]) =>
                 a[j] = Byte(ses, num[taken + 1], j, Len(bodies[taken + 1]))
BY CarriedPiece, PieceHead

\* A header that is there announces the next frame.
LEMMA CarriedHeader ==
    ASSUME NEW ses, NEW bodies, NEW num, NEW taken \in 0 .. Len(bodies), NEW whole,
           NEW a \in Seq(Bytes), NEW c \in Seq(Bytes), Len(a) >= H,
           Carried(ses, bodies, num, taken, Join(a, c), whole)
    PROVE  \E n, size : /\ n = num[taken + 1] /\ size = Len(bodies[taken + 1])
                        /\ Announced(a) = size /\ a[1] = Byte(ses, n, 1, size)
<1>h. Len(a) >= 1
  BY LenProperties, SizesAssumption
<1>1. /\ Len(bodies[taken + 1]) \in Nat
      /\ \A j \in 1 .. Len(a) : j <= H + Len(bodies[taken + 1]) =>
            a[j] = Byte(ses, num[taken + 1], j, Len(bodies[taken + 1]))
  BY <1>h, CarriedHead
<1>2. PICK size \in Nat : size = Len(bodies[taken + 1])
  BY <1>1
<1>3. PICK n : n = num[taken + 1]
  OBVIOUS
<1>4. Begins(a, ses, n, size)
  BY <1>1, <1>2, <1>3 DEF Begins
<1>5. Announced(a) = size /\ a[1] = Byte(ses, n, 1, size)
  BY <1>4, HeaderIsRead
<1> QED BY <1>2, <1>3, <1>5

\* A frame that is there as a whole has the body that was written.
LEMMA CarriedBody ==
    ASSUME NEW ses, NEW bodies, NEW num, NEW taken \in 0 .. Len(bodies), NEW whole,
           NEW a \in Seq(Bytes), NEW c \in Seq(Bytes), Len(a) >= 1,
           Carried(ses, bodies, num, taken, Join(a, c), whole)
    PROVE  \E size, body : /\ body = bodies[taken + 1] /\ size = Len(body)
                           /\ Len(a) >= H + size => Body(a, size) = body
<1>1. PICK w, off : Written(ses, bodies, w, off, num) /\ IsPiece(a, w, off[taken])
  BY CarriedPiece
<1>2. taken + 1 \in 1 .. Len(bodies) /\ Len(bodies[taken + 1]) \in Nat
  BY CarriedHead
<1>3. ASSUME Len(a) >= H + Len(bodies[taken + 1])
      PROVE  Body(a, Len(bodies[taken + 1])) = bodies[taken + 1]
  <2>1. H + Len(bodies[taken + 1]) <= Len(a)
    BY <1>2, <1>3, SizesAssumption, LenProperties
  <2> QED BY <1>1, <1>2, <2>1, BodyIsRead
<1> QED BY <1>3

\* Taking that frame leaves what comes after it.
LEMMA CarriedTake ==
    ASSUME NEW ses, NEW bodies, NEW num, NEW taken \in 0 .. Len(bodies), NEW whole,
           NEW a \in Seq(Bytes), NEW c \in Seq(Bytes), taken + 1 \in 1 .. Len(bodies),
           NEW k \in 0 .. Len(a), k = H + Len(bodies[taken + 1]),
           Carried(ses, bodies, num, taken, Join(a, c), whole)
    PROVE  Carried(ses, bodies, num, taken + 1, Join(Dropped(a, k), c), whole)
<1> DEFINE b == Join(a, c)
           d == Dropped(b, k)
           i == taken + 1
<1>1. PICK w, off : /\ Written(ses, bodies, w, off, num) /\ IsPiece(b, w, off[taken])
                    /\ whole => off[taken] + Len(b) = Len(w)
  BY DEF Carried
<1>2. b \in Seq(Bytes) /\ Len(b) = Len(a) + Len(c)
  BY JoinedBytes
<1>3. Join(Dropped(a, k), c) = d
  BY DroppedOfTwo
<1> HIDE DEF b, i
<1>4. w \in Seq(Bytes) /\ off[taken] \in Nat /\ off[i] = off[taken] + k
  <2>1. i - 1 = taken /\ i \in 1 .. Len(bodies)
    BY DEF i
  <2>2. off[i] = off[i - 1] + (H + Len(bodies[i]))
    BY <1>1, <2>1 DEF Written
  <2> QED BY <1>1, <2>1, <2>2 DEF Written, i
<1>5. Len(a) \in Nat /\ Len(c) \in Nat /\ Len(w) \in Nat
  BY <1>4, LenProperties
<1>6. k \in 0 .. Len(b)
  BY <1>2, <1>5
<1>7. PICK start \in Nat : start = off[taken]
  BY <1>4
<1>8. IsPiece(d, w, start + k)
  <2>1. IsPiece(b, w, start)
    BY <1>1, <1>7
  <2> QED BY <1>2, <1>4, <1>6, <2>1, PieceDropped
<1>9. d \in Seq(Bytes) /\ Len(d) = Len(b) - k
  BY <1>2, <1>6, DroppedBytes
<1> HIDE DEF d
<1>10. start + Len(b) = Len(w) => (start + k) + Len(d) = Len(w)
  <2>1. k \in Nat /\ Len(b) \in Nat
    BY <1>2, <1>5
  <2>2. (start + k) + Len(d) = start + Len(b)
    BY <1>9, <2>1
  <2> QED BY <2>2
<1>11. IsPiece(d, w, off[i]) /\ (whole => off[i] + Len(d) = Len(w))
  BY <1>1, <1>4, <1>7, <1>8, <1>10
<1>12. Carried(ses, bodies, num, i, d, whole)
  BY <1>1, <1>11, Zenon DEF Carried
<1> QED BY <1>3, <1>12 DEF i
-----------------------------------------------------------------------------
(* The invariant: what was parsed, what is on its way, and who is asked.   *)

Heads(part, all) == Len(part) <= Len(all) /\ part = SubSeq(all, 1, Len(part))
\* What a side has parsed is the beginning of what the other has written.
OrderKept == Heads(received, sent) /\ Heads(heard, asked)

\* Of a child that is listened to, the buffer and the pipe hold what it has written
\* since; run() numbers its frames from 1 and keeps them within the cap.
Numbered(num) ==
    faults = 0 => \A i \in 1 .. Len(sent) : num[i] = i /\ Len(sent[i]) \in 1 .. Cap
RepliesCarried ==
    attached =>
        \E num : /\ Carried(session, sent, num, Len(received), Join(input, stdout),
                            child = "up")
                 /\ Numbered(num)
\* A child that runs has before it what the client has written; send() numbers its
\* requests from 1, and none is empty.
Asked(num) ==
    \A i \in 1 .. Len(asked) : num[i] = i /\ Len(asked[i]) > 0
RequestsCarried ==
    child = "up" =>
        \E num : /\ Carried(session, asked, num, Len(heard), Join(partial, stdin),
                            parent = "up")
                 /\ Asked(num)
\* What a child has read of a request begins as its frame does.
HeaderKept ==
    \A i \in 1 .. Len(partial) :
        i <= H => partial[i].at = i /\ partial[i].size \in Nat \ {0}

\* As long as the child writes what run() writes, it has said hello before it reads,
\* answers each request once, and the client asks when it has been answered.
Turnwise ==
    faults = 0 =>
        /\ ~refused
        /\ Len(sent) <= Len(heard) + 1
        /\ child = "up" /\ Len(sent) # 0 => Len(sent) = Len(heard) + 1
        /\ Len(sent) = 0 => Len(heard) = 0
        /\ attached /\ ~ready => Len(received) = 0 /\ Len(asked) = 0
        /\ attached /\ ready /\ pending => Len(received) = Len(asked)
        /\ attached /\ ready /\ ~pending => Len(received) = Len(asked) + 1

Flow == /\ OrderKept /\ RepliesCarried /\ RequestsCarried /\ HeaderKept /\ Turnwise
Inv == Shape /\ Flow

\* How many there are of everything.
LEMMA Counts ==
    ASSUME Shape
    PROVE  /\ Len(sent) \in Nat /\ Len(received) \in Nat /\ Len(asked) \in Nat
           /\ Len(heard) \in Nat /\ Len(input) \in Nat /\ Len(stdout) \in Nat
           /\ Len(stdin) \in Nat /\ Len(partial) \in Nat
           /\ H \in Nat \ {0} /\ Cap \in Nat \ {0}
BY LenProperties, SizesAssumption DEF Shape, Streams, Histories

\* One more at the end of a beginning.
LEMMA HeadsMore ==
    ASSUME NEW S, NEW all \in Seq(S), NEW part \in Seq(S), Heads(part, all),
           Len(part) + 1 \in 1 .. Len(all)
    PROVE  Heads(Append(part, all[Len(part) + 1]), all)
<1> DEFINE n == Len(part)
           b == Append(part, all[n + 1])
           c == Kept(all, n + 1)
<1>1. n \in Nat /\ Len(all) \in Nat /\ all[n + 1] \in S
  BY LenProperties, ElementOfSeq
<1>2. b \in Seq(S) /\ Len(b) = n + 1 /\ b[n + 1] = all[n + 1]
      /\ \A i \in 1 .. n : b[i] = part[i]
  BY <1>1, AppendProperties
<1>3. n \in 0 .. Len(all) /\ n + 1 \in 0 .. Len(all)
  BY <1>1
<1>4. c \in Seq(S) /\ Len(c) = n + 1 /\ \A i \in 1 .. n + 1 : c[i] = all[i]
  BY <1>3, FirstBytes
<1>5. \A i \in 1 .. n : part[i] = all[i]
  <2>1. part = Kept(all, n)
    BY DEF Heads, Kept
  <2> QED BY <1>3, <2>1, FirstBytes
<1> HIDE DEF b, c, n
<1>6. \A i \in 1 .. n + 1 : b[i] = c[i]
  BY <1>1, <1>2, <1>4, <1>5
<1>7. b = c
  BY <1>2, <1>4, <1>6, SeqEqual
<1>8. Len(b) <= Len(all) /\ b = SubSeq(all, 1, Len(b))
  BY <1>2, <1>3, <1>7 DEF c, Kept
<1> QED BY <1>8 DEF Heads, b, n

\* A reply that has not arrived is the only one: the hello, or the answer to the
\* request in flight.
LEMMA OneAtATime ==
    ASSUME Shape, OrderKept, Turnwise, attached, faults = 0,
           NEW n \in Nat, Len(received) <= n, n + 1 <= Len(sent)
    PROVE  /\ n = Len(received) /\ n + 1 = Len(sent)
           /\ ready => pending /\ Len(asked) = n
           /\ ~ready => n = 0
<1>1. ready \in BOOLEAN /\ pending \in BOOLEAN
  BY DEF Shape, Flags
<1>2. Len(heard) <= Len(asked)
  BY DEF OrderKept, Heads
<1> QED BY <1>1, <1>2, Counts DEF Turnwise

\* What the handler has after any number of turns: frames that were sent, in order,
\* what is left of the rest, and of an honest child one frame at most, not refused.
Quiet(t) ==
    /\ ~t.refused
    /\ \/ Len(t.got) = Len(received) /\ t.ready = ready /\ t.pending = pending
       \/ /\ Len(t.got) = Len(received) + 1
          /\ t.ready = TRUE /\ t.pending = (~ready /\ pending)
Ours(t, num, rest) ==
    /\ t \in Handlers /\ Len(received) <= Len(t.got) /\ Heads(t.got, sent)
    /\ Carried(session, sent, num, Len(t.got), Join(t.input, rest), child = "up")
    /\ faults = 0 => Quiet(t)

\* The handler of an event is one of these, and every turn makes one of one.
LEMMA TurnKeepsOurs ==
    ASSUME Shape, OrderKept, Turnwise, attached, NEW num, Numbered(num),
           NEW rest \in Seq(Bytes), NEW t, Ours(t, num, rest)
    PROVE  Ours(Turn(t), num, rest)
<1> DEFINE n == Len(t.got)
           i == n + 1
           size == Announced(t.input)
           u == Take(t, H + size, Body(t.input, size))
<1>1. /\ t \in Handlers /\ Len(received) <= n /\ Heads(t.got, sent)
      /\ Carried(session, sent, num, n, Join(t.input, rest), child = "up")
      /\ faults = 0 => Quiet(t)
  BY DEF Ours
<1>2. /\ t.input \in Seq(Bytes) /\ t.got \in Seq(Seq(Bytes))
      /\ t.ready \in BOOLEAN /\ t.pending \in BOOLEAN /\ t.refused \in BOOLEAN
  BY <1>1 DEF Handlers
<1>3. n \in Nat /\ Len(t.input) \in Nat /\ n \in 0 .. Len(sent)
  BY <1>1, <1>2, Counts, LenProperties DEF Heads
<1>4. sent \in Seq(Seq(Bytes)) /\ session \in Nat /\ faults \in Nat
  BY DEF Shape, Histories, Flags
<1>5. ASSUME Len(t.input) >= H
      PROVE  /\ i \in 1 .. Len(sent) /\ size = Len(sent[i]) /\ size \in Nat
             /\ t.input[1] = Byte(session, num[i], 1, size)
             /\ Len(t.input) >= H + size => Body(t.input, size) = sent[i]
  <2>1. Len(t.input) >= 1
    BY <1>3, <1>5, Counts
  <2>2. PICK k \in 0 .. Len(sent) : k = n
    BY <1>3
  <2>w. PICK whole : whole = (child = "up")
    OBVIOUS
  <2>3. Carried(session, sent, num, k, Join(t.input, rest), whole)
    BY <1>1, <2>2, <2>w
  <2>l. Len(t.input) >= 1 /\ Len(t.input) >= H /\ t.input \in Seq(Bytes)
    BY <1>2, <1>5, <2>1
  <2>4. /\ k + 1 \in 1 .. Len(sent) /\ size = Len(sent[k + 1]) /\ Len(sent[k + 1]) \in Nat
        /\ t.input[1] = Byte(session, num[k + 1], 1, Len(sent[k + 1]))
    <3>1. k + 1 \in 1 .. Len(sent) /\ Len(sent[k + 1]) \in Nat
      BY <2>3, <2>l, CarriedHead
    <3>2. \E m, z : /\ m = num[k + 1] /\ z = Len(sent[k + 1])
                    /\ Announced(t.input) = z /\ t.input[1] = Byte(session, m, 1, z)
      BY <2>3, <2>l, CarriedHeader
    <3> QED BY <3>1, <3>2
  <2>5. ASSUME Len(t.input) >= H + size PROVE Body(t.input, size) = sent[i]
    <3>1. \E z, body : /\ body = sent[k + 1] /\ z = Len(body)
                       /\ Len(t.input) >= H + z => Body(t.input, z) = body
      BY <2>3, <2>l, CarriedBody
    <3> QED BY <2>2, <2>4, <2>5, <3>1
  <2> QED BY <2>2, <2>4, <2>5
<1>6. ASSUME faults = 0, Len(t.input) >= H
      PROVE  /\ size \in 1 .. Cap /\ Expected(t, t.input[1]) /\ n = Len(received)
             /\ t.ready = ready /\ t.pending = pending
             /\ ready => pending
  <2>1. i \in 1 .. Len(sent) /\ num[i] = i /\ size \in 1 .. Cap
    BY <1>5, <1>6 DEF Numbered
  <2>2. Len(received) <= n /\ n + 1 <= Len(sent)
    BY <1>1, <1>3, <2>1
  <2>3. /\ n = Len(received) /\ (ready => pending /\ Len(asked) = n)
        /\ (~ready => n = 0)
    BY <1>3, <1>6, <2>2, OneAtATime
  <2>4. t.ready = ready /\ t.pending = pending
    <3>1. Len(received) # Len(received) + 1
      BY Counts
    <3> QED BY <1>1, <1>6, <2>3, <3>1 DEF Quiet
  <2>5. t.input[1].session = session /\ t.input[1].frame = i
    BY <1>5, <1>6, <2>1 DEF Byte
  <2>6. ready => i = Len(asked) + 1
    BY <2>3
  <2>7. ~ready => i = 1
    BY <2>3
  <2>8. Expected(t, t.input[1])
    <3> HIDE DEF i
    <3> QED BY <2>3, <2>4, <2>5, <2>6, <2>7 DEF Expected
  <2> QED BY <2>1, <2>3, <2>4, <2>8
<1>7. CASE Turn(t) = t
  BY <1>7
<1>8. CASE /\ Turn(t) = Refuse(t) /\ Len(t.input) >= H
           /\ \/ size \notin 1 .. Cap
              \/ Len(t.input) >= H + size /\ ~Expected(t, t.input[1])
  <2>1. faults # 0
    BY <1>6, <1>8
  <2> DEFINE v == Refuse(t)
  <2>2. v \in Handlers /\ v.got = t.got /\ v.input = t.input
    BY <1>1 DEF Refuse, Handlers
  <2> HIDE DEF v
  <2>3. Ours(v, num, rest)
    BY <1>1, <2>1, <2>2 DEF Ours
  <2> QED BY <1>8, <2>3 DEF v
<1>9. CASE /\ Turn(t) = u /\ ~t.refused /\ size \in 1 .. Cap /\ Len(t.input) >= H + size
  <2>1. Len(t.input) >= H
    <3>1. size >= 1 /\ size \in Int
      BY <1>9, Counts
    <3> HIDE DEF size
    <3> QED BY <1>3, <1>9, <3>1, Counts
  <2>2. i \in 1 .. Len(sent) /\ size = Len(sent[i]) /\ Body(t.input, size) = sent[i]
    BY <1>5, <1>9, <2>1
  <2>3. size \in Nat /\ H + size \in 0 .. Len(t.input)
    <3>1. size \in Nat /\ Len(t.input) >= H + size
      BY <1>5, <1>9, <2>1
    <3> HIDE DEF size
    <3> QED BY <1>3, <3>1, Counts
  <2>4. PICK k \in 0 .. Len(t.input) : k = H + size
    BY <2>3
  <2>5. Turn(t) = Take(t, k, sent[i])
    BY <1>9, <2>2, <2>4
  <2>6. sent[i] \in Seq(Bytes)
    BY <1>4, <2>2, ElementOfSeq
  <2> DEFINE rs == Dropped(t.input, k)
             gt == Append(t.got, sent[i])
             v == Take(t, k, sent[i])
  <2>7. rs \in Seq(Bytes)
    BY <1>2, DroppedBytes
  <2>8. gt \in Seq(Seq(Bytes)) /\ Len(gt) = i /\ Heads(gt, sent)
    <3>1. gt \in Seq(Seq(Bytes)) /\ Len(gt) = Len(t.got) + 1
      BY <1>2, <2>6, AppendProperties
    <3>2. Heads(gt, sent)
      BY <1>1, <1>2, <1>4, <2>2, HeadsMore
    <3> QED BY <3>1, <3>2
  <2>9. /\ v \in Handlers /\ v.input = rs /\ v.got = gt /\ v.ready = TRUE
        /\ v.refused = t.refused /\ v.pending = IF t.ready THEN FALSE ELSE t.pending
    <3> HIDE DEF rs, gt
    <3>1. v = [t EXCEPT !.input = rs, !.got = gt, !.ready = TRUE,
                        !.pending = IF t.ready THEN FALSE ELSE @]
      BY DEF Take, rs, gt
    <3> HIDE DEF v
    <3> QED BY <1>1, <2>7, <2>8, <3>1 DEF Handlers
  <2>10. Carried(session, sent, num, Len(v.got), Join(v.input, rest), child = "up")
    <3>1. PICK j \in 0 .. Len(sent) : j = n
      BY <1>3
    <3>2. PICK whole : whole = (child = "up")
      OBVIOUS
    <3>3. Carried(session, sent, num, j, Join(t.input, rest), whole)
      BY <1>1, <3>1, <3>2
    <3>4. j + 1 \in 1 .. Len(sent) /\ k = H + Len(sent[j + 1])
      BY <2>2, <2>4, <3>1
    <3>5. PICK old \in Seq(Bytes) : old = t.input /\ k \in 0 .. Len(old)
      BY <1>2
    <3>6. Carried(session, sent, num, j + 1, Join(Dropped(old, k), rest), whole)
      BY <3>3, <3>4, <3>5, CarriedTake
    <3>7. Len(v.got) = j + 1 /\ v.input = Dropped(old, k)
      BY <2>8, <2>9, <3>1, <3>5
    <3> QED BY <3>2, <3>6, <3>7
  <2> HIDE DEF v
  <2>11. Len(received) <= Len(v.got)
    BY <1>1, <1>3, <2>8, <2>9, Counts
  <2>12. ASSUME faults = 0 PROVE Quiet(v)
    <3>1. n = Len(received) /\ t.ready = ready /\ t.pending = pending
      BY <1>6, <2>1, <2>12
    <3>2. ~v.refused /\ Len(v.got) = Len(received) + 1
      BY <1>9, <2>8, <2>9, <3>1
    <3>3. v.pending = (~ready /\ pending)
      BY <1>2, <2>9, <3>1
    <3> QED BY <2>9, <3>2, <3>3 DEF Quiet
  <2>13. Ours(v, num, rest)
    BY <2>8, <2>9, <2>10, <2>11, <2>12 DEF Ours
  <2> QED BY <2>5, <2>13 DEF v
<1> QED BY <1>7, <1>8, <1>9, TurnCases, <1>1

\* So does the loop.
LEMMA LoopKeepsOurs ==
    ASSUME Shape, OrderKept, Turnwise, attached, NEW num, Numbered(num),
           Carried(session, sent, num, Len(received), Join(input, stdout), child = "up"),
           NEW k \in 1 .. Len(stdout)
    PROVE  Ours(Loop(Handed(k)), num, Dropped(stdout, k))
<1> DEFINE s == Handed(k)
           rest == Dropped(stdout, k)
           first == Join(input, Kept(stdout, k))
           Good == {t \in Handlers : Ours(t, num, rest)}
<1>1. /\ input \in Seq(Bytes) /\ stdout \in Seq(Bytes) /\ k \in 0 .. Len(stdout)
      /\ ready \in BOOLEAN /\ pending \in BOOLEAN
  BY Counts DEF Shape, Streams, Flags
<1>2. rest \in Seq(Bytes) /\ s \in Handlers
  BY HandedShape
<1>3. Join(first, rest) = Join(input, stdout)
  BY <1>1, CutInTwo
<1>4. s = [input |-> first, ready |-> ready, pending |-> pending, got |-> received,
           refused |-> FALSE]
  BY DEF Handed, Join, Kept
<1> HIDE DEF s, rest, first
<1>5. Ours(s, num, rest)
  <2>1. s.input = first /\ s.got = received
    BY <1>4
  <2>2. Quiet(s)
    BY <1>1, <1>4 DEF Quiet
  <2>3. Carried(session, sent, num, Len(s.got), Join(s.input, rest), child = "up")
    BY <1>3, <2>1
  <2>4. Len(received) <= Len(s.got) /\ Heads(s.got, sent)
    BY <2>1, Counts DEF OrderKept
  <2> QED BY <1>2, <2>2, <2>3, <2>4 DEF Ours
<1>6. \A t \in Good : Turn(t) \in Good
  <2> TAKE t \in Good
  <2>1. Ours(t, num, rest)
    OBVIOUS
  <2>2. Ours(Turn(t), num, rest)
    BY <1>2, <2>1, TurnKeepsOurs
  <2> QED BY <2>2 DEF Ours
<1>7. s \in Good /\ Good \subseteq Handlers
  BY <1>2, <1>5
<1> HIDE DEF Good
<1>8. Loop(s) \in Good
  BY <1>6, <1>7, LoopEnds
<1>9. Ours(Loop(s), num, rest)
  BY <1>8 DEF Good
<1> QED BY <1>9 DEF s, rest

\* An honest child has one frame on its way at most, and the cap is enough for it.
LEMMA OneFrameFits ==
    ASSUME Shape, OrderKept, Turnwise, RepliesCarried, attached, faults = 0
    PROVE  Len(input) + Len(stdout) <= Cap + H
<1> DEFINE b == Join(input, stdout)
           r == Len(received)
<1>1. PICK num : Carried(session, sent, num, r, b, child = "up") /\ Numbered(num)
  BY DEF RepliesCarried
<1>2. b \in Seq(Bytes) /\ Len(b) = Len(input) + Len(stdout)
  BY JoinedBytes DEF Shape, Streams
<1>3. r \in 0 .. Len(sent)
  BY Counts DEF OrderKept, Heads
<1>4. PICK w, off : Written(session, sent, w, off, num) /\ IsPiece(b, w, off[r])
  BY <1>1 DEF Carried
<1>5. w \in Seq(Bytes) /\ off[r] \in Nat /\ off[Len(sent)] = Len(w)
  BY <1>3, <1>4 DEF Written
<1>6. Len(w) \in Nat /\ Len(b) \in Nat
  BY <1>2, <1>5, LenProperties
<1>7. CASE Len(b) >= 1
  <2> HIDE DEF b
  <2>1. PICK t \in 0 .. Len(sent) : t = r
    BY <1>3
  <2>2. IsPiece(b, w, off[t])
    BY <1>4, <2>1
  <2>3. /\ t + 1 \in 1 .. Len(sent) /\ Len(sent[t + 1]) \in Nat
        /\ off[t + 1] = off[t] + (H + Len(sent[t + 1]))
    BY <1>2, <1>4, <1>7, <2>2, PieceHead
  <2>4. t + 1 = Len(sent)
    <3>1. PICK n \in Nat : n = t
      BY <2>1
    <3>2. Len(received) <= n /\ n + 1 <= Len(sent)
      BY <2>1, <2>3, <3>1
    <3> QED BY <3>1, <3>2, OneAtATime
  <2>5. Len(sent[t + 1]) <= Cap
    BY <1>1, <2>3, Counts DEF Numbered
  <2>6. off[t] + Len(b) <= Len(w)
    BY <2>2 DEF IsPiece
  <2> DEFINE size == Len(sent[t + 1])
             start == off[t]
  <2>7. /\ Len(w) = start + (H + size) /\ start + Len(b) <= Len(w) /\ start \in Nat
        /\ size \in Nat /\ size <= Cap
    BY <1>5, <2>1, <2>3, <2>4, <2>5, <2>6
  <2> HIDE DEF size, start
  <2>8. Len(b) <= H + size
    <3>1. H \in Nat
      BY SizesAssumption
    <3> QED BY <1>6, <2>7, <3>1
  <2>9. Len(b) = Len(input) + Len(stdout)
    BY <1>2
  <2>10. /\ Len(input) \in Nat /\ Len(stdout) \in Nat /\ H \in Nat /\ Cap \in Nat
         /\ size \in Nat /\ size <= Cap
    BY <2>7, Counts
  <2> QED BY <2>8, <2>9, <2>10
<1>8. CASE ~(Len(b) >= 1)
  <2>1. Len(b) = 0
    BY <1>6, <1>8
  <2> HIDE DEF b
  <2> QED BY <1>2, <2>1, Counts
<1> QED BY <1>7, <1>8
-----------------------------------------------------------------------------
(* What each action does to it.                                            *)

\* The bytes of a frame are a frame.
LEMMA WireIsFrame ==
    ASSUME Shape, NEW n \in Nat, NEW size \in Nat
    PROVE  \E f, body : /\ f = Wire(n, size) /\ body = Body(f, size)
                        /\ IsFrame(session, n, f, body) /\ Len(body) = size
<1> DEFINE f == Wire(n, size)
           body == Body(f, size)
<1>1. /\ f \in Seq(Bytes) /\ Len(f) = H + size
      /\ \A i \in 1 .. H + size : f[i] = Byte(session, n, i, size)
      /\ body \in Seq(Bytes) /\ Len(body) = size
      /\ \A i \in 1 .. size : body[i] = Byte(session, n, H + i, size)
  BY WireBytes DEF Shape, Flags
<1> HIDE DEF f, body
<1>2. IsFrame(session, n, f, body)
  BY <1>1 DEF IsFrame
<1> QED BY <1>1, <1>2 DEF f, body

\* What was parsed stays the beginning of what was written when more is written.
LEMMA HeadsOfMore ==
    ASSUME NEW S, NEW all \in Seq(S), NEW part \in Seq(S), Heads(part, all), NEW e \in S
    PROVE  Heads(part, Append(all, e))
<1> DEFINE n == Len(part)
           more == Append(all, e)
<1>1. n \in Nat /\ Len(all) \in Nat /\ n <= Len(all) /\ part = Kept(all, n)
  BY LenProperties DEF Heads, Kept
<1>2. /\ more \in Seq(S) /\ Len(more) = Len(all) + 1
      /\ \A i \in 1 .. Len(all) : more[i] = all[i]
  BY AppendProperties
<1> HIDE DEF more, n
<1>3. n \in 0 .. Len(all) /\ n \in 0 .. Len(more)
  BY <1>1, <1>2
<1>4. /\ Kept(all, n) \in Seq(S) /\ Len(Kept(all, n)) = n
      /\ \A i \in 1 .. n : Kept(all, n)[i] = all[i]
  BY <1>3, FirstBytes
<1>5. /\ Kept(more, n) \in Seq(S) /\ Len(Kept(more, n)) = n
      /\ \A i \in 1 .. n : Kept(more, n)[i] = more[i]
  BY <1>2, <1>3, FirstBytes
<1>6. \A i \in 1 .. n : Kept(all, n)[i] = Kept(more, n)[i]
  <2> TAKE i \in 1 .. n
  <2>1. i \in 1 .. Len(all)
    BY <1>1
  <2> QED BY <1>2, <1>4, <1>5, <2>1
<1>7. Kept(all, n) = Kept(more, n)
  BY <1>4, <1>5, <1>6, SeqEqual
<1>8. n <= Len(more) /\ part = SubSeq(more, 1, n)
  BY <1>1, <1>2, <1>7 DEF Kept
<1> QED BY <1>8 DEF Heads, more, n

\* What send() adds: one request more, behind those not read yet.
LEMMA SendAdds ==
    ASSUME Shape, OrderKept, NEW size \in RequestSizes, Send(size)
    PROVE  /\ asked' \in Seq(Seq(Bytes)) /\ Len(asked') = Len(asked) + 1
           /\ Heads(heard, asked')
           /\ \A i \in 1 .. Len(asked) : asked'[i] = asked[i]
           /\ Len(asked'[Len(asked) + 1]) = size
           /\ \E f, body : /\ IsFrame(session, Len(asked) + 1, f, body)
                           /\ asked' = Append(asked, body) /\ stdin' = Join(stdin, f)
<1> DEFINE n == Len(asked) + 1
<1>1. n \in Nat /\ size \in Nat
  BY SizesAssumption, Counts
<1> HIDE DEF n
<1>2. PICK f, body : /\ f = Wire(n, size) /\ body = Body(f, size)
                     /\ IsFrame(session, n, f, body) /\ Len(body) = size
  BY <1>1, WireIsFrame
<1>3. asked' = Append(asked, body) /\ stdin' = Join(stdin, f)
  BY <1>2 DEF Send, Join, n
<1>4. body \in Seq(Bytes) /\ asked \in Seq(Seq(Bytes)) /\ heard \in Seq(Seq(Bytes))
  BY <1>2 DEF IsFrame, Shape, Histories
<1>5. /\ asked' \in Seq(Seq(Bytes)) /\ Len(asked') = Len(asked) + 1
      /\ \A i \in 1 .. Len(asked) : asked'[i] = asked[i]
      /\ asked'[Len(asked) + 1] = body
  BY <1>3, <1>4, AppendProperties
<1>6. Heads(heard, asked')
  BY <1>3, <1>4, HeadsOfMore DEF OrderKept
<1> QED BY <1>2, <1>3, <1>5, <1>6 DEF n

\* What send() writes is carried behind the rest, numbered as the next.
LEMMA SendIsCarried ==
    ASSUME Shape, OrderKept, RequestsCarried, child = "up", parent = "up",
           NEW size \in RequestSizes, Send(size)
    PROVE  \E num :
              /\ Carried(session, asked', num, Len(heard), Join(partial, stdin'), TRUE)
              /\ \A i \in 1 .. Len(asked') : num[i] = i /\ Len(asked'[i]) > 0
<1>1. PICK num : /\ Carried(session, asked, num, Len(heard), Join(partial, stdin), TRUE)
                 /\ Asked(num)
  BY DEF RequestsCarried
<1>2. PICK f, body : /\ IsFrame(session, Len(asked) + 1, f, body)
                     /\ asked' = Append(asked, body) /\ stdin' = Join(stdin, f)
  BY SendAdds
<1>3. partial \in Seq(Bytes) /\ stdin \in Seq(Bytes) /\ Len(heard) \in 0 .. Len(asked)
  BY Counts DEF Shape, Streams, OrderKept, Heads
<1>4. PICK n \in Nat : n = Len(asked) + 1
  BY Counts
<1>5. PICK t \in 0 .. Len(asked) : t = Len(heard)
  BY <1>3
<1>6. /\ IsFrame(session, n, f, body)
      /\ Carried(session, asked, num, t, Join(partial, stdin), TRUE)
  BY <1>1, <1>2, <1>4, <1>5
<1>7. PICK new :
          /\ Carried(session, Append(asked, body), new, t, Join(partial, Join(stdin, f)),
                     TRUE)
          /\ Numbers(new, num, Len(asked), n)
  BY <1>3, <1>6, CarriedMore
<1>8. ASSUME NEW i \in 1 .. Len(asked') PROVE new[i] = i /\ Len(asked'[i]) > 0
  <2>1. Len(asked') = Len(asked) + 1 /\ Len(asked) \in Nat
    BY SendAdds, Counts
  <2>2. CASE i \in 1 .. Len(asked)
    BY <1>1, <1>7, <2>2, SendAdds DEF Numbers, Asked
  <2>3. CASE i = Len(asked) + 1
    <3>1. Len(asked'[i]) = size
      BY <2>3, SendAdds
    <3>2. size > 0
      BY SizesAssumption
    <3> QED BY <1>4, <1>7, <2>3, <3>1, <3>2 DEF Numbers
  <2> QED BY <2>1, <2>2, <2>3
<1> QED BY <1>2, <1>5, <1>7, <1>8

\* What write_frame() adds: one frame more, behind those not delivered yet.
LEMMA WriteAdds ==
    ASSUME Shape, OrderKept, NEW n \in Nat, NEW size \in Nat, Write(n, size)
    PROVE  /\ Len(sent') = Len(sent) + 1 /\ Heads(received, sent')
           /\ \A i \in 1 .. Len(sent) : sent'[i] = sent[i]
           /\ Len(sent'[Len(sent) + 1]) = size
           /\ \E f, body : /\ IsFrame(session, n, f, body)
                           /\ sent' = Append(sent, body) /\ stdout' = Join(stdout, f)
<1>2. PICK f, body : /\ f = Wire(n, size) /\ body = Body(f, size)
                     /\ IsFrame(session, n, f, body) /\ Len(body) = size
  BY WireIsFrame
<1>3. sent' = Append(sent, body) /\ stdout' = Join(stdout, f)
  BY <1>2 DEF Write, Join
<1>4. body \in Seq(Bytes) /\ sent \in Seq(Seq(Bytes)) /\ received \in Seq(Seq(Bytes))
  BY <1>2 DEF IsFrame, Shape, Histories
<1>5. /\ Len(sent') = Len(sent) + 1
      /\ \A i \in 1 .. Len(sent) : sent'[i] = sent[i]
      /\ sent'[Len(sent) + 1] = body
  BY <1>3, <1>4, AppendProperties
<1>6. Heads(received, sent')
  BY <1>3, <1>4, HeadsOfMore DEF OrderKept
<1> QED BY <1>2, <1>3, <1>5, <1>6

\* What the child writes is carried behind the rest; of run(), the next in number.
LEMMA WriteIsCarried ==
    ASSUME Shape, OrderKept, RepliesCarried, attached, child = "up",
           NEW n \in Nat, NEW size \in Nat, Write(n, size)
    PROVE  \E num :
              /\ Carried(session, sent', num, Len(received), Join(input, stdout'), TRUE)
              /\ faults = 0 /\ n = Len(sent) + 1 /\ size \in 1 .. Cap =>
                    \A i \in 1 .. Len(sent') : num[i] = i /\ Len(sent'[i]) \in 1 .. Cap
<1>1. PICK old : /\ Carried(session, sent, old, Len(received), Join(input, stdout), TRUE)
                 /\ Numbered(old)
  BY DEF RepliesCarried
<1>2. PICK f, body : /\ IsFrame(session, n, f, body)
                     /\ sent' = Append(sent, body) /\ stdout' = Join(stdout, f)
  BY WriteAdds
<1>3. input \in Seq(Bytes) /\ stdout \in Seq(Bytes) /\ Len(received) \in 0 .. Len(sent)
  BY Counts DEF Shape, Streams, OrderKept, Heads
<1>5. PICK t \in 0 .. Len(sent) : t = Len(received)
  BY <1>3
<1>6. Carried(session, sent, old, t, Join(input, stdout), TRUE)
  BY <1>1, <1>5
<1>7. PICK num :
          /\ Carried(session, Append(sent, body), num, t, Join(input, Join(stdout, f)),
                     TRUE)
          /\ Numbers(num, old, Len(sent), n)
  BY <1>2, <1>3, <1>6, CarriedMore
<1>8. ASSUME faults = 0, n = Len(sent) + 1, size \in 1 .. Cap, NEW i \in 1 .. Len(sent')
      PROVE  num[i] = i /\ Len(sent'[i]) \in 1 .. Cap
  <2>1. Len(sent') = Len(sent) + 1 /\ Len(sent) \in Nat
    BY WriteAdds, Counts
  <2>2. CASE i \in 1 .. Len(sent)
    BY <1>1, <1>7, <1>8, <2>2, WriteAdds DEF Numbers, Numbered
  <2>3. CASE i = Len(sent) + 1
    BY <1>7, <1>8, <2>3, WriteAdds DEF Numbers
  <2> QED BY <2>1, <2>2, <2>3
<1> QED BY <1>2, <1>5, <1>7, <1>8

\* Steps that leave one direction alone, or let go of it.
LEMMA RepliesStay ==
    ASSUME RepliesCarried, UNCHANGED <<session, sent, received, input, stdout, faults>>,
           attached' => attached, child' = "up" => child = "up"
    PROVE  RepliesCarried'
<1>1. CASE attached'
  <2>1. PICK num : /\ Carried(session, sent, num, Len(received), Join(input, stdout),
                              child = "up")
                   /\ Numbered(num)
    BY <1>1 DEF RepliesCarried
  <2>2. Carried(session, sent, num, Len(received), Join(input, stdout), child' = "up")
    BY <2>1 DEF Carried
  <2>3. Numbered(num)'
    BY <2>1 DEF Numbered
  <2> QED BY <2>2, <2>3 DEF RepliesCarried
<1>2. CASE ~attached'
  BY <1>2 DEF RepliesCarried
<1> QED BY <1>1, <1>2

\* The same for the requests.
LEMMA RequestsStay ==
    ASSUME RequestsCarried, UNCHANGED <<session, asked, heard, partial, stdin>>,
           child' = "up" => child = "up", parent' = "up" => parent = "up"
    PROVE  RequestsCarried'
<1>1. CASE child' = "up"
  <2>1. PICK num : /\ Carried(session, asked, num, Len(heard), Join(partial, stdin),
                              parent = "up")
                   /\ Asked(num)
    BY <1>1 DEF RequestsCarried
  <2>2. Carried(session, asked, num, Len(heard), Join(partial, stdin), parent' = "up")
    BY <2>1 DEF Carried
  <2>3. Asked(num)'
    BY <2>1 DEF Asked
  <2> QED BY <2>2, <2>3 DEF RequestsCarried
<1>2. CASE ~(child' = "up")
  BY <1>2 DEF RequestsCarried
<1> QED BY <1>1, <1>2

\* A step of the client lets the session go: nothing is on its way any more.
LEMMA GivingUpKeeps ==
    ASSUME Shape, Flow, attached, Fail, UNCHANGED <<asked, sent, heard, faults>>,
           Heads(received', sent'),
           refused' = refused \/ faults # 0
    PROVE  Flow'
<1>1. attached' = FALSE /\ child' # "up" /\ (partial' = partial \/ partial' = <<>>)
  BY FailShape
<1>2. OrderKept' /\ RepliesCarried' /\ RequestsCarried'
  BY <1>1 DEF Flow, OrderKept, RepliesCarried, RequestsCarried
<1>3. HeaderKept'
  <2>1. Len(<<>>) = 0
    BY EmptySeq
  <2> QED BY <1>1, <2>1 DEF Flow, HeaderKept
<1>4. Turnwise'
  BY <1>1 DEF Flow, Turnwise
<1> QED BY <1>2, <1>3, <1>4 DEF Flow

\* A new child begins with nothing in its pipes and nothing asked.
LEMMA StartKeeps ==
    ASSUME Shape, Start, pending' \in BOOLEAN
    PROVE  Flow'
<1>1. /\ attached' = TRUE /\ ready' = FALSE /\ refused' = FALSE
      /\ asked' = <<>> /\ input' = <<>> /\ stdin' = <<>> /\ stdout' = <<>>
      /\ partial' = <<>> /\ heard' = <<>> /\ sent' = <<>> /\ received' = <<>>
      /\ session' \in Nat
  BY DEF Start, Shape, Flags
<1>2. Len(<<>>) = 0
  BY EmptySeq
<1>3. PICK num : Carried(session', <<>>, num, 0, Join(<<>>, <<>>), TRUE)
  BY <1>1, CarriedNothing
<1>4. \A whole : Carried(session', <<>>, num, 0, Join(<<>>, <<>>), whole)
  BY <1>3 DEF Carried
<1>5. RepliesCarried'
  <2>1. Carried(session', sent', num, Len(received'), Join(input', stdout'),
                child' = "up")
    BY <1>1, <1>2, <1>4
  <2>2. Numbered(num)'
    BY <1>1, <1>2 DEF Numbered
  <2> QED BY <2>1, <2>2 DEF RepliesCarried
<1>6. RequestsCarried'
  <2>1. Carried(session', asked', num, Len(heard'), Join(partial', stdin'),
                parent' = "up")
    BY <1>1, <1>2, <1>4
  <2>2. Asked(num)'
    BY <1>1, <1>2 DEF Asked
  <2> QED BY <2>1, <2>2 DEF RequestsCarried
<1>7. OrderKept' /\ HeaderKept'
  <2>1. Heads(<<>>, <<>>)
    BY <1>2 DEF Heads
  <2> QED BY <1>1, <1>2, <2>1 DEF OrderKept, HeaderKept
<1>8. Turnwise'
  BY <1>1, <1>2 DEF Turnwise
<1> QED BY <1>5, <1>6, <1>7, <1>8 DEF Flow

\* search() on an idle worker: one request more is asked, and it is in flight.
LEMMA SearchNextKeeps == ASSUME Shape, Flow, SearchNext PROVE Flow'
<1> USE DEF Flow
<1>1. /\ parent = "up" /\ attached /\ ready /\ ~pending /\ pending' = TRUE
      /\ UNCHANGED <<parent, child, session, attached, ready, input, received, refused,
                     stdout, partial, heard, sent, faults>>
  BY DEF SearchNext, server
<1>2. PICK size \in RequestSizes : Send(size)
  BY DEF SearchNext
<1>3. Len(asked') = Len(asked) + 1 /\ Heads(heard, asked')
  BY <1>2, SendAdds
<1>4. OrderKept' /\ HeaderKept'
  BY <1>1, <1>3 DEF OrderKept, HeaderKept
<1>5. RepliesCarried'
  BY <1>1, RepliesStay
<1>6. RequestsCarried'
  <2>1. CASE child = "up"
    <3>1. PICK num :
              /\ Carried(session, asked', num, Len(heard), Join(partial, stdin'), TRUE)
              /\ \A i \in 1 .. Len(asked') : num[i] = i /\ Len(asked'[i]) > 0
      BY <1>1, <1>2, <2>1, SendIsCarried
    <3>2. Asked(num)'
      BY <3>1 DEF Asked
    <3>3. Carried(session, asked', num, Len(heard), Join(partial, stdin'), parent' = "up")
      BY <1>1, <3>1 DEF Carried
    <3> QED BY <1>1, <3>2, <3>3 DEF RequestsCarried
  <2>2. CASE child # "up"
    BY <1>1, <2>2 DEF RequestsCarried
  <2> QED BY <2>1, <2>2
<1>7. Turnwise'
  BY <1>1, <1>3, Counts DEF Turnwise
<1> QED BY <1>4, <1>5, <1>6, <1>7

\* What a 'data' event brings is taken in order; of an honest child, all of it.
LEMMA AcceptsKeeps ==
    ASSUME Shape, Flow, NEW k \in 1 .. Len(stdout), attached, parent = "up", Accepts(k),
           UNCHANGED <<parent, session, heard, sent, faults>>
    PROVE  Flow' /\ Heads(received', sent) /\ Len(received) <= Len(received')
<1> USE DEF Flow
<1> DEFINE s == Loop(Handed(k))
           rest == Dropped(stdout, k)
<1>1. PICK num : /\ Carried(session, sent, num, Len(received), Join(input, stdout),
                            child = "up")
                 /\ Numbered(num)
  BY DEF RepliesCarried
<1>2. Ours(s, num, rest)
  BY <1>1, LoopKeepsOurs
<1>3. /\ ~s.refused /\ input' = s.input /\ ready' = s.ready /\ pending' = s.pending
      /\ received' = s.got /\ stdout' = rest
      /\ UNCHANGED <<child, attached, refused, partial>>
      /\ \/ /\ s.ready /\ ~ready /\ s.pending
            /\ \E size \in RequestSizes : Send(size)
         \/ /\ ~(s.ready /\ ~ready /\ s.pending)
            /\ UNCHANGED <<stdin, asked>>
  BY DEF Accepts
<1> HIDE DEF s, rest
<1>4. /\ Len(received) <= Len(received') /\ Heads(received', sent)
      /\ Carried(session, sent, num, Len(received'), Join(input', stdout'), child = "up")
      /\ faults = 0 => Quiet(s)
  BY <1>2, <1>3 DEF Ours
<1>5. RepliesCarried'
  <2>1. Numbered(num)'
    BY <1>1 DEF Numbered
  <2> QED BY <1>3, <1>4, <2>1 DEF RepliesCarried
<1>6. HeaderKept'
  BY <1>3 DEF HeaderKept
<1>7. CASE UNCHANGED <<stdin, asked>> /\ ~(s.ready /\ ~ready /\ s.pending)
  <2>1. OrderKept'
    BY <1>4, <1>7 DEF OrderKept
  <2>2. RequestsCarried'
    BY <1>3, <1>7, RequestsStay
  <2>3. Turnwise'
    <3>1. ready \in BOOLEAN /\ pending \in BOOLEAN
      BY DEF Shape, Flags
    <3>2. CASE faults # 0
      BY <3>2 DEF Turnwise
    <3>3. CASE faults = 0 /\ received' # received /\ Len(received') = Len(received) + 1
               /\ s.ready = TRUE /\ s.pending = (~ready /\ pending)
      <4>1. Len(received) + 1 <= Len(sent)
        BY <1>4, <3>3 DEF Heads
      <4>2. ready => pending /\ Len(asked) = Len(received)
        BY <3>3, <4>1, Counts, OneAtATime
      <4>3. ready' = TRUE /\ pending' = FALSE
        BY <1>3, <1>7, <3>1, <3>3
      <4>4. Len(asked') = Len(received)
        BY <1>7, <3>1, <3>3, <4>2 DEF Turnwise
      <4> QED BY <1>3, <3>3, <4>3, <4>4 DEF Turnwise
    <3>4. CASE faults = 0 /\ Len(received') = Len(received)
               /\ s.ready = ready /\ s.pending = pending
      BY <1>3, <1>7, <3>4 DEF Turnwise
    <3>5. faults = 0 => \/ Len(received') = Len(received)
                           /\ s.ready = ready /\ s.pending = pending
                        \/ /\ Len(received') = Len(received) + 1
                           /\ s.ready = TRUE /\ s.pending = (~ready /\ pending)
      BY <1>3, <1>4 DEF Quiet
    <3>6. Len(received') = Len(received) + 1 => received' # received
      BY Counts
    <3> QED BY <3>2, <3>3, <3>4, <3>5, <3>6
  <2> QED BY <1>4, <1>5, <1>6, <2>1, <2>2, <2>3
<1>8. CASE s.ready /\ ~ready /\ s.pending /\ \E size \in RequestSizes : Send(size)
  <2>1. PICK size \in RequestSizes : Send(size)
    BY <1>8
  <2>2. Len(asked') = Len(asked) + 1 /\ Heads(heard, asked')
    BY <2>1, SendAdds
  <2>3. OrderKept'
    BY <1>4, <2>2 DEF OrderKept
  <2>4. RequestsCarried'
    <3>1. CASE child = "up"
      <4>1. PICK new :
                /\ Carried(session, asked', new, Len(heard), Join(partial, stdin'), TRUE)
                /\ \A i \in 1 .. Len(asked') : new[i] = i /\ Len(asked'[i]) > 0
        BY <2>1, <3>1, SendIsCarried
      <4>2. Asked(new)'
        BY <4>1 DEF Asked
      <4>3. Carried(session, asked', new, Len(heard), Join(partial, stdin'),
                    parent' = "up")
        BY <4>1 DEF Carried
      <4> QED BY <1>3, <4>2, <4>3 DEF RequestsCarried
    <3>2. CASE child # "up"
      BY <1>3, <3>2 DEF RequestsCarried
    <3> QED BY <3>1, <3>2
  <2>5. Turnwise'
    <3>1. ready \in BOOLEAN /\ pending \in BOOLEAN
      BY DEF Shape, Flags
    <3> QED BY <1>3, <1>4, <1>8, <2>2, <3>1, Counts DEF Turnwise, Quiet
  <2> QED BY <1>4, <1>5, <1>6, <2>3, <2>4, <2>5
<1> QED BY <1>3, <1>7, <1>8

\* A 'data' event; that the client refuses a frame takes a child that misbehaved.
LEMMA DataKeeps ==
    ASSUME Shape, Flow, NEW k \in 1 .. Len(stdout), Data(k)
    PROVE  Flow' /\ Heads(received', sent) /\ Len(received) <= Len(received')
<1>1. /\ parent = "up" /\ attached
      /\ UNCHANGED <<parent, session, stale, heard, sent, faults>>
      /\ Overflows(k) \/ Refuses(k) \/ Accepts(k)
  BY DataCases
<1>2. CASE Overflows(k)
  <2>1. Fail /\ UNCHANGED <<received, asked>> /\ Len(input) + k > Cap + H
    BY <1>2 DEF Overflows
  <2>2. faults # 0
    <3>1. SUFFICES ASSUME faults = 0 PROVE FALSE
      OBVIOUS
    <3>2. Len(input) + Len(stdout) <= Cap + H
      BY <1>1, <3>1, OneFrameFits DEF Flow
    <3> QED BY <2>1, <3>2, Counts
  <2>3. Heads(received', sent') /\ Len(received) <= Len(received')
    BY <1>1, <2>1, Counts DEF Flow, OrderKept
  <2> QED BY <1>1, <2>1, <2>2, <2>3, GivingUpKeeps
<1>3. CASE Refuses(k)
  <2> DEFINE s == Loop(Handed(k))
  <2>1. Fail /\ received' = s.got /\ UNCHANGED asked /\ s.refused
    BY <1>3 DEF Refuses
  <2>2. PICK num : /\ Carried(session, sent, num, Len(received), Join(input, stdout),
                              child = "up")
                   /\ Numbered(num)
    BY <1>1 DEF Flow, RepliesCarried
  <2>3. Ours(s, num, Dropped(stdout, k))
    BY <1>1, <2>2, LoopKeepsOurs DEF Flow
  <2> HIDE DEF s
  <2>4. Heads(received', sent) /\ Len(received) <= Len(received') /\ faults # 0
    BY <2>1, <2>3 DEF Ours, Quiet
  <2> QED BY <1>1, <2>1, <2>4, GivingUpKeeps
<1>4. CASE Accepts(k)
  BY <1>1, <1>4, AcceptsKeeps
<1> QED BY <1>1, <1>2, <1>3, <1>4

\* A frame is written: it is carried, and the hello and each answer come in turn.
LEMMA WrittenReplies ==
    ASSUME Shape, Flow, child = "up", NEW n \in Nat, NEW size \in Nat, Write(n, size),
           UNCHANGED <<child, session, attached, received, input>>,
           faults' = 0 => faults = 0 /\ n = Len(sent) + 1 /\ size \in 1 .. Cap
    PROVE  RepliesCarried' /\ Heads(received', sent') /\ Len(sent') = Len(sent) + 1
<1>1. Heads(received, sent') /\ Len(sent') = Len(sent) + 1
  BY WriteAdds DEF Flow
<1>2. CASE attached
  <2>1. PICK num :
            /\ Carried(session, sent', num, Len(received), Join(input, stdout'), TRUE)
            /\ faults = 0 /\ n = Len(sent) + 1 /\ size \in 1 .. Cap =>
                  \A i \in 1 .. Len(sent') : num[i] = i /\ Len(sent'[i]) \in 1 .. Cap
    BY <1>2, WriteIsCarried DEF Flow
  <2>2. Numbered(num)'
    BY <2>1 DEF Numbered
  <2>3. Carried(session, sent', num, Len(received), Join(input, stdout'), child' = "up")
    BY <2>1 DEF Carried
  <2> QED BY <1>1, <2>2, <2>3 DEF RepliesCarried
<1>3. CASE ~attached
  BY <1>1, <1>3 DEF RepliesCarried
<1> QED BY <1>2, <1>3

\* The hello is the first frame.
LEMMA HelloKeeps == ASSUME Shape, Flow, Hello PROVE Flow'
<1> USE DEF Flow
<1>1. /\ child = "up" /\ sent = <<>>
      /\ UNCHANGED <<parent, child, session, attached, ready, pending, asked, input,
                     received, refused, stdin, partial, heard, faults>>
  BY DEF Hello, client
<1>2. PICK size \in HelloSizes : Write(1, size)
  BY DEF Hello
<1>3. Len(sent) = 0 /\ size \in Nat /\ size \in 1 .. Cap
  BY <1>1, EmptySeq, SizesAssumption
<1>4. RepliesCarried' /\ Heads(received', sent') /\ Len(sent') = 1
  BY <1>1, <1>2, <1>3, WrittenReplies
<1>5. RequestsCarried'
  BY <1>1, RequestsStay
<1>6. OrderKept' /\ HeaderKept'
  BY <1>1, <1>4 DEF OrderKept, HeaderKept
<1>7. Turnwise'
  BY <1>1, <1>3, <1>4, Counts DEF Turnwise
<1> QED BY <1>4, <1>5, <1>6, <1>7

\* A frame of a child that misbehaves is carried as any other.
LEMMA MisbehaveKeeps == ASSUME Shape, Flow, Misbehave PROVE Flow'
<1> USE DEF Flow
<1>1. /\ child = "up" /\ faults' # 0
      /\ UNCHANGED <<parent, child, session, attached, ready, pending, asked, input,
                     received, refused, stdin, partial, heard>>
  BY DEF Misbehave, client, Shape, Flags
<1>2. PICK n \in {0, Len(sent)}, size \in {0, 1, Cap + 1} : Write(n, size)
  BY DEF Misbehave
<1>3. n \in Nat /\ size \in Nat
  BY <1>2, Counts
<1>4. RepliesCarried' /\ Heads(received', sent')
  BY <1>1, <1>2, <1>3, WrittenReplies
<1>5. RequestsCarried'
  BY <1>1, RequestsStay
<1>6. OrderKept' /\ HeaderKept' /\ Turnwise'
  BY <1>1, <1>4 DEF OrderKept, HeaderKept, Turnwise
<1> QED BY <1>4, <1>5, <1>6

\* The child dies, or it is killed, and what it had not written is lost.
LEMMA DeathKeeps ==
    ASSUME Shape, Flow, Dies, RepliesCarried', UNCHANGED client,
           UNCHANGED <<session, heard, sent, faults>>
    PROVE  Flow'
<1> USE DEF Flow
<1>1. child' = "dead" /\ partial' = <<>> /\ Len(<<>>) = 0
      /\ UNCHANGED <<attached, ready, pending, asked, received, refused>>
  BY EmptySeq DEF Dies, client
<1>2. RequestsCarried' /\ HeaderKept' /\ OrderKept'
  BY <1>1 DEF RequestsCarried, HeaderKept, OrderKept
<1>3. Turnwise'
  BY <1>1 DEF Turnwise
<1> QED BY <1>2, <1>3

\* A child without a parent ends.
LEMMA OrphanedKeeps == ASSUME Shape, Flow, Orphaned PROVE Flow'
<1>1. ~attached /\ attached' = attached
  BY DEF Orphaned, client, Shape, Control
<1>2. RepliesCarried'
  BY <1>1 DEF RepliesCarried
<1> QED BY <1>2, DeathKeeps DEF Orphaned

\* A child killed loses the end of what it wrote.
LEMMA CrashKeeps == ASSUME Shape, Flow, Crash PROVE Flow'
<1>1. /\ Dies /\ child' # "up" /\ UNCHANGED client
      /\ UNCHANGED <<session, heard, sent, faults, attached, received, input>>
  BY DEF Crash, Dies, client
<1>2. PICK k \in 0 .. Len(stdout) : stdout' = Kept(stdout, k)
  BY DEF Crash, Kept
<1>3. CASE attached
  <2>1. PICK num : /\ Carried(session, sent, num, Len(received), Join(input, stdout),
                              child = "up")
                   /\ Numbered(num)
    BY <1>3 DEF Flow, RepliesCarried
  <2>2. input \in Seq(Bytes) /\ stdout \in Seq(Bytes) /\ Len(received) \in 0 .. Len(sent)
    BY Counts DEF Flow, Shape, Streams, OrderKept, Heads
  <2>3. PICK t \in 0 .. Len(sent) : t = Len(received)
    BY <2>2
  <2>4. PICK whole : whole = (child = "up")
    OBVIOUS
  <2>5. Carried(session, sent, num, t, Join(input, stdout), whole)
    BY <2>1, <2>3, <2>4
  <2>6. Carried(session, sent, num, t, Join(input, Kept(stdout, k)), FALSE)
    BY <2>2, <2>5, CarriedCut
  <2>7. Carried(session, sent, num, t, Join(input, stdout'), child' = "up")
    BY <1>1, <1>2, <2>6 DEF Carried
  <2>8. Numbered(num)'
    BY <1>1, <2>1 DEF Numbered
  <2>9. RepliesCarried'
    BY <1>1, <2>3, <2>7, <2>8 DEF RepliesCarried
  <2> QED BY <1>1, <2>9, DeathKeeps
<1>4. CASE ~attached
  <2>1. RepliesCarried'
    BY <1>1, <1>4 DEF RepliesCarried
  <2> QED BY <1>1, <2>1, DeathKeeps
<1> QED BY <1>3, <1>4

\* The request that the child has read as a whole is the next one that was asked, and
\* without it the rest is carried still.
LEMMA WholeIsNext ==
    ASSUME Shape, Flow, child = "up", Whole
    PROVE  \E num, t, e :
              /\ t = Len(heard) /\ t \in 0 .. Len(asked) /\ t + 1 \in 1 .. Len(asked)
              /\ partial[1].frame = t + 1
              /\ e = asked[t + 1] /\ Body(partial, partial[1].size) = e
              /\ Carried(session, asked, num, t + 1, Join(<<>>, stdin), parent = "up")
              /\ Asked(num)
<1>1. PICK num : /\ Carried(session, asked, num, Len(heard), Join(partial, stdin),
                            parent = "up")
                 /\ Asked(num)
  BY DEF Flow, RequestsCarried
<1>2. /\ partial \in Seq(Bytes) /\ stdin \in Seq(Bytes) /\ Len(heard) \in 0 .. Len(asked)
      /\ Len(asked) \in Nat
  BY Counts DEF Shape, Streams, Flow, OrderKept, Heads
<1>3. PICK t \in 0 .. Len(asked) : t = Len(heard)
  BY <1>2
<1>4. PICK whole : whole = (parent = "up")
  OBVIOUS
<1>5. Carried(session, asked, num, t, Join(partial, stdin), whole)
  BY <1>1, <1>3, <1>4
<1>6. /\ partial[1].size \in Nat /\ H + partial[1].size = Len(partial)
      /\ Len(partial) >= 1 /\ Len(partial) >= H
  BY WholeShape DEF Whole
<1>7. /\ t + 1 \in 1 .. Len(asked)
      /\ Len(asked[t + 1]) \in Nat /\ num[t + 1] \in Nat
  BY <1>2, <1>5, <1>6, CarriedHead
<1>8. PICK n, size : /\ n = num[t + 1] /\ size = Len(asked[t + 1])
                     /\ partial[1] = Byte(session, n, 1, size)
  BY <1>2, <1>5, <1>6, CarriedHeader
<1>9. partial[1].frame = t + 1 /\ partial[1].size = size
  <2>1. partial[1].frame = n /\ partial[1].size = size
    BY <1>8 DEF Byte
  <2> QED BY <1>1, <1>7, <1>8, <2>1 DEF Asked
<1>10. PICK size2, body : /\ body = asked[t + 1] /\ size2 = Len(body)
                          /\ Len(partial) >= H + size2 => Body(partial, size2) = body
  BY <1>2, <1>5, <1>6, CarriedBody
<1>11. Body(partial, partial[1].size) = body
  <2>1. size2 = partial[1].size
    BY <1>8, <1>9, <1>10
  <2>2. Len(partial) \in Nat /\ H + size2 = Len(partial)
    BY <1>6, <2>1, Counts
  <2>3. Len(partial) >= H + size2
    BY <2>2
  <2> QED BY <1>10, <2>1, <2>3
<1>12. PICK k \in 0 .. Len(partial) : k = Len(partial)
  BY Counts
<1>13. k = H + Len(asked[t + 1])
  BY <1>6, <1>8, <1>9, <1>12
<1>14. Carried(session, asked, num, t + 1, Join(Dropped(partial, k), stdin), whole)
  BY <1>2, <1>5, <1>7, <1>13, CarriedTake
<1>15. Dropped(partial, k) = <<>>
  <2>1. Dropped(partial, k) \in Seq(Bytes) /\ Len(Dropped(partial, k)) = Len(partial) - k
    BY <1>2, DroppedBytes
  <2>2. Len(Dropped(partial, k)) = 0
    BY <1>12, <2>1, Counts
  <2> QED BY <2>1, <2>2, EmptySeq
<1> QED BY <1>1, <1>3, <1>4, <1>7, <1>9, <1>10, <1>11, <1>14, <1>15

\* A request is answered: the child has heard one more, and its reply is the next.
LEMMA AnswerKeeps ==
    ASSUME Shape, Flow, Answer
    PROVE  /\ Flow' /\ Heads(heard', asked) /\ Len(heard') = Len(heard) + 1
           /\ Len(sent') = Len(sent) + 1
<1> USE DEF Flow
<1>1. /\ child = "up" /\ sent # <<>> /\ Whole /\ partial' = <<>>
      /\ heard' = Append(heard, Body(partial, partial[1].size))
      /\ UNCHANGED <<parent, child, session, attached, ready, pending, asked, input,
                     received, refused, stdin, faults>>
  BY DEF Answer, Reading, client
<1>2. PICK num, t, e :
          /\ t = Len(heard) /\ t \in 0 .. Len(asked) /\ t + 1 \in 1 .. Len(asked)
          /\ partial[1].frame = t + 1
          /\ e = asked[t + 1] /\ Body(partial, partial[1].size) = e
          /\ Carried(session, asked, num, t + 1, Join(<<>>, stdin), parent = "up")
          /\ Asked(num)
  BY <1>1, WholeIsNext
<1>3. heard' = Append(heard, e) /\ asked \in Seq(Seq(Bytes)) /\ heard \in Seq(Seq(Bytes))
  BY <1>1, <1>2 DEF Shape, Histories
<1>4. Len(heard') = Len(heard) + 1 /\ e \in Seq(Bytes)
  BY <1>2, <1>3, ElementOfSeq, AppendProperties
<1>5. Heads(heard', asked)
  BY <1>2, <1>3, HeadsMore DEF OrderKept
<1>6. PICK size \in ReplySizes : Write(t + 2, size)
  <2>1. partial[1].frame + 1 = t + 2
    BY <1>2
  <2> QED BY <2>1 DEF Answer
<1>7. size \in Nat /\ size \in 1 .. Cap /\ t + 2 \in Nat
  BY <1>2, SizesAssumption
<1>8. Len(sent) # 0
  BY <1>1, EmptySeq DEF Shape, Histories
<1>9. faults' = 0 => faults = 0 /\ t + 2 = Len(sent) + 1 /\ size \in 1 .. Cap
  BY <1>1, <1>2, <1>7, <1>8 DEF Turnwise
<1>10. RepliesCarried' /\ Heads(received', sent') /\ Len(sent') = Len(sent) + 1
  <2>1. PICK n \in Nat : n = t + 2
    BY <1>7
  <2> QED BY <1>1, <1>6, <1>7, <1>9, <2>1, WrittenReplies
<1>11. RequestsCarried'
  <2>1. Carried(session', asked', num, Len(heard'), Join(partial', stdin'),
                parent' = "up")
    BY <1>1, <1>2, <1>4
  <2>2. Asked(num)'
    BY <1>1, <1>2 DEF Asked
  <2> QED BY <2>1, <2>2 DEF RequestsCarried
<1>12. OrderKept'
  BY <1>1, <1>5, <1>10 DEF OrderKept
<1>13. HeaderKept'
  BY <1>1, EmptySeq DEF HeaderKept
<1>14. Turnwise'
  <2>1. faults = 0 =>
            /\ ~refused /\ Len(sent) = Len(heard) + 1
            /\ attached /\ ~ready => Len(received) = 0 /\ Len(asked) = 0
            /\ attached /\ ready /\ pending => Len(received) = Len(asked)
            /\ attached /\ ready /\ ~pending => Len(received) = Len(asked) + 1
    BY <1>1, <1>8 DEF Turnwise
  <2>2. Len(sent) \in Nat /\ Len(heard) \in Nat
    BY Counts
  <2>3. faults = 0 => /\ Len(sent') <= Len(heard') + 1 /\ Len(sent') = Len(heard') + 1
                      /\ ~(Len(sent') = 0)
    BY <1>4, <1>10, <2>1, <2>2
  <2> QED BY <1>1, <2>1, <2>3 DEF Turnwise
<1> QED BY <1>4, <1>5, <1>10, <1>11, <1>12, <1>13, <1>14

\* What the child has read of a request begins with its header.
LEMMA HeaderBegins ==
    ASSUME Shape, OrderKept, NEW num, Asked(num), NEW whole,
           NEW b \in Seq(Bytes), NEW c \in Seq(Bytes),
           Carried(session, asked, num, Len(heard), Join(b, c), whole)
    PROVE  \A i \in 1 .. Len(b) : i <= H => b[i].at = i /\ b[i].size \in Nat \ {0}
<1>2. Len(heard) \in 0 .. Len(asked) /\ H \in Nat /\ Len(b) \in Nat
  BY Counts, LenProperties DEF OrderKept, Heads
<1>3. PICK t \in 0 .. Len(asked) : t = Len(heard)
  BY <1>2
<1>5. Carried(session, asked, num, t, Join(b, c), whole)
  BY <1>3
<1>6. ASSUME NEW i \in 1 .. Len(b), i <= H
      PROVE  b[i].at = i /\ b[i].size \in Nat \ {0}
  <2>0. Len(b) >= 1
    BY <1>2, <1>6
  <2>1. /\ t + 1 \in 1 .. Len(asked) /\ Len(asked[t + 1]) \in Nat
        /\ \A j \in 1 .. Len(b) : j <= H + Len(asked[t + 1]) =>
              b[j] = Byte(session, num[t + 1], j, Len(asked[t + 1]))
    BY <1>5, <2>0, CarriedHead
  <2>2. b[i] = Byte(session, num[t + 1], i, Len(asked[t + 1]))
    BY <1>2, <1>6, <2>1
  <2>3. b[i].at = i /\ b[i].size = Len(asked[t + 1])
    BY <2>2 DEF Byte
  <2>4. Len(asked[t + 1]) > 0
    BY <2>1 DEF Asked
  <2> QED BY <2>1, <2>3, <2>4
<1> QED BY <1>6

\* The child reads on: bytes pass from the pipe to its hands.
LEMMA ReadKeeps ==
    ASSUME Shape, Shape', Flow, NEW k \in 1 .. Len(stdin), Read(k)
    PROVE  Flow'
<1> USE DEF Flow
<1>1. /\ child = "up" /\ partial' = Join(partial, Kept(stdin, k))
      /\ stdin' = Dropped(stdin, k)
      /\ UNCHANGED <<parent, session, attached, ready, pending, asked, input, received,
                     refused, stdout, heard, sent, faults>>
  BY DEF Read, Reading, client, Join, Kept
<1>2. partial \in Seq(Bytes) /\ stdin \in Seq(Bytes) /\ k \in 0 .. Len(stdin)
  BY Counts DEF Shape, Streams
<1>3. Join(partial', stdin') = Join(partial, stdin)
  BY <1>1, <1>2, CutInTwo
<1>4. RepliesCarried'
  BY <1>1, RepliesStay
<1>5. PICK num : /\ Carried(session, asked, num, Len(heard), Join(partial', stdin'),
                            parent' = "up")
                 /\ Asked(num)
  BY <1>1, <1>3 DEF RequestsCarried
<1>6. RequestsCarried'
  <2>1. Asked(num)'
    BY <1>1, <1>5 DEF Asked
  <2> QED BY <1>1, <1>5, <2>1 DEF RequestsCarried
<1>7. OrderKept'
  BY <1>1 DEF OrderKept
<1>8. HeaderKept'
  <2>1. partial' \in Seq(Bytes) /\ stdin' \in Seq(Bytes)
    BY DEF Shape, Streams
  <2>2. PICK b \in Seq(Bytes), c \in Seq(Bytes) : b = partial' /\ c = stdin'
    BY <2>1
  <2>3. PICK whole : whole = (parent' = "up")
    OBVIOUS
  <2>4. Carried(session, asked, num, Len(heard), Join(b, c), whole)
    BY <1>5, <2>2, <2>3
  <2>5. \A i \in 1 .. Len(b) : i <= H => b[i].at = i /\ b[i].size \in Nat \ {0}
    BY <1>5, <2>4, HeaderBegins
  <2> QED BY <2>2, <2>5 DEF HeaderKept
<1>9. Turnwise'
  BY <1>1 DEF Turnwise
<1> QED BY <1>4, <1>6, <1>7, <1>8, <1>9

\* The client is gone: the child is heard by nobody, and reads what had left it.
LEMMA ParentDiesKeeps == ASSUME Shape, Flow, ParentDies PROVE Flow'
<1> USE DEF Flow
<1>1. /\ attached' = FALSE /\ parent' = "gone"
      /\ UNCHANGED <<child, session, asked, received, refused, partial, heard, sent,
                     faults>>
  BY DEF ParentDies, server
<1>2. PICK k \in 0 .. Len(stdin) : stdin' = Kept(stdin, k)
  BY DEF ParentDies, Kept
<1>3. RequestsCarried'
  <2>1. CASE child = "up"
    <3>1. PICK num : /\ Carried(session, asked, num, Len(heard), Join(partial, stdin),
                                parent = "up")
                     /\ Asked(num)
      BY <2>1 DEF RequestsCarried
    <3>2. partial \in Seq(Bytes) /\ stdin \in Seq(Bytes) /\ Len(heard) \in 0 .. Len(asked)
      BY Counts DEF Shape, Streams, OrderKept, Heads
    <3>3. PICK t \in 0 .. Len(asked) : t = Len(heard)
      BY <3>2
    <3>4. PICK whole : whole = (parent = "up")
      OBVIOUS
    <3>5. Carried(session, asked, num, t, Join(partial, stdin), whole)
      BY <3>1, <3>3, <3>4
    <3>6. Carried(session, asked, num, t, Join(partial, Kept(stdin, k)), FALSE)
      BY <3>2, <3>5, CarriedCut
    <3>7. Carried(session, asked, num, Len(heard), Join(partial', stdin'), parent' = "up")
      BY <1>1, <1>2, <3>3, <3>6 DEF Carried
    <3>8. Asked(num)'
      BY <1>1, <3>1 DEF Asked
    <3> QED BY <1>1, <3>7, <3>8 DEF RequestsCarried
  <2>2. CASE child # "up"
    BY <1>1, <2>2 DEF RequestsCarried
  <2> QED BY <2>1, <2>2
<1>4. RepliesCarried' /\ OrderKept' /\ HeaderKept' /\ Turnwise'
  BY <1>1 DEF RepliesCarried, OrderKept, HeaderKept, Turnwise
<1> QED BY <1>3, <1>4

\* The end of a child is seen, and the pipes are let go of.
LEMMA EndKeeps ==
    ASSUME Shape, Flow, Reap \/ Close
    PROVE  Flow'
<1> USE DEF Flow
<1>1. /\ child' # "up"
      /\ UNCHANGED <<parent, session, asked, received, refused, partial, stdin, heard,
                     sent, faults>>
      /\ \/ attached' = FALSE
         \/ UNCHANGED <<attached, ready, pending, input, stdout>>
  BY DEF Reap, Close, client, server
<1>2. RepliesCarried'
  <2>1. CASE attached' = FALSE
    BY <2>1 DEF RepliesCarried
  <2>2. CASE UNCHANGED <<attached, ready, pending, input, stdout>>
    BY <1>1, <2>2, RepliesStay
  <2> QED BY <1>1, <2>1, <2>2
<1>3. RequestsCarried'
  BY <1>1 DEF RequestsCarried
<1>4. OrderKept' /\ HeaderKept' /\ Turnwise'
  BY <1>1 DEF OrderKept, HeaderKept, Turnwise
<1> QED BY <1>2, <1>3, <1>4

\* Steps that change nothing the invariant speaks of.
LEMMA NothingKeeps ==
    ASSUME Flow,
           UNCHANGED <<parent, child, session, client, stdin, stdout, server>>
    PROVE  Flow'
BY RepliesStay, RequestsStay
   DEF Flow, OrderKept, HeaderKept, Turnwise, client, server

\* A step of the client and one of the child, all together.
LEMMA FlowKept == ASSUME Shape, Shape', Flow, [Next]_vars PROVE Flow'
<1>1. CASE Open \/ SearchFirst
  <2>1. Start /\ pending' \in BOOLEAN
    BY <1>1 DEF Open, SearchFirst, Shape, Flags
  <2> QED BY <2>1, StartKeeps
<1>2. CASE SearchNext
  BY <1>2, SearchNextKeeps
<1>3. CASE GiveUp
  <2>1. Fail /\ attached /\ UNCHANGED <<asked, sent, received, heard, faults, refused>>
    BY <1>3 DEF GiveUp
  <2>2. Heads(received', sent')
    BY <2>1 DEF Flow, OrderKept
  <2>3. refused' = refused \/ faults # 0
    BY <2>1
  <2>4. UNCHANGED <<asked, sent, heard, faults>>
    BY <2>1
  <2> QED BY <2>1, <2>2, <2>3, <2>4, GivingUpKeeps
<1>4. ASSUME NEW k \in 1 .. Len(stdout), Data(k) PROVE Flow'
  BY <1>4, DataKeeps
<1>5. CASE StaleData \/ UNCHANGED vars
  BY <1>5, NothingKeeps DEF StaleData, vars, client, server
<1>6. CASE Reap \/ Close
  BY <1>6, EndKeeps
<1>7. CASE Hello \/ Answer \/ Orphaned
  BY <1>7, HelloKeeps, AnswerKeeps, OrphanedKeeps
<1>8. ASSUME NEW k \in 1 .. Len(stdin), Read(k) PROVE Flow'
  BY <1>8, ReadKeeps
<1>9. CASE Crash \/ Misbehave \/ ParentDies
  BY <1>9, CrashKeeps, MisbehaveKeeps, ParentDiesKeeps
<1> QED BY <1>1, <1>2, <1>3, <1>4, <1>5, <1>6, <1>7, <1>8, <1>9 DEF Next, Client, Child

\* Before the first child there is nothing to keep.
LEMMA FlowInit == ASSUME Init PROVE Flow
<1>1. Len(<<>>) = 0
  BY EmptySeq
<1>2. Heads(<<>>, <<>>)
  BY <1>1 DEF Heads
<1> QED BY <1>1, <1>2 DEF Init, Flow, OrderKept, RepliesCarried, RequestsCarried,
                          HeaderKept, Turnwise

\* In every state what either side has parsed is the beginning of what the other has
\* written, and what is buffered and piped is the rest of it.
THEOREM InvHolds == Spec => []Inv
<1>1. Init => Inv
  BY ShapeInit, FlowInit DEF Inv
<1>2. Inv /\ [Next]_vars => Inv'
  BY ShapeKept, FlowKept DEF Inv
<1> QED BY <1>1, <1>2, PTL DEF Spec

\* The client gives a child up with WORKER_PROTOCOL only if that child wrote a frame that
\* run() does not write, and the child ends over a header only if the request is beyond
\* the cap: neither side loses its place in the stream.
THEOREM RefusalsEarned == Spec => []RefusalsAreEarned
<1>1. ASSUME Inv PROVE RefusalsAreEarned
  <2> USE DEF Inv
  <2>1. refused => faults > 0
    BY <1>1 DEF Flow, Turnwise, Shape, Flags
  <2>2. ASSUME TooLong(partial)
        PROVE  partial[1].at = 1 /\ partial[1].size > Cap
    <3>1. Len(partial) = H /\ Announced(partial) \notin 1 .. Cap /\ H \in Nat \ {0}
          /\ Cap \in Nat
      BY <2>2, SizesAssumption DEF TooLong
    <3>2. \A i \in 1 .. H : partial[i].at = i /\ partial[i].size \in Nat \ {0}
      BY <1>1, <3>1 DEF Flow, HeaderKept
    <3>3. Announced(partial) = partial[1].size
      BY <3>2 DEF Announced
    <3>4. 1 \in 1 .. H
      BY <3>1
    <3> QED BY <3>1, <3>2, <3>3, <3>4
  <2> QED BY <2>1, <2>2 DEF RefusalsAreEarned
<1> QED BY <1>1, InvHolds, PTL
-----------------------------------------------------------------------------
(* The two directions as queues of frames.                                 *)

\* One more at the end is a Send of FrameQueue.
LEMMA OneMore ==
    ASSUME NEW S, NEW all \in Seq(S), NEW e \in S
    PROVE  \E more : /\ more = Append(all, e) /\ more # <<>>
                     /\ Kept(more, Len(more) - 1) = all /\ more[Len(more)] = e
<1> DEFINE more == Append(all, e)
           n == Len(all)
           c == Kept(more, n)
<1>1. /\ more \in Seq(S) /\ Len(more) = n + 1 /\ more[n + 1] = e /\ n \in Nat
      /\ \A i \in 1 .. n : more[i] = all[i]
  BY AppendProperties, LenProperties
<1> HIDE DEF more
<1>2. n \in 0 .. Len(more)
  BY <1>1
<1>3. c \in Seq(S) /\ Len(c) = n /\ \A i \in 1 .. n : c[i] = more[i]
  BY <1>1, <1>2, FirstBytes
<1> HIDE DEF c
<1>4. c = all
  BY <1>1, <1>3, SeqEqual
<1>5. Len(more) - 1 = n /\ more # <<>>
  BY <1>1, EmptySeq
<1> HIDE DEF n
<1>6. Kept(more, Len(more) - 1) = all /\ more[Len(more)] = e
  BY <1>1, <1>4, <1>5 DEF c
<1> QED BY <1>5, <1>6 DEF more

\* A longer beginning of the same frames is a Receive of FrameQueue, or the same one.
LEMMA LongerHead ==
    ASSUME NEW all, NEW part, NEW more, Heads(part, all), Heads(more, all),
           Len(part) \in Nat, Len(more) \in Nat, Len(all) \in Nat, Len(part) <= Len(more)
    PROVE  more = part \/ \E n \in Len(part) + 1 .. Len(all) : more = SubSeq(all, 1, n)
<1>1. CASE Len(part) = Len(more)
  BY <1>1 DEF Heads
<1>2. CASE Len(part) # Len(more)
  <2>1. PICK m \in Nat : m = Len(more)
    OBVIOUS
  <2>2. m <= Len(all) /\ more = SubSeq(all, 1, m)
    BY <2>1 DEF Heads
  <2>3. m \in Len(part) + 1 .. Len(all)
    BY <1>2, <2>1, <2>2
  <2> QED BY <2>2, <2>3
<1> QED BY <1>1, <1>2

\* What write_frame() writes is sent; a 'data' event receives what it accepts.
LEMMA WriteSends ==
    ASSUME Shape, OrderKept, NEW n \in Nat, NEW size \in Nat, Write(n, size),
           received' = received
    PROVE  Replies!Send
<1>1. PICK f, body : IsFrame(session, n, f, body) /\ sent' = Append(sent, body)
  BY WriteAdds
<1>2. body \in Seq(Bytes) /\ sent \in Seq(Seq(Bytes))
  BY <1>1 DEF IsFrame, Shape, Histories
<1>3. /\ sent' # <<>> /\ Kept(sent', Len(sent') - 1) = sent
      /\ sent'[Len(sent')] = body
  <2>1. PICK more : /\ more = Append(sent, body) /\ more # <<>>
                    /\ Kept(more, Len(more) - 1) = sent /\ more[Len(more)] = body
    BY <1>2, OneMore
  <2> QED BY <1>1, <2>1
<1> QED BY <1>2, <1>3 DEF Replies!Send, Replies!Front, Replies!Last, Kept

\* What send() writes is sent as a request.
LEMMA SendAsks ==
    ASSUME Shape, OrderKept, NEW size \in RequestSizes, Send(size), heard' = heard
    PROVE  Requests!Send
<1>1. PICK f, body : /\ IsFrame(session, Len(asked) + 1, f, body)
                     /\ asked' = Append(asked, body)
  BY SendAdds
<1>2. body \in Seq(Bytes) /\ asked \in Seq(Seq(Bytes))
  BY <1>1 DEF IsFrame, Shape, Histories
<1>3. /\ asked' # <<>> /\ Kept(asked', Len(asked') - 1) = asked
      /\ asked'[Len(asked')] = body
  <2>1. PICK more : /\ more = Append(asked, body) /\ more # <<>>
                    /\ Kept(more, Len(more) - 1) = asked /\ more[Len(more)] = body
    BY <1>2, OneMore
  <2> QED BY <1>1, <2>1
<1> QED BY <1>2, <1>3 DEF Requests!Send, Requests!Front, Requests!Last, Kept

\* What both directions are before the first session, and at the start of each.
LEMMA BeginsEmpty == Init => Replies!Init /\ Requests!Init
BY DEF Init, Replies!Init, Requests!Init

\* A new session begins with both queues empty.
LEMMA StartEmpties == Start => Replies!Restart /\ Requests!Restart
BY DEF Start, Replies!Restart, Requests!Restart

\* A 'data' event receives the replies it takes, and may send the request that waited.
LEMMA DataReceives ==
    ASSUME Shape, Shape', Flow, NEW k \in 1 .. Len(stdout), Data(k)
    PROVE  /\ Replies!Receive \/ UNCHANGED <<sent, received>>
           /\ Requests!Send \/ UNCHANGED <<asked, heard>>
<1>1. /\ UNCHANGED <<heard, sent>>
      /\ Overflows(k) \/ Refuses(k) \/ Accepts(k)
  BY DataCases
<1>2. Heads(received, sent) /\ Heads(received', sent) /\ Len(received) <= Len(received')
  BY DataKeeps DEF Flow, OrderKept
<1>3. Len(sent) \in Nat /\ Len(received) \in Nat /\ Len(received') \in Nat
  BY Counts, LenProperties DEF Shape, Histories
<1>4. PICK more : more = received'
  OBVIOUS
<1>5. \/ more = received
      \/ \E n \in Len(received) + 1 .. Len(sent) : more = SubSeq(sent, 1, n)
  BY <1>2, <1>3, <1>4, LongerHead
<1>6. Replies!Receive \/ UNCHANGED <<sent, received>>
  BY <1>1, <1>4, <1>5 DEF Replies!Receive
<1>7. Requests!Send \/ UNCHANGED <<asked, heard>>
  <2>1. UNCHANGED asked \/ \E size \in RequestSizes : Send(size)
    BY <1>1 DEF Overflows, Refuses, Accepts
  <2> QED BY <1>1, <2>1, SendAsks DEF Flow
<1> QED BY <1>6, <1>7

\* A request that the child parses is received, and its answer is sent.
LEMMA AnswerReceives ==
    ASSUME Shape, Flow, Answer
    PROVE  Replies!Send /\ Requests!Receive
<1>1. PICK size \in ReplySizes : Write(partial[1].frame + 1, size)
  BY DEF Answer
<1>2. Whole /\ UNCHANGED <<received, asked>>
  BY DEF Answer, client
<1>3. PICK n \in Nat : n = partial[1].frame + 1
  BY <1>2, WholeShape
<1>4. size \in Nat
  BY SizesAssumption
<1>5. Replies!Send
  BY <1>1, <1>2, <1>3, <1>4, WriteSends DEF Flow
<1>6. Heads(heard, asked) /\ Heads(heard', asked) /\ Len(heard') = Len(heard) + 1
  BY AnswerKeeps DEF Flow, OrderKept
<1>7. Len(asked) \in Nat /\ Len(heard) \in Nat
  BY Counts
<1>8. PICK more : more = heard'
  OBVIOUS
<1>9. more = heard \/ \E m \in Len(heard) + 1 .. Len(asked) : more = SubSeq(asked, 1, m)
  BY <1>6, <1>7, <1>8, LongerHead
<1>10. heard' # heard
  BY <1>6, <1>7
<1>11. Requests!Receive
  BY <1>2, <1>8, <1>9, <1>10 DEF Requests!Receive
<1> QED BY <1>5, <1>11

\* Every step is a step of both queues, or leaves one of them alone.
LEMMA StepsMap ==
    ASSUME Shape, Shape', Flow, [Next]_vars
    PROVE  /\ Replies!Next \/ UNCHANGED <<sent, received>>
           /\ Requests!Next \/ UNCHANGED <<asked, heard>>
<1> USE DEF Replies!Next, Requests!Next
<1>1. CASE Open \/ SearchFirst
  BY <1>1, StartEmpties DEF Open, SearchFirst
<1>2. CASE SearchNext
  <2>1. PICK size \in RequestSizes : Send(size)
    BY <1>2 DEF SearchNext
  <2>2. UNCHANGED <<sent, received, heard>>
    BY <1>2 DEF SearchNext, server
  <2> QED BY <2>1, <2>2, SendAsks DEF Flow
<1>3. ASSUME NEW k \in 1 .. Len(stdout), Data(k)
      PROVE  /\ Replies!Next \/ UNCHANGED <<sent, received>>
             /\ Requests!Next \/ UNCHANGED <<asked, heard>>
  BY <1>3, DataReceives
<1>4. CASE Hello
  <2>1. PICK size \in HelloSizes : Write(1, size)
    BY <1>4 DEF Hello
  <2>2. size \in Nat /\ 1 \in Nat /\ UNCHANGED <<received, asked, heard>>
    BY <1>4, SizesAssumption DEF Hello, client
  <2> QED BY <2>1, <2>2, WriteSends DEF Flow
<1>5. CASE Answer
  BY <1>5, AnswerReceives
<1>6. CASE Misbehave
  <2>1. PICK n \in {0, Len(sent)}, size \in {0, 1, Cap + 1} : Write(n, size)
    BY <1>6 DEF Misbehave
  <2>2. n \in Nat /\ size \in Nat /\ UNCHANGED <<received, asked, heard>>
    BY <1>6, Counts DEF Misbehave, client
  <2> QED BY <2>1, <2>2, WriteSends DEF Flow
<1>7. CASE GiveUp \/ StaleData \/ Reap \/ Close \/ Orphaned \/ Crash \/ ParentDies
           \/ (\E k \in 1 .. Len(stdin) : Read(k)) \/ UNCHANGED vars
  BY <1>7 DEF GiveUp, StaleData, Reap, Close, Orphaned, Crash, ParentDies, Read, vars,
              client, server
<1> QED BY <1>1, <1>2, <1>3, <1>4, <1>5, <1>6, <1>7 DEF Next, Client, Child

\* However the bytes are cut up and whatever dies in the middle of a frame, what each
\* side parses are the bodies the other wrote, each once and in order, and nothing of one
\* session reaches the next.
THEOREM FramesArrive == Spec => WholeAndInOrder
<1>1. Init => Replies!Init /\ Requests!Init
  BY BeginsEmpty
<1>2. Inv /\ Inv' /\ [Next]_vars => [Replies!Next]_(Replies!vars)
  BY StepsMap DEF Inv, Replies!vars
<1>3. Inv /\ Inv' /\ [Next]_vars => [Requests!Next]_(Requests!vars)
  BY StepsMap DEF Inv, Requests!vars
<1> QED BY <1>1, <1>2, <1>3, InvHolds, PTL
        DEF Spec, WholeAndInOrder, Replies!Spec, Requests!Spec
=============================================================================
