-------------------------- MODULE QueueManagerProofs --------------------------
(***************************************************************************)
(* Theorems about module QueueManager: its types, that an idle queue stays *)
(* idle, and that a queue runs one item at a time.  What the loops over    *)
(* the queues and over the list compute is proved by induction on how far  *)
(* they have come.                                                         *)
(***************************************************************************)
EXTENDS QueueManager, FiniteSetTheorems, SequenceTheorems,
        WellFoundedInduction, TLAPS

-----------------------------------------------------------------------------
(***************************************************************************)
(* Induction, with the set of the numbers that have the property in the    *)
(* place of the property.                                                  *)
(***************************************************************************)

\* A set of natural numbers that is not empty has a least one.
LEMMA LeastNumber ==
  ASSUME NEW T \in SUBSET Nat, T # {}
  PROVE  \E x \in T : \A y \in T : x <= y
<1> DEFINE R == OpToRel(<, Nat)
<1>1. IsWellFoundedOn(R, Nat)
  BY NatLessThanWellFounded
<1>2. \A x, y \in Nat : x < y => <<x, y>> \in R
  BY DEF OpToRel
<1> HIDE DEF R
<1>3. PICK x \in T : \A y \in T : ~ (<<y, x>> \in R)
  BY <1>1, WFMin
<1>4. ASSUME NEW y \in T PROVE x <= y
  <2>1. x \in Nat /\ y \in Nat /\ ~(y < x)
    BY <1>2, <1>3
  <2> QED
    BY <2>1
<1> QED
  BY <1>4

\* What holds at 0 and passes from each number up to n to the next holds up to n.
LEMMA UpTo ==
  ASSUME NEW n \in Nat, NEW T, 0 \in T, \A k \in 1..n : k - 1 \in T => k \in T
  PROVE  n \in T
<1> SUFFICES ASSUME n \notin T PROVE FALSE
  OBVIOUS
<1> DEFINE U == {k \in 0..n : k \notin T}
<1>1. U \in SUBSET Nat /\ U # {}
  OBVIOUS
<1>2. PICK x \in U : \A y \in U : x <= y
  BY <1>1, LeastNumber, Zenon
<1>3. x \in 1..n /\ x - 1 \in 0..n /\ x - 1 \notin U
  BY <1>2
<1> QED
  BY <1>3, <1>2

\* g is the run, from w, of a loop whose k-th step is F[k], up to the n-th.
Run(g, w, n, F) == g[0] = w /\ \A k \in 1..n : g[k] = F[k][g[k - 1]]

\* A loop each step of which maps W to W has a run.
LEMMA LoopRuns ==
  ASSUME NEW W, NEW w \in W, NEW n \in Nat, NEW F \in [1..n -> [W -> W]]
  PROVE  \E g \in [0..n -> W] : Run(g, w, n, F)
<1> DEFINE Runs(g, m) == Run(g, w, m, F)
           T == {m \in 0..n : \E g \in [0..m -> W] : Runs(g, m)}
<1>1. 0 \in T
  <2> DEFINE g == [k \in 0..0 |-> w]
  <2>1. g \in [0..0 -> W] /\ Runs(g, 0) /\ 0 \in 0..n
    BY DEF Run
  <2> HIDE DEF Runs, g
  <2> QED
    BY <2>1
<1>2. ASSUME NEW m \in 1..n, m - 1 \in T PROVE m \in T
  <2>1. PICK g \in [0..m-1 -> W] : Runs(g, m - 1)
    BY <1>2
  <2> DEFINE h == [k \in 0..m |-> IF k = m THEN F[m][g[m - 1]] ELSE g[k]]
  <2>2. h \in [0..m -> W]
    <3>1. g[m - 1] \in W
      OBVIOUS
    <3>2. F[m] \in [W -> W]
      OBVIOUS
    <3> QED
      BY <3>1, <3>2
  <2>3. Runs(h, m)
    <3>1. h[0] = w
      BY <2>1 DEF Run
    <3>2. ASSUME NEW k \in 1..m PROVE h[k] = F[k][h[k - 1]]
      <4>1. CASE k = m
        BY <4>1
      <4>2. CASE k # m
        <5>1. k \in 1..m-1 /\ k - 1 \in 0..m-1
          BY <4>2
        <5> QED
          BY <5>1, <2>1, <4>2 DEF Run
      <4> QED
        BY <4>1, <4>2
    <3> QED
      BY <3>1, <3>2 DEF Run
  <2>4. m \in 0..n
    OBVIOUS
  <2> HIDE DEF Runs, h
  <2> QED
    BY <2>2, <2>3, <2>4
<1>3. n \in T
  <2> HIDE DEF T
  <2> QED
    BY <1>1, <1>2, UpTo
<1> QED
  BY <1>3

\* What each step of a loop keeps in W stays in W.
LEMMA LoopStays ==
  ASSUME NEW W, NEW n \in Nat, NEW g, g[0] \in W,
         \A k \in 1..n : g[k - 1] \in W => g[k] \in W
  PROVE  \A m \in 0..n : g[m] \in W
<1> SUFFICES ASSUME NEW m \in 0..n PROVE g[m] \in W
  OBVIOUS
<1> DEFINE U == {k \in 0..n : g[k] \in W}
<1>1. 0 \in U
  OBVIOUS
<1>2. ASSUME NEW k \in 1..m, k - 1 \in U PROVE k \in U
  <2>1. k \in 1..n /\ k \in 0..n /\ g[k - 1] \in W
    BY <1>2
  <2> QED
    BY <2>1
<1>3. m \in U
  <2> HIDE DEF U
  <2> QED
    BY <1>1, <1>2, UpTo
<1> QED
  BY <1>3
-----------------------------------------------------------------------------
(***************************************************************************)
(* What Filtered (Array.filter) returns.                                   *)
(***************************************************************************)

\* The loop of Filtered: what is kept of the first k elements, for each k.
KeptBy(kept, s, T) ==
  /\ kept[0] = <<>>
  /\ \A k \in 1..Len(s) :
       kept[k] = IF s[k] \in T THEN Append(kept[k - 1], s[k]) ELSE kept[k - 1]

\* r has those of the first m elements of s that are in T, in their order.
Keeps(r, s, m, T) ==
  \E at \in [1..Len(r) -> 1..m] :
    /\ \A a, b \in 1..Len(r) : a < b => at[a] < at[b]
    /\ \A a \in 1..Len(r) : r[a] = s[at[a]] /\ r[a] \in T
    /\ \A l \in 1..m : s[l] \in T => \E a \in 1..Len(r) : at[a] = l

\* Filtered is the end of its loop.
LEMMA FilteredLoop ==
  ASSUME NEW S, NEW s \in Seq(S), NEW T
  PROVE  \E kept \in [0..Len(s) -> Seq(S)] :
           KeptBy(kept, s, T) /\ Filtered(s, T) = kept[Len(s)]
<1> DEFINE n == Len(s)
           W == Seq(S)
           e == <<>>
           Step(r, k) == IF s[k] \in T THEN Append(r, s[k]) ELSE r
           Body(g) == [k \in 0..n |-> IF k = 0 THEN e ELSE Step(g[k - 1], k)]
           kept == CHOOSE g : g = Body(g)
           F == [k \in 1..n |-> [r \in W |-> Step(r, k)]]
<1>0. n \in Nat /\ e \in W /\ \A r \in W, k \in 1..n : Step(r, k) \in W
  OBVIOUS
<1>1. Filtered(s, T) = kept[n]
  BY DEF Filtered
<1> HIDE DEF n, W, e, Step
<1>2. F \in [1..n -> [W -> W]]
  BY <1>0
<1>3. PICK g \in [0..n -> W] : Run(g, e, n, F)
  <2> HIDE DEF F
  <2> QED
    BY <1>0, <1>2, LoopRuns
<1>4. g = Body(g)
  <2>1. \A k \in 1..n : k - 1 \in 0..n /\ g[k - 1] \in W
    BY <1>0
  <2>2. g[0] = e /\ \A k \in 1..n : g[k] = Step(g[k - 1], k)
    BY <1>3, <2>1 DEF Run
  <2> QED
    BY <1>0, <2>2
<1>5. kept = Body(kept)
  BY <1>4
<1> HIDE DEF kept
<1>6. kept[0] = e /\ \A k \in 1..n : kept[k] = Step(kept[k - 1], k)
  BY <1>0, <1>5
<1>7. \A m \in 0..n : kept[m] \in W
  <2>1. kept[0] \in W /\ \A k \in 1..n : kept[k - 1] \in W => kept[k] \in W
    BY <1>0, <1>6
  <2> QED
    BY <1>0, <2>1, LoopStays
<1>8. kept \in [0..n -> W]
  BY <1>5, <1>7
<1>9. KeptBy(kept, s, T)
  BY <1>6 DEF KeptBy, n, e, Step
<1> QED
  BY <1>1, <1>8, <1>9 DEF n, W

\* What Filtered returns, in full.
LEMMA FilteredKeeps ==
  ASSUME NEW S, NEW s \in Seq(S), NEW T
  PROVE  Filtered(s, T) \in Seq(S) /\ Keeps(Filtered(s, T), s, Len(s), T)
<1>0. Len(s) \in Nat /\ \A k \in 1..Len(s) : s[k] \in S
  OBVIOUS
<1>1. PICK kept \in [0..Len(s) -> Seq(S)] :
        KeptBy(kept, s, T) /\ Filtered(s, T) = kept[Len(s)]
  BY FilteredLoop
<1> DEFINE U == {k \in 0..Len(s) : Keeps(kept[k], s, k, T)}
<1>2. 0 \in U
  <2>1. kept[0] = <<>>
    BY <1>1 DEF KeptBy
  <2>2. [k \in 1..0 |-> 1] \in [1..Len(<<>>) -> 1..0]
    OBVIOUS
  <2>3. Keeps(<<>>, s, 0, T)
    BY <2>2 DEF Keeps
  <2> QED
    BY <2>1, <2>3, <1>0
<1>3. ASSUME NEW m \in 1..Len(s), m - 1 \in U PROVE m \in U
  <2> SUFFICES Keeps(kept[m], s, m, T)
    BY <1>0
  <2>1. kept[m - 1] \in Seq(S) /\ s[m] \in S /\ m \in Nat
    BY <1>0
  <2>2. PICK at \in [1..Len(kept[m - 1]) -> 1..m-1] :
          /\ \A a, b \in 1..Len(kept[m - 1]) : a < b => at[a] < at[b]
          /\ \A a \in 1..Len(kept[m - 1]) :
               kept[m - 1][a] = s[at[a]] /\ kept[m - 1][a] \in T
          /\ \A l \in 1..m-1 : s[l] \in T => \E a \in 1..Len(kept[m - 1]) : at[a] = l
    BY <1>3 DEF Keeps
  <2> DEFINE r == kept[m - 1]
  <2> HIDE DEF r
  <2>3. CASE s[m] \in T
    <3>1. kept[m] = Append(r, s[m])
      BY <1>1, <2>3 DEF KeptBy, r
    <3> DEFINE q == Append(r, s[m])
               to == [a \in 1..Len(q) |-> IF a = Len(q) THEN m ELSE at[a]]
    <3>2. /\ Len(q) = Len(r) + 1 /\ Len(r) \in Nat
          /\ q[Len(q)] = s[m] /\ \A a \in 1..Len(r) : q[a] = r[a]
      BY <2>1 DEF r
    <3> HIDE DEF q
    <3>3. to \in [1..Len(q) -> 1..m]
      BY <2>1, <2>2, <3>2 DEF r
    <3>4. ASSUME NEW a \in 1..Len(q), NEW b \in 1..Len(q), a < b PROVE to[a] < to[b]
      <4>1. a \in 1..Len(r) /\ to[a] = at[a]
        BY <3>2, <3>4
      <4>2. at[a] \in 1..m-1
        BY <4>1, <2>2 DEF r
      <4>3. CASE b = Len(q)
        BY <4>1, <4>2, <4>3, <2>1
      <4>4. CASE b # Len(q)
        BY <4>1, <4>4, <3>2, <3>4, <2>2 DEF r
      <4> QED
        BY <4>3, <4>4
    <3>5. ASSUME NEW a \in 1..Len(q) PROVE q[a] = s[to[a]] /\ q[a] \in T
      <4>1. CASE a = Len(q)
        BY <4>1, <2>3, <3>2
      <4>2. CASE a # Len(q)
        <5>1. a \in 1..Len(r) /\ to[a] = at[a] /\ q[a] = r[a]
          BY <4>2, <3>2
        <5> QED
          BY <5>1, <2>2 DEF r
      <4> QED
        BY <4>1, <4>2
    <3>6. ASSUME NEW l \in 1..m, s[l] \in T PROVE \E a \in 1..Len(q) : to[a] = l
      <4>1. CASE l = m
        BY <4>1, <3>2
      <4>2. CASE l # m
        <5>1. PICK a \in 1..Len(r) : at[a] = l
          BY <4>2, <3>6, <2>2, <2>1 DEF r
        <5> QED
          BY <5>1, <3>2
      <4> QED
        BY <4>1, <4>2
    <3>7. Keeps(q, s, m, T)
      <4> HIDE DEF to
      <4> QED
        BY <3>3, <3>4, <3>5, <3>6 DEF Keeps
    <3> QED
      BY <3>1, <3>7 DEF q
  <2>4. CASE s[m] \notin T
    <3>1. kept[m] = r
      BY <1>1, <2>4 DEF KeptBy, r
    <3>2. at \in [1..Len(r) -> 1..m]
      BY <2>1, <2>2 DEF r
    <3>3. \A l \in 1..m : s[l] \in T => l \in 1..m-1
      BY <2>4, <2>1
    <3>4. Keeps(r, s, m, T)
      BY <3>2, <3>3, <2>2 DEF Keeps, r
    <3> QED
      BY <3>1, <3>4
  <2> QED
    BY <2>3, <2>4
<1>4. Len(s) \in U
  <2> HIDE DEF U
  <2> QED
    BY <1>0, <1>2, <1>3, UpTo
<1> QED
  BY <1>0, <1>1, <1>4

\* Each element of a list is in one of its two parts.
LEMMA FilteredLengths ==
  ASSUME NEW S, NEW s \in Seq(S), NEW T
  PROVE  Len(Filtered(s, T)) + Len(Filtered(s, S \ T)) = Len(s)
<1>0. Len(s) \in Nat /\ \A k \in 1..Len(s) : s[k] \in S
  OBVIOUS
<1>1. PICK in \in [0..Len(s) -> Seq(S)] :
        KeptBy(in, s, T) /\ Filtered(s, T) = in[Len(s)]
  BY FilteredLoop
<1>2. PICK out \in [0..Len(s) -> Seq(S)] :
        KeptBy(out, s, S \ T) /\ Filtered(s, S \ T) = out[Len(s)]
  BY FilteredLoop
<1> DEFINE U == {k \in 0..Len(s) : Len(in[k]) + Len(out[k]) = k}
<1>3. 0 \in U
  BY <1>0, <1>1, <1>2 DEF KeptBy
<1>4. ASSUME NEW m \in 1..Len(s), m - 1 \in U PROVE m \in U
  <2> SUFFICES Len(in[m]) + Len(out[m]) = m
    BY <1>0
  <2>1. /\ in[m - 1] \in Seq(S) /\ out[m - 1] \in Seq(S) /\ s[m] \in S
        /\ Len(in[m - 1]) + Len(out[m - 1]) = m - 1
    BY <1>0, <1>4
  <2>2. CASE s[m] \in T
    <3>1. in[m] = Append(in[m - 1], s[m]) /\ out[m] = out[m - 1]
      BY <1>1, <1>2, <2>2 DEF KeptBy
    <3> QED
      BY <2>1, <3>1
  <2>3. CASE s[m] \notin T
    <3>1. out[m] = Append(out[m - 1], s[m]) /\ in[m] = in[m - 1]
      BY <1>1, <1>2, <2>1, <2>3 DEF KeptBy
    <3> QED
      BY <2>1, <3>1
  <2> QED
    BY <2>2, <2>3
<1>5. Len(s) \in U
  <2> HIDE DEF U
  <2> QED
    BY <1>0, <1>3, <1>4, UpTo
<1> QED
  BY <1>1, <1>2, <1>5

\* Removing the element at one place and inserting it at the next or the one before
\* exchanges the two (the two calls of splice in reorderQueueItems).
LEMMA MoveExchanges ==
  ASSUME NEW S, NEW s \in Seq(S), NEW from \in 1..Len(s), NEW to \in 1..Len(s),
         to = from - 1 \/ to = from + 1
  PROVE  InsertAt(RemoveAt(s, from), to, s[from])
           = [s EXCEPT ![from] = s[to], ![to] = s[from]]
<1> DEFINE r == RemoveAt(s, from)
           i == InsertAt(r, to, s[from])
<1>0. Len(s) \in Nat /\ \A k \in 1..Len(s) : s[k] \in S
  OBVIOUS
<1>1. /\ r \in Seq(S) /\ Len(r) = Len(s) - 1
      /\ \A k \in 1..Len(r) : r[k] = IF k < from THEN s[k] ELSE s[k + 1]
  <2> DEFINE a == SubSeq(s, 1, from - 1)
             b == SubSeq(s, from + 1, Len(s))
  <2>1. a \in Seq(S) /\ Len(a) = from - 1 /\ \A k \in 1..from-1 : a[k] = s[k]
    OBVIOUS
  <2>2. b \in Seq(S) /\ Len(b) = Len(s) - from /\ \A k \in 1..Len(s)-from : b[k] = s[from + k]
    OBVIOUS
  <2>3. r = a \o b
    BY DEF RemoveAt
  <2> HIDE DEF a, b, r
  <2>4. r \in Seq(S) /\ Len(r) = Len(s) - 1
    BY <2>1, <2>2, <2>3
  <2>5. \A k \in 1..Len(r) : r[k] = IF k <= Len(a) THEN a[k] ELSE b[k - Len(a)]
    BY <2>1, <2>2, <2>3
  <2>6. ASSUME NEW k \in 1..Len(r), ~(k < from) PROVE r[k] = s[k + 1]
    <3>1. r[k] = b[k - (from - 1)] /\ k - (from - 1) \in 1..Len(s)-from
      BY <2>1, <2>4, <2>5, <2>6
    <3>2. b[k - (from - 1)] = s[from + (k - (from - 1))]
      BY <3>1, <2>2
    <3>3. from + (k - (from - 1)) = k + 1
      BY <2>4
    <3> QED
      BY <3>1, <3>2, <3>3
  <2> QED
    BY <2>1, <2>4, <2>5, <2>6
<1> HIDE DEF r
<1>2. /\ i \in Seq(S) /\ Len(i) = Len(s)
      /\ \A k \in 1..Len(s) :
           i[k] = IF k < to THEN r[k] ELSE IF k = to THEN s[from] ELSE r[k - 1]
  <2> DEFINE a == SubSeq(r, 1, to - 1)
             b == SubSeq(r, to, Len(r))
             x == s[from]
             y == <<x>>
             c == a \o y
  <2>1. a \in Seq(S) /\ Len(a) = to - 1 /\ \A k \in 1..to-1 : a[k] = r[k]
    BY <1>0, <1>1
  <2>2. /\ b \in Seq(S) /\ Len(b) = Len(s) - to
        /\ \A k \in 1..Len(s)-to : b[k] = r[to + k - 1]
    BY <1>0, <1>1
  <2>3. i = c \o b /\ x \in S
    BY DEF InsertAt
  <2> HIDE DEF a, b, i, x
  <2>4. c \in Seq(S) /\ Len(c) = to /\ c[to] = x /\ \A k \in 1..to-1 : c[k] = a[k]
    <3>1. y \in Seq(S) /\ Len(y) = 1 /\ y[1] = x
      BY <2>3
    <3> HIDE DEF y
    <3>2. /\ c \in Seq(S) /\ Len(c) = Len(a) + Len(y)
          /\ \A k \in 1..Len(a)+Len(y) : c[k] = IF k <= Len(a) THEN a[k] ELSE y[k - Len(a)]
      BY <2>1, <3>1, ConcatProperties, Zenon
    <3>3. /\ Len(a) + Len(y) = to
          /\ to \in 1..to /\ ~(to <= Len(a)) /\ to - Len(a) = 1
      BY <1>0, <2>1, <3>1
    <3>4. c[to] = y[1]
      BY <3>2, <3>3
    <3>5. ASSUME NEW k \in 1..to-1 PROVE c[k] = a[k]
      BY <3>2, <3>3, <2>1, <1>0
    <3> QED
      BY <3>1, <3>2, <3>3, <3>4, <3>5
  <2> HIDE DEF c
  <2>5. /\ i \in Seq(S) /\ Len(i) = Len(c) + Len(b)
        /\ \A k \in 1..Len(c)+Len(b) : i[k] = IF k <= Len(c) THEN c[k] ELSE b[k - Len(c)]
    BY <2>2, <2>3, <2>4, ConcatProperties, Zenon
  <2>6. Len(c) = to /\ Len(c) + Len(b) = Len(s)
    BY <1>0, <2>2, <2>4
  <2>7. i \in Seq(S) /\ Len(i) = Len(s)
    BY <2>5, <2>6
  <2>8. \A k \in 1..Len(s) : i[k] = IF k <= to THEN c[k] ELSE b[k - to]
    BY <2>5, <2>6
  <2>9. ASSUME NEW k \in 1..Len(s), ~(k <= to) PROVE i[k] = r[k - 1]
    <3>1. i[k] = b[k - to] /\ k - to \in 1..Len(s)-to
      BY <2>8, <2>9, <1>0
    <3>2. b[k - to] = r[to + (k - to) - 1]
      BY <3>1, <2>2
    <3>3. to + (k - to) - 1 = k - 1
      BY <1>0
    <3> QED
      BY <3>1, <3>2, <3>3
  <2>10. ASSUME NEW k \in 1..Len(s), k < to PROVE i[k] = r[k]
    BY <2>10, <2>8, <2>4, <2>1, <1>0
  <2>11. i[to] = s[from]
    BY <2>8, <2>4, <1>0 DEF x
  <2>12. \A k \in 1..Len(s) : k < to \/ k = to \/ ~(k <= to)
    BY <1>0
  <2> QED
    BY <2>7, <2>9, <2>10, <2>11, <2>12
<1> HIDE DEF i
<1>3. \A k \in 1..Len(s) :
        i[k] = IF k = to THEN s[from] ELSE IF k = from THEN s[to] ELSE s[k]
  <2> SUFFICES ASSUME NEW k \in 1..Len(s), k # to
               PROVE  i[k] = IF k = from THEN s[to] ELSE s[k]
    BY <1>2
  <2>1. CASE k < to
    <3>1. i[k] = r[k] /\ k \in 1..Len(r)
      BY <2>1, <1>0, <1>1, <1>2
    <3> QED
      BY <3>1, <2>1, <1>0, <1>1
  <2>2. CASE k > to
    <3>1. i[k] = r[k - 1] /\ k - 1 \in 1..Len(r) /\ k - 1 + 1 = k
      BY <2>2, <1>0, <1>1, <1>2
    <3> QED
      BY <3>1, <2>2, <1>0, <1>1
  <2> QED
    BY <2>1, <2>2, <1>0
<1>4. i = [s EXCEPT ![from] = s[to], ![to] = s[from]]
  BY <1>0, <1>2, <1>3
<1> QED
  BY <1>4 DEF i, r

\* What is kept of a list is in T, and is there once if it was in the list once.
LEMMA KeptOnce ==
  ASSUME NEW S, NEW n \in Nat, NEW s \in [1..n -> S],
         \A k, l \in 1..n : s[k] = s[l] => k = l,
         NEW T, NEW r \in Seq(S), Keeps(r, s, n, T)
  PROVE  /\ \A k \in 1..Len(r) : r[k] \in T
         /\ \A k, l \in 1..Len(r) : r[k] = r[l] => k = l
<1>1. PICK at \in [1..Len(r) -> 1..n] :
        /\ \A k, l \in 1..Len(r) : k < l => at[k] < at[l]
        /\ \A k \in 1..Len(r) : r[k] = s[at[k]] /\ r[k] \in T
  BY DEF Keeps
<1>2. ASSUME NEW k \in 1..Len(r), NEW l \in 1..Len(r), r[k] = r[l] PROVE k = l
  <2>1. at[k] = at[l] /\ at[k] \in 1..n /\ at[l] \in 1..n
    BY <1>1, <1>2
  <2>2. ~(at[k] < at[l]) /\ ~(at[l] < at[k])
    BY <2>1
  <2>3. ~(k < l) /\ ~(l < k)
    BY <1>1, <2>2
  <2> QED
    BY <2>3
<1> QED
  BY <1>1, <1>2

\* The items of T with two of them exchanged, then all others: the list, each item once.
LEMMA ReorderedIsList ==
  ASSUME NEW S, IsFiniteSet(S), NEW s \in SetToSeqs(S), NEW T \in SUBSET S,
         NEW from \in DOMAIN Filtered(s, T), NEW to \in DOMAIN Filtered(s, T),
         to = from - 1 \/ to = from + 1
  PROVE  InsertAt(RemoveAt(Filtered(s, T), from), to, Filtered(s, T)[from])
           \o Filtered(s, S \ T) \in SetToSeqs(S)
<1> DEFINE n == Cardinality(S)
           a == Filtered(s, T)
           b == Filtered(s, S \ T)
           c == [a EXCEPT ![from] = a[to], ![to] = a[from]]
           d == c \o b
<1>1. n \in Nat
  BY FS_CardinalityType
<1>2. s \in [1..n -> S] /\ \A k, l \in 1..n : s[k] = s[l] => k = l
  BY DEF SetToSeqs
<1>3. s \in Seq(S) /\ Len(s) = n
  BY <1>1, <1>2
<1>4. a \in Seq(S) /\ Keeps(a, s, n, T) /\ b \in Seq(S) /\ Keeps(b, s, n, S \ T)
  BY <1>3, FilteredKeeps
<1>5. Len(a) \in Nat /\ Len(b) \in Nat /\ Len(a) + Len(b) = n
  BY <1>3, <1>4, FilteredLengths
<1>6. from \in 1..Len(a) /\ to \in 1..Len(a)
  BY <1>4
<1> HIDE DEF a, b, n
<1>7. InsertAt(RemoveAt(a, from), to, a[from]) = c
  BY <1>4, <1>6, MoveExchanges
<1>8. /\ \A k \in 1..Len(a) : a[k] \in T
      /\ \A k, l \in 1..Len(a) : a[k] = a[l] => k = l
  BY <1>1, <1>2, <1>4, KeptOnce
<1>9. /\ \A k \in 1..Len(b) : b[k] \in S \ T
      /\ \A k, l \in 1..Len(b) : b[k] = b[l] => k = l
  BY <1>1, <1>2, <1>4, KeptOnce
<1>10. /\ c \in Seq(S) /\ Len(c) = Len(a)
       /\ \A k \in 1..Len(a) :
            c[k] = IF k = to THEN a[from] ELSE IF k = from THEN a[to] ELSE a[k]
  BY <1>4, <1>5, <1>6
<1>11. /\ \A k \in 1..Len(a) : c[k] \in T
       /\ \A k, l \in 1..Len(a) : c[k] = c[l] => k = l
  <2> HIDE DEF c
  <2> QED
    BY <1>6, <1>8, <1>10
<1> HIDE DEF c
<1>12. /\ d \in Seq(S) /\ Len(d) = n
       /\ \A k \in 1..n : d[k] = IF k <= Len(a) THEN c[k] ELSE b[k - Len(a)]
  <2>1. /\ d \in Seq(S) /\ Len(d) = Len(c) + Len(b)
        /\ \A k \in 1..Len(c)+Len(b) : d[k] = IF k <= Len(c) THEN c[k] ELSE b[k - Len(c)]
    BY <1>4, <1>10, ConcatProperties, Zenon
  <2>2. Len(c) = Len(a) /\ Len(c) + Len(b) = n
    BY <1>5, <1>10
  <2> QED
    BY <2>1, <2>2
<1> HIDE DEF d
<1>13. ASSUME NEW k \in 1..n, NEW l \in 1..n, d[k] = d[l] PROVE k = l
  <2>1. CASE k <= Len(a) /\ l <= Len(a)
    BY <2>1, <1>13, <1>11, <1>12, <1>5
  <2>2. CASE k <= Len(a) /\ ~(l <= Len(a))
    <3>1. d[k] \in T
      BY <2>2, <1>11, <1>12, <1>5
    <3>2. l - Len(a) \in 1..Len(b) /\ d[l] = b[l - Len(a)]
      BY <2>2, <1>12, <1>5
    <3> QED
      BY <3>1, <3>2, <1>9, <1>13
  <2>3. CASE ~(k <= Len(a)) /\ l <= Len(a)
    <3>1. d[l] \in T
      BY <2>3, <1>11, <1>12, <1>5
    <3>2. k - Len(a) \in 1..Len(b) /\ d[k] = b[k - Len(a)]
      BY <2>3, <1>12, <1>5
    <3> QED
      BY <3>1, <3>2, <1>9, <1>13
  <2>4. CASE ~(k <= Len(a)) /\ ~(l <= Len(a))
    <3>1. /\ k - Len(a) \in 1..Len(b) /\ d[k] = b[k - Len(a)]
          /\ l - Len(a) \in 1..Len(b) /\ d[l] = b[l - Len(a)]
      BY <2>4, <1>12, <1>5
    <3>2. k - Len(a) = l - Len(a)
      BY <3>1, <1>9, <1>13
    <3> QED
      BY <3>2, <1>5, <1>1
  <2> QED
    BY <2>1, <2>2, <2>3, <2>4
<1>14. d \in [1..n -> S]
  BY <1>1, <1>12
<1>15. d \in SetToSeqs(S)
  BY <1>13, <1>14 DEF SetToSeqs, n
<1> QED
  BY <1>7, <1>15 DEF a, b, d
-----------------------------------------------------------------------------
(***************************************************************************)
(* Lists of queues.                                                        *)
(***************************************************************************)

\* No two queues of the list have one id.
IdsDiffer(qs) == \A k, l \in 1..Len(qs) : qs[k].id = qs[l].id => k = l

\* x has the queues of qs, in their order, whatever has become of their other fields.
SameQueues(x, qs) ==
  /\ Len(x) = Len(qs)
  /\ \A k \in 1..Len(qs) : x[k].id = qs[k].id /\ x[k].name = qs[k].name

\* There are as many ids as queues when no two queues have the same.
LEMMA IdsCounted ==
  ASSUME NEW qs \in Seq(QueueConfig)
  PROVE  Cardinality(Ids(qs)) = Len(qs) <=> IdsDiffer(qs)
<1> DEFINE n == Len(qs)
           f == [k \in 1..n |-> qs[k].id]
<1>1. n \in Nat /\ DOMAIN qs = 1..n
  OBVIOUS
<1>2. f \in Surjection(1..n, Ids(qs))
  <2>1. f \in [1..n -> Ids(qs)]
    BY <1>1 DEF Ids
  <2>2. \A i \in Ids(qs) : \E k \in 1..n : f[k] = i
    BY <1>1 DEF Ids
  <2> QED
    BY <2>1, <2>2 DEF Surjection
<1>3. IsFiniteSet(1..n) /\ Cardinality(1..n) = n
  BY <1>1, FS_Interval
<1>4. Cardinality(Ids(qs)) = n <=> f \in Injection(1..n, Ids(qs))
  <2> HIDE DEF f, n
  <2> QED
    BY <1>2, <1>3, FS_Surjection
<1>5. f \in Injection(1..n, Ids(qs)) <=> \A k, l \in 1..n : f[k] = f[l] => k = l
  BY <1>2 DEF Surjection, Injection, IsInjective
<1>6. (\A k, l \in 1..n : f[k] = f[l] => k = l) <=> IdsDiffer(qs)
  BY DEF IdsDiffer
<1> QED
  BY <1>4, <1>5, <1>6

\* A list with the queues of a list of queues is one.
LEMMA SameQueuesIsList ==
  ASSUME NEW qs, QueueList(qs), NEW x \in Seq(QueueConfig), SameQueues(x, qs)
  PROVE  QueueList(x)
<1>1. qs \in Seq(QueueConfig) /\ IdsDiffer(qs) /\ Main \in Ids(qs)
  BY IdsCounted DEF QueueList
<1>2. DOMAIN qs = 1..Len(qs) /\ DOMAIN x = 1..Len(x)
  BY <1>1
<1>3. IdsDiffer(x)
  BY <1>1 DEF IdsDiffer, SameQueues
<1>4. Main \in Ids(x)
  BY <1>1, <1>2 DEF Ids, SameQueues
<1> QED
  BY <1>3, <1>4, IdsCounted DEF QueueList
-----------------------------------------------------------------------------
(***************************************************************************)
(* Starting and stopping a queue.                                          *)
(***************************************************************************)

Statuses == {"Queued", "Downloading", "Paused", "Finished"}
Windows == [queues : Seq(QueueConfig), status : [Item -> Statuses]]

\* What startQueue or stopQueue of the queue q may have made of a window w: q runs, or a
\* queue of its name or id does, or what ran before; no item starts.
Switched(w, q) == {x \in Windows :
  /\ SameQueues(x.queues, w.queues)
  /\ \A k \in 1..Len(w.queues) : x.queues[k].isRunning =>
       w.queues[k].isRunning \/ w.queues[k].id = q.id \/ w.queues[k].name = q.name
  /\ \A i \in Item : x.status[i] = "Downloading" => w.status[i] = "Downloading"}

\* Both keep the queues and the types.
LEMMA RunningSet ==
  ASSUME NEW w \in Windows, NEW q, NEW running \in BOOLEAN
  PROVE  /\ SetRunning(w, q, running) \in Windows
         /\ SetRunning(w, q, running).status = w.status
         /\ SameQueues(SetRunning(w, q, running).queues, w.queues)
         /\ \A k \in 1..Len(w.queues) : SetRunning(w, q, running).queues[k].isRunning =>
              \/ w.queues[k].isRunning
              \/ running /\ (w.queues[k].id = q.id \/ w.queues[k].name = q.name)
<1> DEFINE n == Len(w.queues)
           e(k) == IF w.queues[k].id = q.id \/ w.queues[k].name = q.name
                   THEN [w.queues[k] EXCEPT !.isRunning = running] ELSE w.queues[k]
           qs == [k \in 1..n |-> e(k)]
<1>1. /\ w.queues \in Seq(QueueConfig) /\ n \in Nat /\ DOMAIN w.queues = 1..n
      /\ w.status \in [Item -> Statuses] /\ w = [queues |-> w.queues, status |-> w.status]
  BY DEF Windows
<1>2. SetRunning(w, q, running) = [queues |-> qs, status |-> w.status]
  <2>1. SetRunning(w, q, running) = [w EXCEPT !.queues = [k \in DOMAIN w.queues |-> e(k)]]
    BY DEF SetRunning
  <2>2. [k \in DOMAIN w.queues |-> e(k)] = qs
    BY <1>1
  <2> HIDE DEF qs
  <2>3. [w EXCEPT !.queues = qs] = [queues |-> qs, status |-> w.status]
    BY DEF Windows
  <2> QED
    BY <2>1, <2>2, <2>3
<1>3. ASSUME NEW k \in 1..n
      PROVE  /\ e(k) \in QueueConfig
             /\ e(k).id = w.queues[k].id /\ e(k).name = w.queues[k].name
             /\ e(k).isRunning => \/ w.queues[k].isRunning
                                  \/ running /\ (w.queues[k].id = q.id \/ w.queues[k].name = q.name)
  <2>1. w.queues[k] \in QueueConfig
    BY <1>1
  <2> QED
    BY <2>1 DEF QueueConfig
<1> HIDE DEF e
<1>4. qs \in Seq(QueueConfig) /\ Len(qs) = n /\ \A k \in 1..n : qs[k] = e(k)
  BY <1>1, <1>3
<1> HIDE DEF qs
<1>5. SameQueues(qs, w.queues)
  BY <1>3, <1>4 DEF SameQueues
<1> QED
  BY <1>1, <1>2, <1>3, <1>4, <1>5 DEF Windows

\* A change of the items' statuses that starts none keeps the types.
LEMMA ItemsSet ==
  ASSUME NEW w \in Windows, NEW q, NEW from \in Statuses, NEW to \in Statuses \ {"Downloading"}
  PROVE  /\ SetItems(w, q, from, to) \in Windows
         /\ SetItems(w, q, from, to).queues = w.queues
         /\ \A i \in Item : SetItems(w, q, from, to).status[i] = "Downloading" =>
              w.status[i] = "Downloading"
<1> DEFINE st == [i \in Item |-> IF InQueue(i, q) /\ w.status[i] = from THEN to ELSE w.status[i]]
<1>1. w.queues \in Seq(QueueConfig) /\ w.status \in [Item -> Statuses]
  BY DEF Windows
<1>2. SetItems(w, q, from, to) = [w EXCEPT !.status = st]
  BY DEF SetItems
<1>3. /\ st \in [Item -> Statuses]
      /\ \A i \in Item : st[i] = "Downloading" => w.status[i] = "Downloading"
  BY <1>1
<1> HIDE DEF st
<1>4. [w EXCEPT !.status = st] = [queues |-> w.queues, status |-> st]
  BY DEF Windows
<1> QED
  BY <1>1, <1>2, <1>3, <1>4 DEF Windows

\* StartQueue and StopQueue switch the queue.
LEMMA QueueSwitched ==
  ASSUME NEW w \in Windows, NEW q
  PROVE  /\ StartQueue(w, q) \in Switched(w, q)
         /\ StopQueue(w, q) \in Switched(w, q)
         /\ \A k \in 1..Len(w.queues) :
              StopQueue(w, q).queues[k].isRunning => w.queues[k].isRunning
<1>1. StartQueue(w, q) \in Switched(w, q)
  <2> DEFINE s == IF q.isRunning THEN w ELSE SetItems(w, q, "Paused", "Queued")
             x == SetRunning(s, q, TRUE)
  <2>1. /\ s \in Windows /\ s.queues = w.queues
        /\ \A i \in Item : s.status[i] = "Downloading" => w.status[i] = "Downloading"
    <3>1. CASE q.isRunning
      BY <3>1
    <3>2. CASE ~q.isRunning
      <4> DEFINE z == SetItems(w, q, "Paused", "Queued")
      <4>1. "Paused" \in Statuses /\ "Queued" \in Statuses \ {"Downloading"}
        BY DEF Statuses
      <4>2. /\ z \in Windows /\ z.queues = w.queues
            /\ \A i \in Item : z.status[i] = "Downloading" => w.status[i] = "Downloading"
        BY <4>1, ItemsSet, Zenon
      <4> HIDE DEF z
      <4>3. s = z
        BY <3>2 DEF z
      <4> HIDE DEF s
      <4> QED
        BY <4>2, <4>3
    <3> QED
      BY <3>1, <3>2
  <2> HIDE DEF s
  <2>2. /\ x \in Windows /\ x.status = s.status /\ SameQueues(x.queues, s.queues)
        /\ \A k \in 1..Len(s.queues) : x.queues[k].isRunning =>
             s.queues[k].isRunning \/ s.queues[k].id = q.id \/ s.queues[k].name = q.name
    <3>1. TRUE \in BOOLEAN
      OBVIOUS
    <3>2. /\ x \in Windows /\ x.status = s.status /\ SameQueues(x.queues, s.queues)
          /\ \A k \in 1..Len(s.queues) : x.queues[k].isRunning =>
               \/ s.queues[k].isRunning
               \/ TRUE /\ (s.queues[k].id = q.id \/ s.queues[k].name = q.name)
      BY <3>1, <2>1, RunningSet, Zenon
    <3> QED
      BY <3>2
  <2> HIDE DEF x
  <2>3. x \in Switched(w, q)
    BY <2>1, <2>2 DEF Switched
  <2> QED
    BY <2>3 DEF StartQueue, x, s
<1>2. /\ StopQueue(w, q) \in Switched(w, q)
      /\ \A k \in 1..Len(w.queues) :
           StopQueue(w, q).queues[k].isRunning => w.queues[k].isRunning
  <2> DEFINE s == SetRunning(w, q, FALSE)
             x == SetItems(s, q, "Downloading", "Paused")
  <2>1. /\ s \in Windows /\ s.status = w.status /\ SameQueues(s.queues, w.queues)
        /\ \A k \in 1..Len(w.queues) : s.queues[k].isRunning => w.queues[k].isRunning
    BY RunningSet
  <2> HIDE DEF s
  <2>2. /\ x \in Windows /\ x.queues = s.queues
        /\ \A i \in Item : x.status[i] = "Downloading" => s.status[i] = "Downloading"
    <3>1. "Downloading" \in Statuses /\ "Paused" \in Statuses \ {"Downloading"}
      BY DEF Statuses
    <3>2. s \in Windows
      BY <2>1
    <3> QED
      BY <3>1, <3>2, ItemsSet, Zenon
  <2> HIDE DEF x
  <2>3. x \in Switched(w, q)
    BY <2>1, <2>2 DEF Switched
  <2> QED
    BY <2>1, <2>2, <2>3 DEF StopQueue, x, s
<1> QED
  BY <1>1, <1>2
-----------------------------------------------------------------------------
(***************************************************************************)
(* One pass of the schedule over the queues.                               *)
(***************************************************************************)

\* The k-th queue runs, or a queue of its name or id has come to its start.
MayRun(k) ==
  \/ queues[k].isRunning
  \/ \E l \in 1..Len(queues) :
       /\ Starts(queues[l])
       /\ queues[l].id = queues[k].id \/ queues[l].name = queues[k].name

\* What the schedule may have made of the window: only queues run that may, no item starts.
Scheduled == {x \in Windows :
  /\ SameQueues(x.queues, queues)
  /\ \A k \in 1..Len(queues) : x.queues[k].isRunning => MayRun(k)
  /\ \A i \in Item : x.status[i] = "Downloading" => status[i] = "Downloading"}

\* One queue's turn in the pass.
LEMMA TriggerStep ==
  ASSUME NEW x \in Scheduled, NEW k \in 1..Len(queues)
  PROVE  Trigger(x, queues[k]) \in Scheduled
<1> DEFINE q == queues[k]
           s == IF Starts(q) /\ ~q.isRunning THEN StartQueue(x, q) ELSE x
           y == IF Stops(q) THEN StopQueue(s, q) ELSE s
<1>0. x \in Windows /\ Len(x.queues) = Len(queues)
  BY DEF Scheduled, SameQueues
<1>1. s \in Scheduled
  <2>1. CASE Starts(q)
    <3> DEFINE z == StartQueue(x, q)
    <3>1. z \in Switched(x, q)
      BY <1>0, QueueSwitched
    <3> HIDE DEF z
    <3>2. z \in Scheduled
      BY <2>1, <3>1, <1>0 DEF Switched, Scheduled, SameQueues, MayRun
    <3> QED
      BY <3>2 DEF z
  <2>2. CASE ~Starts(q)
    BY <2>2
  <2> QED
    BY <2>1, <2>2
<1> HIDE DEF s
<1>2. s \in Windows /\ Len(s.queues) = Len(queues)
  BY <1>1 DEF Scheduled, SameQueues
<1>3. y \in Scheduled
  <2>1. CASE Stops(q)
    <3> DEFINE z == StopQueue(s, q)
    <3>1. /\ z \in Switched(s, q)
          /\ \A l \in 1..Len(queues) : z.queues[l].isRunning => s.queues[l].isRunning
      BY <1>2, QueueSwitched
    <3> HIDE DEF z
    <3>2. z \in Scheduled
      BY <3>1, <1>1, <1>2 DEF Switched, Scheduled, SameQueues
    <3> QED
      BY <2>1, <3>2 DEF z
  <2>2. CASE ~Stops(q)
    BY <2>2, <1>1
  <2> QED
    BY <2>1, <2>2
<1> QED
  BY <1>3 DEF Trigger, s

\* The pass.
LEMMA TriggersScheduled ==
  ASSUME queues \in Seq(QueueConfig), status \in [Item -> Statuses]
  PROVE  Triggers \in Scheduled
<1> DEFINE n == Len(queues)
           W == Scheduled
           e == Window
           Step(r, k) == Trigger(r, queues[k])
           Body(g) == [k \in 0..n |-> IF k = 0 THEN e ELSE Step(g[k - 1], k)]
           after == CHOOSE g : g = Body(g)
           F == [k \in 1..n |-> [r \in W |-> Step(r, k)]]
<1>0. n \in Nat /\ \A r \in W, k \in 1..n : Step(r, k) \in W
  BY TriggerStep
<1>1. e \in W
  BY DEF Window, Scheduled, Windows, SameQueues, MayRun
<1>2. Triggers = after[n]
  BY DEF Triggers
<1> HIDE DEF n, W, e, Step
<1>3. PICK g \in [0..n -> W] : Run(g, e, n, F)
  <2>1. F \in [1..n -> [W -> W]]
    BY <1>0
  <2> HIDE DEF F
  <2> QED
    BY <1>0, <1>1, <2>1, LoopRuns
<1>4. g = Body(g)
  <2>1. \A k \in 1..n : k - 1 \in 0..n /\ g[k - 1] \in W
    BY <1>0
  <2>2. g[0] = e /\ \A k \in 1..n : g[k] = Step(g[k - 1], k)
    BY <1>3, <2>1 DEF Run
  <2> QED
    BY <1>0, <2>2
<1>5. after = Body(after)
  BY <1>4
<1> HIDE DEF after
<1>6. after[0] = e /\ \A k \in 1..n : after[k] = Step(after[k - 1], k)
  BY <1>0, <1>5
<1>7. \A m \in 0..n : after[m] \in W
  <2>1. after[0] \in W /\ \A k \in 1..n : after[k - 1] \in W => after[k] \in W
    BY <1>0, <1>1, <1>6
  <2> QED
    BY <1>0, <2>1, LoopStays
<1> QED
  BY <1>0, <1>2, <1>7 DEF W
-----------------------------------------------------------------------------
(***************************************************************************)
(* The dispatcher's pass over the queues.                                  *)
(***************************************************************************)

\* No two items of one queue are Downloading in st, unless they were before.
NoSecond(st, before) == \A i, j \in Item :
  /\ i # j /\ queueOf[i] = queueOf[j] /\ queueOf[i] # NoName
  /\ st[i] = "Downloading" /\ st[j] = "Downloading"
  => before[i] = "Downloading" /\ before[j] = "Downloading"

\* What the dispatcher may have made of the window w: it starts items of queues that run,
\* one of each, and it stops queues.
Dispatched(w) == {x \in Windows :
  /\ SameQueues(x.queues, w.queues)
  /\ \A k \in 1..Len(w.queues) : x.queues[k].isRunning => w.queues[k].isRunning
  /\ \A i \in Item : x.status[i] = "Downloading" =>
       \/ w.status[i] = "Downloading"
       \/ \E k \in 1..Len(w.queues) : w.queues[k].isRunning /\ InQueue(i, w.queues[k])
  /\ NoSecond(x.status, w.status)}

\* The first of some positions is one item.
LEMMA FirstIsOne ==
  ASSUME DOMAIN order \in SUBSET Nat, NEW positions \in SUBSET DOMAIN order,
         NEW i \in First(positions), NEW j \in First(positions)
  PROVE  i = j
<1>1. PICK k \in positions : i = order[k] /\ \A m \in positions : k <= m
  BY DEF First
<1>2. PICK l \in positions : j = order[l] /\ \A m \in positions : l <= m
  BY DEF First
<1>3. k <= l /\ l <= k /\ k \in Nat /\ l \in Nat
  BY <1>1, <1>2
<1> QED
  BY <1>1, <1>2, <1>3

\* One queue's turn in the pass.
LEMMA DispatchStep ==
  ASSUME DOMAIN order \in SUBSET Nat,
         NEW w \in Windows, NEW x \in Dispatched(w), NEW k \in 1..Len(w.queues)
  PROVE  DispatchQueue(x, w.queues[k]) \in Dispatched(w)
<1> DEFINE q == w.queues[k]
           items == {i \in Item : InQueue(i, q)}
           done == items # {} /\ \A i \in items : x.status[i] = "Finished"
           n == Len(x.queues)
           e(l) == [x.queues[l] EXCEPT !.isRunning = @ /\ ~(done /\ x.queues[l].id = q.id)]
           qs == [l \in 1..n |-> e(l)]
           st == [i \in Item |-> IF i \in Next1(x.status, q) THEN "Downloading"
                                                             ELSE x.status[i]]
<1> SUFFICES ASSUME q.isRunning PROVE [queues |-> qs, status |-> st] \in Dispatched(w)
  <2>1. x.queues \in Seq(QueueConfig) /\ DOMAIN x.queues = 1..n
    BY DEF Dispatched, Windows
  <2>2. CASE q.isRunning
    <3>1. DispatchQueue(x, q) = [queues |-> [l \in DOMAIN x.queues |-> e(l)], status |-> st]
      BY <2>2 DEF DispatchQueue
    <3> QED
      BY <2>1, <2>2, <3>1
  <2>3. CASE ~q.isRunning
    BY <2>3 DEF DispatchQueue
  <2> QED
    BY <2>2, <2>3
<1>1. /\ x.queues \in Seq(QueueConfig) /\ n \in Nat /\ x.status \in [Item -> Statuses]
      /\ n = Len(w.queues) /\ SameQueues(x.queues, w.queues)
  BY DEF Dispatched, Windows, SameQueues
<1>2. ASSUME NEW l \in 1..n
      PROVE  /\ e(l) \in QueueConfig
             /\ e(l).id = x.queues[l].id /\ e(l).name = x.queues[l].name
             /\ e(l).isRunning => x.queues[l].isRunning
  <2> HIDE DEF done
  <2>1. x.queues[l] \in QueueConfig
    BY <1>1
  <2> QED
    BY <2>1 DEF QueueConfig
<1> HIDE DEF e
<1>3. qs \in Seq(QueueConfig) /\ Len(qs) = n /\ \A l \in 1..n : qs[l] = e(l)
  BY <1>1, <1>2
<1> HIDE DEF qs
<1>4. /\ SameQueues(qs, w.queues)
      /\ \A l \in 1..Len(w.queues) : qs[l].isRunning => w.queues[l].isRunning
  BY <1>1, <1>2, <1>3 DEF SameQueues, Dispatched
<1>5. st \in [Item -> Statuses]
  BY <1>1 DEF Statuses
<1>6. ASSUME NEW i \in Item, st[i] = "Downloading"
      PROVE  \/ w.status[i] = "Downloading"
             \/ \E l \in 1..Len(w.queues) : w.queues[l].isRunning /\ InQueue(i, w.queues[l])
  <2>1. CASE i \in Next1(x.status, q)
    <3>1. InQueue(i, q)
      BY <2>1 DEF Next1, First, Waiting
    <3> QED
      BY <3>1
  <2>2. CASE i \notin Next1(x.status, q)
    BY <2>2, <1>6 DEF Dispatched
  <2> QED
    BY <2>1, <2>2
<1>7. NoSecond(x.status, w.status)
  BY DEF Dispatched
<1>8. ASSUME NEW i \in Item, NEW j \in Item,
             i # j, queueOf[i] = queueOf[j], queueOf[i] # NoName,
             st[i] = "Downloading", st[j] = "Downloading"
      PROVE  x.status[i] = "Downloading" /\ x.status[j] = "Downloading"
  <2>1. ASSUME NEW a \in Item, NEW b \in Item, a # b, queueOf[a] = queueOf[b],
               st[b] = "Downloading", a \in Next1(x.status, q)
        PROVE  FALSE
    <3>1. InQueue(a, q) /\ InQueue(b, q) /\ x.status[b] # "Downloading"
      BY <2>1 DEF Next1, First, Waiting, InQueue
    <3>2. b \in Next1(x.status, q)
      BY <2>1, <3>1
    <3>3. a \in First(Waiting(x.status, q)) /\ b \in First(Waiting(x.status, q))
      BY <2>1, <3>2 DEF Next1
    <3>4. Waiting(x.status, q) \in SUBSET DOMAIN order
      BY DEF Waiting
    <3> QED
      BY <2>1, <3>3, <3>4, FirstIsOne
  <2> QED
    BY <1>8, <2>1
<1>9. NoSecond(st, w.status)
  <2> HIDE DEF st
  <2> QED
    BY <1>7, <1>8 DEF NoSecond
<1> HIDE DEF st
<1> QED
  BY <1>3, <1>4, <1>5, <1>6, <1>9 DEF Dispatched, Windows

\* The pass, and the items of no queue after it.
LEMMA WorkersDispatched ==
  ASSUME DOMAIN order \in SUBSET Nat, NEW w \in Windows
  PROVE  /\ DispatchQueueWorkers(w) \in Windows
         /\ SameQueues(DispatchQueueWorkers(w).queues, w.queues)
         /\ \A k \in 1..Len(w.queues) :
              DispatchQueueWorkers(w).queues[k].isRunning => w.queues[k].isRunning
         /\ \A i \in Item : DispatchQueueWorkers(w).status[i] = "Downloading" =>
              \/ w.status[i] = "Downloading"
              \/ \E k \in 1..Len(w.queues) : w.queues[k].isRunning /\ InQueue(i, w.queues[k])
              \/ queueOf[i] = NoName
         /\ NoSecond(DispatchQueueWorkers(w).status, w.status)
<1> DEFINE n == Len(w.queues)
           W == Dispatched(w)
           Step(r, k) == DispatchQueue(r, w.queues[k])
           Body(g) == [k \in 0..n |-> IF k = 0 THEN w ELSE Step(g[k - 1], k)]
           after == CHOOSE g : g = Body(g)
           F == [k \in 1..n |-> [r \in W |-> Step(r, k)]]
<1>0. n \in Nat /\ \A r \in W, k \in 1..n : Step(r, k) \in W
  <2>1. n \in Nat
    BY DEF Windows
  <2> QED
    BY <2>1, DispatchStep
<1>1. w \in W
  BY DEF Dispatched, Windows, SameQueues, NoSecond
<1>2. DispatchQueueWorkers(w) = DispatchGeneral(after[n])
  BY DEF DispatchQueueWorkers
<1> HIDE DEF n, W, Step
<1>3. PICK g \in [0..n -> W] : Run(g, w, n, F)
  <2>1. F \in [1..n -> [W -> W]]
    BY <1>0
  <2> HIDE DEF F
  <2> QED
    BY <1>0, <1>1, <2>1, LoopRuns
<1>4. g = Body(g)
  <2>1. \A k \in 1..n : k - 1 \in 0..n /\ g[k - 1] \in W
    BY <1>0
  <2>2. g[0] = w /\ \A k \in 1..n : g[k] = Step(g[k - 1], k)
    BY <1>3, <2>1 DEF Run
  <2> QED
    BY <1>0, <2>2
<1>5. after = Body(after)
  BY <1>4
<1> HIDE DEF after
<1>6. after[0] = w /\ \A k \in 1..n : after[k] = Step(after[k - 1], k)
  BY <1>0, <1>5
<1>7. after[n] \in Dispatched(w)
  <2>1. after[0] \in W /\ \A k \in 1..n : after[k - 1] \in W => after[k] \in W
    BY <1>0, <1>1, <1>6
  <2>2. \A m \in 0..n : after[m] \in W
    BY <1>0, <2>1, LoopStays
  <2> QED
    BY <1>0, <2>2 DEF W
<1> DEFINE x == after[n]
           st == [i \in Item |-> IF queueOf[i] = NoName /\ x.status[i] = "Queued"
                                 THEN "Downloading" ELSE x.status[i]]
<1> HIDE DEF x
<1>8. /\ x \in Windows /\ SameQueues(x.queues, w.queues)
      /\ \A k \in 1..Len(w.queues) : x.queues[k].isRunning => w.queues[k].isRunning
      /\ \A i \in Item : x.status[i] = "Downloading" =>
           \/ w.status[i] = "Downloading"
           \/ \E k \in 1..Len(w.queues) : w.queues[k].isRunning /\ InQueue(i, w.queues[k])
      /\ NoSecond(x.status, w.status)
  BY <1>7 DEF Dispatched, x
<1>9. st \in [Item -> Statuses]
  BY <1>8 DEF Windows, Statuses
<1>10. \A i \in Item : st[i] = "Downloading" => x.status[i] = "Downloading" \/ queueOf[i] = NoName
  OBVIOUS
<1>11. DispatchGeneral(x) = [x EXCEPT !.status = st]
  BY DEF DispatchGeneral
<1> HIDE DEF st
<1>12. [x EXCEPT !.status = st] = [queues |-> x.queues, status |-> st]
  BY <1>8 DEF Windows
<1>13. DispatchQueueWorkers(w) = [queues |-> x.queues, status |-> st]
  BY <1>2, <1>11, <1>12 DEF x
<1>14. [queues |-> x.queues, status |-> st] \in Windows
  BY <1>8, <1>9 DEF Windows
<1>15. NoSecond(st, w.status)
  BY <1>8, <1>10 DEF NoSecond
<1> QED
  BY <1>8, <1>10, <1>13, <1>14, <1>15

\* What a tick of the schedule makes of the window, dispatch included.
LEMMA SchedulerChecked ==
  ASSUME DOMAIN order \in SUBSET Nat, queues \in Seq(QueueConfig), status \in [Item -> Statuses]
  PROVE  LET w == Triggers
             x == IF HasWork(queues, w.status) THEN DispatchQueueWorkers(w) ELSE w IN
         /\ x \in Windows /\ SameQueues(x.queues, queues)
         /\ \A k \in 1..Len(queues) : x.queues[k].isRunning => MayRun(k)
         /\ \A i \in Item : x.status[i] = "Downloading" =>
              \/ status[i] = "Downloading"
              \/ \E k \in 1..Len(queues) : MayRun(k) /\ InQueue(i, queues[k])
              \/ queueOf[i] = NoName
         /\ NoSecond(x.status, status)
<1> DEFINE w == Triggers
           d == DispatchQueueWorkers(w)
<1>1. w \in Scheduled
  BY TriggersScheduled
<1> HIDE DEF w
<1>2. /\ w \in Windows /\ SameQueues(w.queues, queues)
      /\ \A k \in 1..Len(queues) : w.queues[k].isRunning => MayRun(k)
      /\ \A i \in Item : w.status[i] = "Downloading" => status[i] = "Downloading"
  BY <1>1 DEF Scheduled
<1>3. /\ d \in Windows /\ SameQueues(d.queues, w.queues)
      /\ \A k \in 1..Len(w.queues) : d.queues[k].isRunning => w.queues[k].isRunning
      /\ \A i \in Item : d.status[i] = "Downloading" =>
           \/ w.status[i] = "Downloading"
           \/ \E k \in 1..Len(w.queues) : w.queues[k].isRunning /\ InQueue(i, w.queues[k])
           \/ queueOf[i] = NoName
      /\ NoSecond(d.status, w.status)
  BY <1>2, WorkersDispatched
<1> HIDE DEF d
<1>4. SameQueues(d.queues, queues)
  BY <1>2, <1>3 DEF SameQueues
<1>5. \A k \in 1..Len(queues) : d.queues[k].isRunning => MayRun(k)
  BY <1>2, <1>3 DEF SameQueues
<1>6. ASSUME NEW i \in Item, d.status[i] = "Downloading"
      PROVE  \/ status[i] = "Downloading"
             \/ \E k \in 1..Len(queues) : MayRun(k) /\ InQueue(i, queues[k])
             \/ queueOf[i] = NoName
  BY <1>2, <1>3, <1>6 DEF SameQueues, InQueue
<1>7. NoSecond(d.status, status) /\ NoSecond(w.status, status)
  BY <1>2, <1>3 DEF NoSecond
<1>8. CASE HasWork(queues, w.status)
  BY <1>3, <1>4, <1>5, <1>6, <1>7, <1>8 DEF d, w
<1>9. CASE ~HasWork(queues, w.status)
  BY <1>2, <1>7, <1>9 DEF w
<1> QED
  BY <1>8, <1>9
-----------------------------------------------------------------------------
(***************************************************************************)
(* Types.                                                                  *)
(***************************************************************************)

\* What a call puts back has the types, if it keeps the queues.
LEMMA BecomesTyped ==
  ASSUME TypeOK, NEW x \in Windows, SameQueues(x.queues, queues), Becomes(x)
  PROVE  /\ QueueList(queues') /\ status' \in [Item -> Statuses]
         /\ modal' = modal => modal' = Closed \/ QueueList(modal')
<1>1. queues' = x.queues /\ status' = x.status /\ x.queues \in Seq(QueueConfig)
  BY DEF Becomes, Windows
<1>2. QueueList(x.queues)
  BY <1>1, SameQueuesIsList DEF TypeOK
<1> QED
  BY <1>1, <1>2 DEF TypeOK, Windows

\* What the schedule remembers is of this minute.
LEMMA RememberedTyped ==
  ASSUME TypeOK
  PROVE  Remembered \subseteq Id \X {"start", "stop"} \X Minute
<1>1. \A q \in ToSet(queues) : q.id \in Id
  <2>1. queues \in Seq(QueueConfig)
    BY DEF TypeOK, QueueList
  <2>2. \A k \in DOMAIN queues : queues[k] \in QueueConfig
    BY <2>1
  <2>3. \A q \in QueueConfig : q.id \in Id
    BY DEF QueueConfig
  <2> QED
    BY <2>2, <2>3 DEF ToSet
<1>2. minute \in Minute /\ triggered \subseteq Id \X {"start", "stop"} \X Minute
  BY DEF TypeOK
<1> QED
  BY <1>1, <1>2 DEF Remembered

\* The commands that leave the list and the windows' types as they are.
LEMMA ListKept ==
  ASSUME TypeOK, UNCHANGED <<list, minute, triggered>>
  PROVE  /\ order' \in SetToSeqs(Item) /\ status' \in [Item -> Statuses]
         /\ queueOf' \in [Item -> Name \cup {NoName}]
         /\ minute' \in Minute /\ triggered' \subseteq Id \X {"start", "stop"} \X Minute
  BY DEF TypeOK, Statuses, list

\* The edits of the dialog keep its copy a list of queues.
LEMMA CopyEdited ==
  ASSUME QueueAssumption, TypeOK, modal # Closed
  PROVE  /\ \A id \in Id \ Ids(modal), name \in Name :
              QueueList(Append(modal, NewQueue(id, name)))
         /\ \A k \in DOMAIN modal : modal[k].id # Main =>
              QueueList(Filtered(modal, {q \in ToSet(modal) : q.id # modal[k].id}))
         /\ \A k \in DOMAIN modal : \A q \in QueueConfig : q.id = modal[k].id =>
              QueueList([modal EXCEPT ![k] = q])
<1> DEFINE n == Len(modal)
<1>1. /\ modal \in Seq(QueueConfig) /\ n \in Nat /\ DOMAIN modal = 1..n
      /\ IdsDiffer(modal) /\ Main \in Ids(modal)
  <2>1. QueueList(modal)
    BY DEF TypeOK
  <2> QED
    BY <2>1, IdsCounted DEF QueueList
<1>2. ASSUME NEW id \in Id, id \notin Ids(modal), NEW name \in Name
      PROVE  QueueList(Append(modal, NewQueue(id, name)))
  <2> DEFINE q == NewQueue(id, name)
             x == Append(modal, q)
  <2>1. q \in QueueConfig /\ q.id = id
    BY <1>2 DEF NewQueue, QueueConfig, Never
  <2> HIDE DEF q
  <2>2. /\ x \in Seq(QueueConfig) /\ Len(x) = n + 1
        /\ x[n + 1] = q /\ \A k \in 1..n : x[k] = modal[k]
    BY <1>1, <2>1
  <2> HIDE DEF x
  <2>3. \A k \in 1..n : modal[k].id # id
    BY <1>1, <1>2 DEF Ids
  <2>4. IdsDiffer(x)
    BY <1>1, <2>1, <2>2, <2>3 DEF IdsDiffer
  <2>5. Main \in Ids(x)
    <3>1. PICK k \in 1..n : modal[k].id = Main
      BY <1>1 DEF Ids
    <3>2. k \in DOMAIN x /\ x[k].id = Main
      BY <3>1, <2>2, <1>1
    <3> QED
      BY <3>2 DEF Ids
  <2>6. QueueList(x)
    BY <2>2, <2>4, <2>5, IdsCounted DEF QueueList
  <2> QED
    BY <2>6 DEF x, q
<1>3. ASSUME NEW d \in DOMAIN modal, modal[d].id # Main
      PROVE  QueueList(Filtered(modal, {q \in ToSet(modal) : q.id # modal[d].id}))
  <2> DEFINE T == {q \in ToSet(modal) : q.id # modal[d].id}
             x == Filtered(modal, T)
  <2>1. x \in Seq(QueueConfig) /\ Keeps(x, modal, n, T)
    BY <1>1, FilteredKeeps
  <2>2. \A k \in 1..n : modal[k].id = Main => modal[k] \in T
    BY <1>1, <1>3 DEF ToSet
  <2> HIDE DEF T, x
  <2>3. PICK at \in [1..Len(x) -> 1..n] :
          /\ \A a, b \in 1..Len(x) : a < b => at[a] < at[b]
          /\ \A a \in 1..Len(x) : x[a] = modal[at[a]]
          /\ \A l \in 1..n : modal[l] \in T => \E a \in 1..Len(x) : at[a] = l
    BY <2>1 DEF Keeps
  <2>4. IdsDiffer(x)
    <3> SUFFICES ASSUME NEW a \in 1..Len(x), NEW b \in 1..Len(x), x[a].id = x[b].id
                 PROVE  a = b
      BY DEF IdsDiffer
    <3>1. at[a] = at[b] /\ at[a] \in 1..n /\ at[b] \in 1..n
      BY <1>1, <2>3 DEF IdsDiffer
    <3>2. ~(at[a] < at[b]) /\ ~(at[b] < at[a])
      BY <3>1
    <3>3. ~(a < b) /\ ~(b < a)
      BY <2>3, <3>2
    <3> QED
      BY <3>3, <2>1
  <2>5. Main \in Ids(x)
    <3>1. PICK l \in 1..n : modal[l].id = Main
      BY <1>1 DEF Ids
    <3>2. PICK a \in 1..Len(x) : at[a] = l
      BY <3>1, <2>2, <2>3
    <3>3. a \in DOMAIN x /\ x[a].id = Main
      BY <3>1, <3>2, <2>1, <2>3
    <3> QED
      BY <3>3 DEF Ids
  <2>6. QueueList(x)
    BY <2>1, <2>4, <2>5, IdsCounted DEF QueueList
  <2> QED
    BY <2>6 DEF x, T
<1>4. ASSUME NEW k \in DOMAIN modal, NEW q \in QueueConfig, q.id = modal[k].id
      PROVE  QueueList([modal EXCEPT ![k] = q])
  <2> DEFINE x == [modal EXCEPT ![k] = q]
  <2>1. /\ x \in Seq(QueueConfig) /\ Len(x) = n
        /\ \A l \in 1..n : x[l].id = modal[l].id
    BY <1>1, <1>4
  <2> HIDE DEF x
  <2>2. IdsDiffer(x)
    BY <1>1, <2>1 DEF IdsDiffer
  <2>3. Main \in Ids(x)
    BY <1>1, <2>1 DEF Ids
  <2>4. QueueList(x)
    BY <2>1, <2>2, <2>3, IdsCounted DEF QueueList
  <2> QED
    BY <2>4 DEF x
<1> QED
  BY <1>2, <1>3, <1>4

\* Every step keeps the types.
LEMMA TypeStep ==
  ASSUME QueueAssumption, TypeOK, [Next]_vars
  PROVE  TypeOK'
<1>1. /\ QueueList(queues) /\ (modal = Closed \/ QueueList(modal)) /\ order \in SetToSeqs(Item)
      /\ status \in [Item -> Statuses] /\ queueOf \in [Item -> Name \cup {NoName}]
      /\ minute \in Minute /\ triggered \subseteq Id \X {"start", "stop"} \X Minute
      /\ commands \in 0..MaxCommands
      /\ queues \in Seq(QueueConfig) /\ DOMAIN queues = 1..Len(queues)
      /\ DOMAIN order \in SUBSET Nat
  BY DEF TypeOK, Statuses, QueueList, SetToSeqs
<1>2. Command => commands' \in 0..MaxCommands
  BY <1>1 DEF Command, QueueAssumption
<1>3. Window \in Windows /\ Window.queues = queues
  BY <1>1 DEF Window, Windows
<1>4. CASE CheckScheduler
  <2> DEFINE w == Triggers
             x == IF HasWork(queues, w.status) THEN DispatchQueueWorkers(w) ELSE w
  <2>1. x \in Windows /\ SameQueues(x.queues, queues)
    BY <1>1, SchedulerChecked
  <2>2. /\ Becomes(x) /\ UNCHANGED <<order, queueOf, minute, modal, commands>>
        /\ triggered' = {} \/ triggered' = Remembered
    BY <1>4 DEF CheckScheduler
  <2> HIDE DEF x
  <2>3. triggered' \subseteq Id \X {"start", "stop"} \X Minute
    BY <2>2, RememberedTyped
  <2>4. QueueList(queues') /\ status' \in [Item -> Statuses]
    BY <2>1, <2>2, BecomesTyped
  <2> QED
    BY <1>1, <2>2, <2>3, <2>4 DEF TypeOK, Statuses
<1>5. CASE Dispatch
  <2> DEFINE x == DispatchQueueWorkers(Window)
  <2>1. x \in Windows /\ SameQueues(x.queues, queues)
    BY <1>3, WorkersDispatched
  <2>2. Becomes(x) /\ UNCHANGED <<order, queueOf, minute, triggered, modal, commands>>
    BY <1>5 DEF Dispatch
  <2> HIDE DEF x
  <2>3. QueueList(queues') /\ status' \in [Item -> Statuses]
    BY <2>1, <2>2, BecomesTyped
  <2> QED
    BY <1>1, <2>2, <2>3 DEF TypeOK, Statuses
<1>6. CASE MinutePasses
  BY <1>1, <1>6 DEF MinutePasses, TypeOK, Statuses, list, Minute, QueueAssumption
<1>7. ASSUME NEW i \in Item, ItemFinishes(i) PROVE TypeOK'
  BY <1>1, <1>7 DEF ItemFinishes, TypeOK, Statuses
<1>8. ASSUME NEW k \in DOMAIN queues, MenuStart(k) \/ MenuStop(k) PROVE TypeOK'
  <2>1. PICK x \in Switched(Window, queues[k]) :
          Becomes(x) /\ Command /\ UNCHANGED <<order, queueOf, minute, triggered, modal>>
    BY <1>3, <1>8, QueueSwitched DEF MenuStart, MenuStop
  <2>2. x \in Windows /\ SameQueues(x.queues, queues)
    BY <1>3, <2>1 DEF Switched
  <2>3. QueueList(queues') /\ status' \in [Item -> Statuses]
    BY <2>1, <2>2, BecomesTyped
  <2> QED
    BY <1>1, <1>2, <2>1, <2>3 DEF TypeOK, Statuses
<1>9. ASSUME NEW i \in Item, NEW name \in {queues[k].name : k \in DOMAIN queues} \cup {NoName},
             SetItemQueue(i, name)
      PROVE  TypeOK'
  <2>1. name \in Name \cup {NoName}
    <3>1. \A k \in DOMAIN queues : queues[k] \in QueueConfig
      BY <1>1
    <3> QED
      BY <3>1 DEF QueueConfig
  <2> QED
    BY <1>1, <1>2, <1>9, <2>1 DEF SetItemQueue, TypeOK, Statuses
<1>10. CASE OpenModal \/ CloseModal \/ HandleSave
  BY <1>1, <1>2, <1>10 DEF OpenModal, CloseModal, HandleSave, SaveQueues, TypeOK, Statuses, list
<1>11. ASSUME NEW local, QueueList(local), Edit(local) PROVE TypeOK'
  BY <1>1, <1>2, <1>11 DEF Edit, TypeOK, Statuses, list
<1>12. ASSUME NEW id \in Id, NEW name \in Name, HandleCreateQueue(id, name) PROVE TypeOK'
  <2>1. QueueList(Append(modal, NewQueue(id, name)))
    BY <1>12, CopyEdited DEF HandleCreateQueue, Edit
  <2> QED
    BY <1>11, <1>12, <2>1 DEF HandleCreateQueue
<1>13. ASSUME NEW k \in DOMAIN modal, HandleDeleteSelectedQueue(k) PROVE TypeOK'
  <2>1. QueueList(Filtered(modal, {q \in ToSet(modal) : q.id # modal[k].id}))
    BY <1>13, CopyEdited DEF HandleDeleteSelectedQueue, Edit
  <2> QED
    BY <1>11, <1>13, <2>1 DEF HandleDeleteSelectedQueue
<1>14. ASSUME NEW k \in DOMAIN modal, NEW q \in QueueConfig, HandleUpdate(k, q) PROVE TypeOK'
  <2>1. QueueList([modal EXCEPT ![k] = q])
    BY <1>14, CopyEdited DEF HandleUpdate, Edit
  <2> QED
    BY <1>11, <1>14, <2>1 DEF HandleUpdate
<1>15. ASSUME NEW q, NEW from, NEW to, HandleMoveItem(q, from, to) PROVE TypeOK'
  <2> DEFINE T == {i \in Item : InQueue(i, q)}
             U == {i \in Item : ~InQueue(i, q)}
  <2>1. U = Item \ T /\ T \in SUBSET Item
    OBVIOUS
  <2>2. /\ from \in DOMAIN Filtered(order, T) /\ to \in DOMAIN Filtered(order, T)
        /\ to = from - 1 \/ to = from + 1
        /\ order' = InsertAt(RemoveAt(Filtered(order, T), from), to, Filtered(order, T)[from])
                      \o Filtered(order, U)
    BY <1>15 DEF HandleMoveItem, Movable, ReorderQueueItems, QueueDownloads
  <2> HIDE DEF T, U
  <2>3. order' \in SetToSeqs(Item)
    BY <1>1, <2>1, <2>2, ReorderedIsList DEF QueueAssumption
  <2> QED
    BY <1>1, <1>2, <1>15, <2>3 DEF HandleMoveItem, TypeOK, Statuses
<1>16. ASSUME NEW q, NEW i \in Item, HandleDeleteItem(q, i) PROVE TypeOK'
  BY <1>1, <1>2, <1>16 DEF HandleDeleteItem, RemoveItemFromQueue, TypeOK, Statuses
<1>17. CASE UNCHANGED vars
  BY <1>1, <1>17 DEF vars, list, TypeOK, Statuses
<1>18. CASE User
  BY <1>8, <1>9, <1>10, <1>12, <1>13, <1>14, <1>15, <1>16, <1>18 DEF User
<1> QED
  BY <1>4, <1>5, <1>6, <1>7, <1>17, <1>18 DEF Next

\* The queues, the dialog's copy of them and the list have their types: no two queues have
\* one id whatever the dialog does to its copy and whenever it saves it, Main is always
\* there, and the list has each item once however the dialog orders a queue.
THEOREM QueuesTypeCorrect == Spec => []TypeOK
<1>1. Init => TypeOK
  <2> SUFFICES ASSUME Init PROVE TypeOK
    OBVIOUS
  <2>1. PICK n \in 1..Cardinality(Id) : queues \in [1..n -> QueueConfig]
    BY DEF Init
  <2>2. n \in Nat /\ n >= 1
    BY FS_CardinalityType, QueueAssumption
  <2>3. queues \in Seq(QueueConfig) /\ Len(queues) = n /\ DOMAIN queues = 1..n
    BY <2>1, <2>2
  <2>4. IdsDiffer(queues)
    BY <2>3 DEF IdsDiffer, Init
  <2>5. Main \in Ids(queues)
    BY <2>2, <2>3 DEF Ids, Init
  <2>6. QueueList(queues)
    BY <2>3, <2>4, <2>5, IdsCounted DEF QueueList
  <2> QED
    BY <2>6, QueueAssumption DEF Init, TypeOK, Minute
<1>2. TypeOK /\ [Next]_vars => TypeOK'
  BY QueueAssumption, TypeStep
<1> QED
  BY <1>1, <1>2, PTL DEF Spec
-----------------------------------------------------------------------------
(***************************************************************************)
(* An idle queue stays idle.                                               *)
(***************************************************************************)

\* The name of an idle queue that may not start is that of no queue that may run.
LEMMA IdleMayNotRun ==
  ASSUME TypeOK, NEW k \in DOMAIN queues, Idle(queues[k]), ~MayStart(queues[k]),
         NEW l \in DOMAIN queues, queues[l].name = queues[k].name
  PROVE  ~MayRun(l)
<1>1. queues \in Seq(QueueConfig) /\ DOMAIN queues = 1..Len(queues) /\ IdsDiffer(queues)
  <2>1. QueueList(queues)
    BY DEF TypeOK
  <2> QED
    BY <2>1, IdsCounted DEF QueueList
<1>2. ~queues[l].isRunning
  BY DEF Idle
<1>3. ASSUME NEW m \in 1..Len(queues), Starts(queues[m]),
             queues[m].id = queues[l].id \/ queues[m].name = queues[l].name
      PROVE  FALSE
  <2>1. queues[m].name = queues[k].name
    BY <1>1, <1>3 DEF IdsDiffer
  <2>2. queues[m].start = minute /\ <<queues[m].id, "start", minute>> \notin triggered
    BY <1>3 DEF Starts
  <2> QED
    BY <2>1, <2>2, <1>1 DEF MayStart
<1> QED
  BY <1>2, <1>3 DEF MayRun

\* A call that neither runs a queue of that name nor starts an item of it leaves it idle.
LEMMA BecomesIdle ==
  ASSUME TypeOK, NEW k \in DOMAIN queues, NEW x \in Windows, SameQueues(x.queues, queues),
         \A l \in DOMAIN queues : queues[l].name = queues[k].name => ~x.queues[l].isRunning,
         \A i \in Item : InQueue(i, queues[k]) => x.status[i] # "Downloading",
         Becomes(x), queueOf' = queueOf
  PROVE  Idle(queues[k])'
<1>1. queues \in Seq(QueueConfig) /\ DOMAIN queues = 1..Len(queues)
  BY DEF TypeOK, QueueList
<1>2. /\ queues' = x.queues /\ status' = x.status /\ DOMAIN queues' = 1..Len(queues)
      /\ \A l \in 1..Len(queues) : queues'[l].name = queues[l].name
  BY <1>1 DEF Becomes, SameQueues, Windows
<1> QED
  BY <1>1, <1>2 DEF Idle, InQueue

\* Every step keeps an idle queue idle, unless it is a command or its time has come.
LEMMA IdleStep ==
  ASSUME QueueAssumption, TypeOK, [Next]_vars,
         NEW k \in DOMAIN queues, Idle(queues[k]), ~MayStart(queues[k]), commands' = commands
  PROVE  Idle(queues[k])'
<1> DEFINE q == queues[k]
<1>1. /\ queues \in Seq(QueueConfig) /\ DOMAIN queues = 1..Len(queues)
      /\ status \in [Item -> Statuses] /\ commands \in Nat /\ DOMAIN order \in SUBSET Nat
  BY DEF TypeOK, QueueList, Statuses, SetToSeqs
<1>2. /\ \A l \in DOMAIN queues : queues[l].name = q.name => ~queues[l].isRunning
      /\ \A i \in Item : InQueue(i, q) => status[i] # "Downloading"
  BY DEF Idle
<1>3. \A i \in Item : InQueue(i, q) => queueOf[i] # NoName
  <2>1. q \in QueueConfig
    BY <1>1
  <2>2. q.name \in Name
    BY <2>1 DEF QueueConfig
  <2> QED
    BY <2>2, QueueAssumption DEF InQueue
<1>4. \A i \in Item : \A l \in DOMAIN queues :
        InQueue(i, q) /\ InQueue(i, queues[l]) => queues[l].name = q.name
  BY DEF InQueue
<1>5. CASE CheckScheduler
  <2> DEFINE w == Triggers
             x == IF HasWork(queues, w.status) THEN DispatchQueueWorkers(w) ELSE w
  <2>1. /\ x \in Windows /\ SameQueues(x.queues, queues)
        /\ \A l \in 1..Len(queues) : x.queues[l].isRunning => MayRun(l)
        /\ \A i \in Item : x.status[i] = "Downloading" =>
             \/ status[i] = "Downloading"
             \/ \E l \in 1..Len(queues) : MayRun(l) /\ InQueue(i, queues[l])
             \/ queueOf[i] = NoName
    BY <1>1, SchedulerChecked
  <2>2. Becomes(x) /\ queueOf' = queueOf
    BY <1>5 DEF CheckScheduler
  <2> HIDE DEF x
  <2>3. \A l \in DOMAIN queues : queues[l].name = q.name => ~MayRun(l)
    BY IdleMayNotRun
  <2>4. \A l \in DOMAIN queues : queues[l].name = q.name => ~x.queues[l].isRunning
    BY <1>1, <2>1, <2>3
  <2>5. \A i \in Item : InQueue(i, q) => x.status[i] # "Downloading"
    BY <1>1, <1>2, <1>3, <1>4, <2>1, <2>3
  <2> QED
    BY <2>1, <2>2, <2>4, <2>5, BecomesIdle
<1>6. CASE Dispatch
  <2> DEFINE x == DispatchQueueWorkers(Window)
  <2>1. Window \in Windows /\ Window.queues = queues /\ Window.status = status
    BY <1>1 DEF Window, Windows
  <2>2. /\ x \in Windows /\ SameQueues(x.queues, queues)
        /\ \A l \in 1..Len(queues) : x.queues[l].isRunning => queues[l].isRunning
        /\ \A i \in Item : x.status[i] = "Downloading" =>
             \/ status[i] = "Downloading"
             \/ \E l \in 1..Len(queues) : queues[l].isRunning /\ InQueue(i, queues[l])
             \/ queueOf[i] = NoName
    BY <1>1, <2>1, WorkersDispatched
  <2>3. Becomes(x) /\ queueOf' = queueOf
    BY <1>6 DEF Dispatch
  <2> HIDE DEF x
  <2>4. \A l \in DOMAIN queues : queues[l].name = q.name => ~x.queues[l].isRunning
    BY <1>1, <1>2, <2>2
  <2>5. \A i \in Item : InQueue(i, q) => x.status[i] # "Downloading"
    BY <1>1, <1>2, <1>3, <1>4, <2>2
  <2> QED
    BY <2>2, <2>3, <2>4, <2>5, BecomesIdle
<1>7. ASSUME NEW i \in Item, ItemFinishes(i) PROVE Idle(queues[k])'
  BY <1>1, <1>2, <1>7 DEF ItemFinishes, Idle, InQueue
<1>8. CASE MinutePasses \/ OpenModal \/ CloseModal \/ UNCHANGED vars
  BY <1>2, <1>8 DEF MinutePasses, OpenModal, CloseModal, vars, list, Idle, InQueue
<1>9. ~Command
  BY <1>1 DEF Command
<1>10. User => OpenModal \/ CloseModal
  BY <1>9 DEF User, MenuStart, MenuStop, SetItemQueue, HandleSave, HandleCreateQueue,
              HandleDeleteSelectedQueue, HandleUpdate, HandleMoveItem, HandleDeleteItem, Edit
<1> QED
  BY <1>5, <1>6, <1>7, <1>8, <1>10 DEF Next

\* Neither a tick of the schedule, nor a dispatch, nor opening or closing the dialog runs
\* a queue that stands still, or starts an item of it, before the start time of a queue of
\* its name; nor again within the minute of a start that has happened.
THEOREM IdleQueuesStayIdle == Spec => IdleStaysIdle
<1>1. TypeOK /\ [Next]_vars =>
        [\A k \in DOMAIN queues :
           Idle(queues[k]) /\ ~MayStart(queues[k]) /\ commands' = commands
             => Idle(queues[k])']_vars
  BY QueueAssumption, IdleStep
<1> QED
  BY <1>1, QueuesTypeCorrect, PTL DEF Spec, IdleStaysIdle
-----------------------------------------------------------------------------
(***************************************************************************)
(* One item of a queue at a time.                                          *)
(***************************************************************************)

\* Every step starts an item only if no other of its queue runs.
LEMMA OneStep ==
  ASSUME TypeOK, [Next]_vars
  PROVE  NoSecond(status', status)
<1>1. /\ queues \in Seq(QueueConfig) /\ DOMAIN queues = 1..Len(queues)
      /\ status \in [Item -> Statuses] /\ DOMAIN order \in SUBSET Nat
  BY DEF TypeOK, QueueList, Statuses, SetToSeqs
<1>2. Window \in Windows /\ Window.queues = queues /\ Window.status = status
  BY <1>1 DEF Window, Windows
<1>3. CASE status' = status
  BY <1>3 DEF NoSecond
<1>4. CASE CheckScheduler
  <2> DEFINE w == Triggers
             x == IF HasWork(queues, w.status) THEN DispatchQueueWorkers(w) ELSE w
  <2>1. NoSecond(x.status, status)
    BY <1>1, SchedulerChecked
  <2>2. status' = x.status
    BY <1>4 DEF CheckScheduler, Becomes
  <2> HIDE DEF x
  <2> QED
    BY <2>1, <2>2
<1>5. CASE Dispatch
  <2>1. NoSecond(DispatchQueueWorkers(Window).status, status)
    BY <1>1, <1>2, WorkersDispatched
  <2>2. status' = DispatchQueueWorkers(Window).status
    BY <1>5 DEF Dispatch, Becomes
  <2> QED
    BY <2>1, <2>2
<1>6. ASSUME NEW i \in Item, ItemFinishes(i) PROVE NoSecond(status', status)
  BY <1>1, <1>6 DEF ItemFinishes, NoSecond
<1>7. ASSUME NEW k \in DOMAIN queues, MenuStart(k) \/ MenuStop(k)
      PROVE  NoSecond(status', status)
  <2>1. PICK x \in Switched(Window, queues[k]) : status' = x.status
    BY <1>2, <1>7, QueueSwitched DEF MenuStart, MenuStop, Becomes
  <2> QED
    BY <1>2, <2>1 DEF Switched, NoSecond
<1>8. User => status' = status \/ \E k \in DOMAIN queues : MenuStart(k) \/ MenuStop(k)
  BY DEF User, SetItemQueue, OpenModal, CloseModal, HandleSave, HandleCreateQueue,
         HandleDeleteSelectedQueue, HandleUpdate, HandleMoveItem, HandleDeleteItem, Edit, list
<1>9. MinutePasses \/ UNCHANGED vars => status' = status
  BY DEF MinutePasses, vars, list
<1> QED
  BY <1>3, <1>4, <1>5, <1>6, <1>7, <1>8, <1>9 DEF Next

\* The dispatcher keeps to one item of a queue at a time, in the order of the list, however
\* many queues have one name and whatever the user starts, stops, moves and orders meanwhile.
THEOREM QueueRunsOne == Spec => OneAtATime
<1>1. TypeOK /\ [Next]_vars =>
        [\A i, j \in Item :
           /\ i # j /\ queueOf[i] = queueOf[j] /\ queueOf[i] # NoName
           /\ status'[i] = "Downloading" /\ status'[j] = "Downloading"
           => status[i] = "Downloading" /\ status[j] = "Downloading"]_vars
  BY OneStep DEF NoSecond
<1> QED
  BY <1>1, QueuesTypeCorrect, PTL DEF Spec, OneAtATime
=============================================================================
