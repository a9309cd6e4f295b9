--------------------------- MODULE RecursionLemmas ---------------------------
(***************************************************************************)
(* Induction over the natural numbers, functions defined by recursion on   *)
(* them, and sequences of which they are made: what the proofs about the   *)
(* codecs need, stated without operators as parameters.                    *)
(***************************************************************************)
EXTENDS Decimals, SequencesExt, WellFoundedInduction, TLAPS

Less == {ss \in Nat \X Nat : ss[1] < ss[2]}

\* The order of the natural numbers is well founded.
LEMMA LessWellFounded == IsWellFoundedOn(Less, Nat)
  BY NatLessThanWellFounded DEF OpToRel, Less

\* Less is the order.
LEMMA InLess == \A m, n \in Nat : m < n <=> <<m, n>> \in Less
  BY DEF Less

\* A set of natural numbers that is not empty has a least element.
LEMMA LeastElement ==
  ASSUME NEW T \in SUBSET Nat, T # {}
  PROVE  \E n \in T : \A m \in T : n <= m
  <1>1. PICK n \in T : \A m \in T : ~ (<<m, n>> \in Less)
    <2>1. IsWellFoundedOn(Less, T)
      BY LessWellFounded, IsWellFoundedOnSubset
    <2> QED
      BY <2>1, WFMin, Zenon
  <1>2. \A m \in T : ~ (m < n)
    BY <1>1, InLess
  <1> QED
    BY <1>2

\* Induction over a set of natural numbers.
LEMMA Induction ==
  ASSUME NEW S, 0 \in S, \A n \in Nat : n \in S => n + 1 \in S
  PROVE  \A n \in Nat : n \in S
  <1> DEFINE T == Nat \ S
  <1> SUFFICES ASSUME T # {} PROVE FALSE
    OBVIOUS
  <1>1. PICK n \in T : \A m \in T : n <= m
    <2> HIDE DEF T
    <2>1. T \in SUBSET Nat
      BY DEF T
    <2> QED
      BY <2>1, LeastElement
  <1>2. n - 1 \in Nat /\ n - 1 < n /\ n = (n - 1) + 1
    BY <1>1
  <1> QED
    BY <1>1, <1>2

\* Induction with all smaller numbers as the hypothesis.
LEMMA StrongInduction ==
  ASSUME NEW S, \A n \in Nat : (\A m \in 0 .. n - 1 : m \in S) => n \in S
  PROVE  \A n \in Nat : n \in S
  <1> DEFINE T == Nat \ S
  <1> SUFFICES ASSUME T # {} PROVE FALSE
    OBVIOUS
  <1>1. PICK n \in T : \A m \in T : n <= m
    <2> HIDE DEF T
    <2>1. T \in SUBSET Nat
      BY DEF T
    <2> QED
      BY <2>1, LeastElement
  <1>2. \A m \in 0 .. n - 1 : m \in S
    BY <1>1
  <1> QED
    BY <1>1, <1>2

\* Induction up to a bound.
LEMMA BoundedInduction ==
  ASSUME NEW N \in Nat, NEW S, 0 \in S, \A n \in 0 .. N - 1 : n \in S => n + 1 \in S
  PROVE  \A n \in 0 .. N : n \in S
  <1> DEFINE T == {n \in Nat : n <= N => n \in S}
  <1>1. 0 \in T
    OBVIOUS
  <1>2. \A n \in Nat : n \in T => n + 1 \in T
    OBVIOUS
  <1>3. \A n \in Nat : n \in T
    <2> HIDE DEF T
    <2> QED
      BY <1>1, <1>2, Induction
  <1> QED
    BY <1>3

\* Induction from a bound down to zero.
LEMMA DownwardInduction ==
  ASSUME NEW N \in Nat, NEW S, N \in S, \A n \in 0 .. N - 1 : n + 1 \in S => n \in S
  PROVE  \A n \in 0 .. N : n \in S
  <1> DEFINE T == {n \in Nat : n <= N => N - n \in S}
  <1>1. 0 \in T
    OBVIOUS
  <1>2. ASSUME NEW n \in Nat, n \in T
        PROVE  n + 1 \in T
    <2> SUFFICES ASSUME n + 1 <= N
                 PROVE  N - (n + 1) \in S
      OBVIOUS
    <2>1. N - n \in S /\ N - (n + 1) \in 0 .. N - 1 /\ (N - (n + 1)) + 1 = N - n
      BY <1>2
    <2> QED
      BY <2>1
  <1>3. \A n \in Nat : n \in T
    <2> HIDE DEF T
    <2> QED
      BY <1>1, <1>2, Induction
  <1>4. ASSUME NEW n \in 0 .. N
        PROVE  n \in S
    <2>1. N - n \in T /\ N - (N - n) = n
      BY <1>3
    <2> QED
      BY <2>1
  <1> QED
    BY <1>4

\* What a function with values in V is made of: base gives its values in B,
\* and step[n] makes the value for n from the value for prev[n].
Recursive(V, B, base, prev, step) ==
  /\ B \subseteq Nat /\ base \in [Nat -> V]
  /\ prev \in [Nat -> Nat] /\ step \in [Nat -> [V -> V]]
  /\ \A n \in Nat \ B : prev[n] < n

IsRecursion(V, B, base, prev, step, f) ==
  /\ f \in [Nat -> V]
  /\ \A n \in Nat : f[n] = IF n \in B THEN base[n] ELSE step[n][f[prev[n]]]

\* A function of the natural numbers whose values outside B are made from
\* its value for a smaller number.
LEMMA Recursion ==
  ASSUME NEW V, NEW B, NEW base, NEW prev, NEW step, Recursive(V, B, base, prev, step)
  PROVE  \E f : IsRecursion(V, B, base, prev, step, f)
  <1> USE DEF Recursive
  <1> DEFINE Rec(g, m) == g[m] = IF m \in B THEN base[m] ELSE step[m][g[prev[m]]]
             Part(n) == {g \in [0 .. n -> V] : \A m \in 0 .. n : Rec(g, m)}
  <1>1. ASSUME NEW n \in Nat, NEW g \in Part(n), NEW m \in 0 .. n \ B
        PROVE  prev[m] \in 0 .. m - 1 /\ g[prev[m]] \in V
    OBVIOUS
  <1>2. \A n \in Nat : \E g : g \in Part(n)
    <2> DEFINE S == {n \in Nat : \E g : g \in Part(n)}
    <2>1. 0 \in S
      <3> DEFINE g == [m \in 0 .. 0 |-> base[0]]
      <3>1. 0 \in B
        OBVIOUS
      <3>2. \A m \in 0 .. 0 : m = 0
        OBVIOUS
      <3>3. g \in Part(0)
        BY <3>1, <3>2
      <3> QED
        BY <3>3
    <2>2. ASSUME NEW n \in Nat, n \in S
          PROVE  n + 1 \in S
      <3>1. PICK g : g \in Part(n)
        BY <2>2
      <3> DEFINE last == IF n + 1 \in B THEN base[n + 1] ELSE step[n + 1][g[prev[n + 1]]]
                 h == [m \in 0 .. n + 1 |-> IF m = n + 1 THEN last ELSE g[m]]
      <3>2. n + 1 \notin B => prev[n + 1] \in 0 .. n /\ g[prev[n + 1]] \in V
        BY <3>1
      <3>3. last \in V
        BY <3>2
      <3>4. h \in [0 .. n + 1 -> V]
        <4> HIDE DEF last
        <4> QED
          BY <3>1, <3>3
      <3>5. \A m \in 0 .. n : h[m] = g[m]
        OBVIOUS
      <3>6. ASSUME NEW m \in 0 .. n
            PROVE  Rec(h, m)
        <4>1. m \notin B => prev[m] \in 0 .. n
          OBVIOUS
        <4>2. Rec(g, m)
          BY <3>1
        <4> HIDE DEF h
        <4> QED
          BY <3>5, <4>1, <4>2
      <3>7. Rec(h, n + 1)
        <4>1. h[n + 1] = last
          OBVIOUS
        <4> HIDE DEF h
        <4> QED
          BY <3>2, <3>5, <4>1
      <3>8. h \in Part(n + 1)
        <4>1. \A m \in 0 .. n + 1 : m \in 0 .. n \/ m = n + 1
          OBVIOUS
        <4> HIDE DEF h, Rec
        <4> QED
          BY <3>4, <3>6, <3>7, <4>1
      <3>9. n + 1 \in Nat /\ \E g2 : g2 \in Part(n + 1)
        <4> HIDE DEF Part, h
        <4> QED
          BY <3>8
      <3> QED
        BY <3>9
    <2>3. \A n \in Nat : n \in S
      <3> HIDE DEF S
      <3> QED
        BY <2>1, <2>2, Induction
    <2> QED
      BY <2>3
  <1>3. ASSUME NEW n \in Nat, NEW m \in 0 .. n, NEW g \in Part(n), NEW h \in Part(m)
        PROVE  \A j \in 0 .. m : g[j] = h[j]
    <2> DEFINE S == {j \in Nat : j <= m => g[j] = h[j]}
    <2>1. ASSUME NEW j \in Nat, \A i \in 0 .. j - 1 : i \in S
          PROVE  j \in S
      <3> SUFFICES ASSUME j <= m
                   PROVE  g[j] = h[j]
        OBVIOUS
      <3>1. Rec(g, j) /\ Rec(h, j)
        BY SMTT(60)
      <3>2. j \notin B => g[prev[j]] = h[prev[j]]
        <4> SUFFICES ASSUME j \notin B
                     PROVE  g[prev[j]] = h[prev[j]]
          OBVIOUS
        <4>1. prev[j] \in 0 .. j - 1 /\ prev[j] <= m
          BY SMTT(60)
        <4> QED
          BY <2>1, <4>1
      <3> QED
        BY <3>1, <3>2
    <2>2. \A j \in Nat : j \in S
      <3> HIDE DEF S
      <3> QED
        BY <2>1, StrongInduction
    <2> QED
      BY <2>2
  <1> DEFINE part(n) == CHOOSE g : g \in Part(n)
             f == [n \in Nat |-> part(n)[n]]
  <1>4. \A n \in Nat : part(n) \in Part(n)
    <2> HIDE DEF Part
    <2> QED
      BY <1>2
  <1>5. f \in [Nat -> V]
    <2>1. \A n \in Nat : part(n) \in [0 .. n -> V]
      <3> HIDE DEF part
      <3> QED
        BY <1>4
    <2> HIDE DEF part, Part
    <2>2. \A n \in Nat : part(n)[n] \in V
      BY <2>1
    <2> QED
      BY <2>2
  <1>6. ASSUME NEW n \in Nat
        PROVE  f[n] = IF n \in B THEN base[n] ELSE step[n][f[prev[n]]]
    <2> HIDE DEF part
    <2>1. PICK g \in Part(n) : g = part(n)
      <3> HIDE DEF Part
      <3> QED
        BY <1>4
    <2>2. f[n] = g[n] /\ Rec(g, n)
      BY <2>1
    <2>3. n \notin B => f[prev[n]] = g[prev[n]]
      <3> SUFFICES ASSUME n \notin B
                   PROVE  f[prev[n]] = g[prev[n]]
        OBVIOUS
      <3>1. PICK m \in 0 .. n : m = prev[n]
        OBVIOUS
      <3>2. PICK h \in Part(m) : h = part(m)
        <4> HIDE DEF Part
        <4> QED
          BY <1>4
      <3>3. g[m] = h[m]
        <4> HIDE DEF Part
        <4> QED
          BY <1>3, <3>2
      <3> QED
        BY <3>1, <3>2, <3>3
    <2> HIDE DEF f
    <2> QED
      BY <2>2, <2>3
  <1> QED
    <2> HIDE DEF f
    <2> QED
      BY <1>5, <1>6 DEF IsRecursion

\* What is made of the elements of V that step[1], step[2], ... give.
Steps(N, V, step) == step \in [1 .. N -> [V -> V]]

IsAccumulation(N, V, e, step, f) ==
  /\ f \in [0 .. N -> V]
  /\ f[0] = e
  /\ \A n \in 1 .. N : f[n] = step[n][f[n - 1]]

\* A function of the numbers up to a bound, each value made from the last.
LEMMA Accumulation ==
  ASSUME NEW V, NEW N \in Nat, NEW e \in V, NEW step, Steps(N, V, step)
  PROVE  \E f : IsAccumulation(N, V, e, step, f)
  <1> USE DEF Steps
  <1> DEFINE base == [n \in Nat |-> e]
             prev == [n \in Nat |-> IF n = 0 THEN 0 ELSE n - 1]
             next == [n \in Nat |-> [v \in V |-> IF n \in 1 .. N THEN step[n][v] ELSE v]]
             zero == {0}
  <1>1. Recursive(V, zero, base, prev, next)
    BY DEF Recursive
  <1>2. PICK g : IsRecursion(V, zero, base, prev, next, g)
    <2> HIDE DEF base, prev, next, zero
    <2> QED
      BY <1>1, Recursion, Zenon
  <1>3. g \in [Nat -> V] /\ g[0] = e
    BY <1>2 DEF IsRecursion
  <1>4. ASSUME NEW n \in 1 .. N
        PROVE  g[n] = step[n][g[n - 1]]
    <2>1. g[n] = next[n][g[n - 1]] /\ g[n - 1] \in V
      BY <1>2 DEF IsRecursion
    <2> QED
      BY <2>1
  <1>5. PICK f : f = [n \in 0 .. N |-> g[n]]
    OBVIOUS
  <1>6. IsAccumulation(N, V, e, step, f)
    BY <1>3, <1>4, <1>5 DEF IsAccumulation
  <1> QED
    BY <1>6, Zenon

-----------------------------------------------------------------------------
(* Sequences put together *)

\* A sequence after its first k elements.
LEMMA Behind ==
  ASSUME NEW X, NEW s \in Seq(X), NEW k \in Nat, NEW m \in Nat, Len(s) = k + m
  PROVE  /\ SubSeq(s, k + 1, k + m) \in Seq(X)
         /\ Len(SubSeq(s, k + 1, k + m)) = m
         /\ \A i \in 1 .. m : SubSeq(s, k + 1, k + m)[i] = s[k + i]
  <1>1. PICK r : r = SubSeq(s, k + 1, k + m)
    OBVIOUS
  <1>2. (k + m) - (k + 1) + 1 = m
    OBVIOUS
  <1>3. r = [i \in 1 .. (k + m) - (k + 1) + 1 |-> s[i + (k + 1) - 1]]
    BY <1>1
  <1>4. ASSUME NEW i \in 1 .. m
        PROVE  i + (k + 1) - 1 = k + i /\ s[k + i] \in X
    <2>1. k + i \in 1 .. Len(s)
      OBVIOUS
    <2> QED
      BY <2>1
  <1>5. r = [i \in 1 .. m |-> s[k + i]]
    BY <1>2, <1>3, <1>4
  <1>6. r \in Seq(X) /\ Len(r) = m
    BY <1>4, <1>5
  <1>7. \A i \in 1 .. m : r[i] = s[k + i]
    BY <1>5
  <1> QED
    BY <1>1, <1>6, <1>7

\* Sequences with the same elements are equal.
LEMMA SameSequence ==
  ASSUME NEW X, NEW s \in Seq(X), NEW t \in Seq(X), Len(s) = Len(t),
         \A i \in 1 .. Len(s) : s[i] = t[i]
  PROVE  s = t
  OBVIOUS

\* Two sequences put together.
LEMMA Joined ==
  ASSUME NEW X, NEW s \in Seq(X), NEW t \in Seq(X)
  PROVE  /\ s \o t \in Seq(X)
         /\ Len(s \o t) = Len(s) + Len(t)
         /\ \A i \in 1 .. Len(s) : (s \o t)[i] = s[i]
         /\ \A i \in 1 .. Len(t) : (s \o t)[Len(s) + i] = t[i]
  OBVIOUS

\* The second is what is behind the first.
LEMMA BehindFirst ==
  ASSUME NEW X, NEW s \in Seq(X), NEW t \in Seq(X)
  PROVE  SubSeq(s \o t, Len(s) + 1, Len(s \o t)) = t
  <1>1. PICK k \in Nat, m \in Nat : k = Len(s) /\ m = Len(t)
    OBVIOUS
  <1>2. PICK u : u = s \o t
    OBVIOUS
  <1>3. u \in Seq(X) /\ Len(u) = k + m /\ \A i \in 1 .. m : u[k + i] = t[i]
    BY <1>1, <1>2, Joined
  <1>4. PICK v : v = SubSeq(u, k + 1, k + m)
    OBVIOUS
  <1>5. v \in Seq(X) /\ Len(v) = m /\ \A i \in 1 .. m : v[i] = u[k + i]
    <2>1. \A q \in Seq(X) : Len(q) = k + m =>
             /\ SubSeq(q, k + 1, k + m) \in Seq(X)
             /\ Len(SubSeq(q, k + 1, k + m)) = m
             /\ \A i \in 1 .. m : SubSeq(q, k + 1, k + m)[i] = q[k + i]
      BY Behind, ZenonT(60)
    <2> QED
      BY <1>3, <1>4, <2>1, Zenon
  <1>6. v = t
    BY <1>1, <1>3, <1>5, SameSequence
  <1> QED
    BY <1>1, <1>2, <1>3, <1>4, <1>6

\* The first is what is in front of the second.
LEMMA InFront ==
  ASSUME NEW X, NEW s \in Seq(X), NEW t \in Seq(X)
  PROVE  SubSeq(s \o t, 1, Len(s)) = s
  <1>1. PICK k \in Nat : k = Len(s)
    OBVIOUS
  <1>2. PICK u : u = s \o t
    OBVIOUS
  <1>3. u \in Seq(X) /\ k <= Len(u) /\ \A i \in 1 .. k : u[i] = s[i]
    BY <1>1, <1>2, Joined
  <1>4. PICK v : v = SubSeq(u, 1, k)
    OBVIOUS
  <1>5. v \in Seq(X) /\ Len(v) = k /\ \A i \in 1 .. k : v[i] = u[i]
    BY <1>3, <1>4
  <1>6. v = s
    BY <1>1, <1>3, <1>5, SameSequence
  <1> QED
    BY <1>1, <1>2, <1>4, <1>6

Cat(a, b) == a \o b

\* Cat on V, with e for the sequence without elements.
Monoid(V, e) ==
  /\ e \in V
  /\ \A a, b \in V : Cat(a, b) \in V
  /\ \A a, b, c \in V : Cat(Cat(a, b), c) = Cat(a, Cat(b, c))
  /\ \A a \in V : Cat(a, e) = a /\ Cat(e, a) = a

\* Concatenation is associative, and the empty sequence is neutral.
LEMMA Concatenation ==
  ASSUME NEW X
  PROVE  Monoid(Seq(X), <<>>)
  BY DEF Monoid, Cat

\* A sequence of sequences put together from its first element on, and from
\* its last.
Beginnings(V, e, N, ss, pre) ==
  /\ pre \in [0 .. N -> V]
  /\ pre[0] = e
  /\ \A k \in 1 .. N : pre[k] = Cat(pre[k - 1], ss[k])

Ends(V, e, N, ss, suf) ==
  /\ suf \in [0 .. N -> V]
  /\ suf[N] = e
  /\ \A k \in 1 .. N : suf[k - 1] = Cat(ss[k], suf[k])

\* There are both.
LEMMA BeginningsExist ==
  ASSUME NEW V, NEW e, Monoid(V, e), NEW N \in Nat, NEW ss \in [1 .. N -> V]
  PROVE  \E pre : Beginnings(V, e, N, ss, pre)
  <1> DEFINE step == [k \in 1 .. N |-> [v \in V |-> Cat(v, ss[k])]]
  <1>1. Steps(N, V, step) /\ e \in V
    BY DEF Steps, Monoid
  <1>2. PICK f : IsAccumulation(N, V, e, step, f)
    <2> HIDE DEF step
    <2> QED
      BY <1>1, Accumulation, Zenon
  <1>3. \A k \in 1 .. N, v \in V : step[k][v] = Cat(v, ss[k])
    OBVIOUS
  <1>4. Beginnings(V, e, N, ss, f)
    <2> HIDE DEF step
    <2>1. \A k \in 1 .. N : f[k - 1] \in V /\ f[k] = step[k][f[k - 1]]
      BY <1>2 DEF IsAccumulation
    <2> QED
      BY <1>2, <1>3, <2>1 DEF IsAccumulation, Beginnings
  <1> QED
    BY <1>4, Zenon

\* The same from the other side.
LEMMA EndsExist ==
  ASSUME NEW V, NEW e, Monoid(V, e), NEW N \in Nat, NEW ss \in [1 .. N -> V]
  PROVE  \E suf : Ends(V, e, N, ss, suf)
  <1> DEFINE step == [k \in 1 .. N |-> [v \in V |-> Cat(ss[N - k + 1], v)]]
  <1>1. Steps(N, V, step) /\ e \in V
    BY DEF Steps, Monoid
  <1>2. PICK f : IsAccumulation(N, V, e, step, f)
    <2> HIDE DEF step
    <2> QED
      BY <1>1, Accumulation, Zenon
  <1>3. PICK suf : suf = [k \in 0 .. N |-> f[N - k]]
    OBVIOUS
  <1>4. suf \in [0 .. N -> V] /\ suf[N] = e
    BY <1>2, <1>3 DEF IsAccumulation
  <1>5. ASSUME NEW k \in 1 .. N
        PROVE  suf[k - 1] = Cat(ss[k], suf[k])
    <2>1. PICK m \in 1 .. N : m = N - k + 1
      OBVIOUS
    <2>2. suf[k - 1] = f[m] /\ suf[k] = f[m - 1] /\ N - m + 1 = k
      BY <1>3, <2>1
    <2>3. \A v \in V : step[m][v] = Cat(ss[N - m + 1], v)
      OBVIOUS
    <2>4. f[m] = Cat(ss[N - m + 1], f[m - 1])
      <3> HIDE DEF step
      <3>1. f[m - 1] \in V /\ f[m] = step[m][f[m - 1]]
        BY <1>2 DEF IsAccumulation
      <3> QED
        BY <2>3, <3>1
    <2> QED
      BY <2>2, <2>4
  <1>6. Ends(V, e, N, ss, suf)
    BY <1>4, <1>5 DEF Ends
  <1> QED
    BY <1>6, Zenon

\* What is put together up to an element and what is after it is the whole.
LEMMA Meeting ==
  ASSUME NEW V, NEW e, Monoid(V, e), NEW N \in Nat, NEW ss \in [1 .. N -> V],
         NEW pre, NEW suf, Beginnings(V, e, N, ss, pre), Ends(V, e, N, ss, suf)
  PROVE  suf[0] = pre[N]
  <1> USE DEF Beginnings, Ends
  <1> DEFINE S == {k \in 0 .. N : Cat(pre[k], suf[k]) = pre[N]}
  <1>1. N \in S
    BY DEF Monoid
  <1>2. ASSUME NEW n \in 0 .. N - 1, n + 1 \in S
        PROVE  n \in S
    <2>1. PICK m \in 1 .. N : m = n + 1
      OBVIOUS
    <2>2. /\ ss[m] \in V /\ pre[n] \in V /\ suf[m] \in V
          /\ pre[m] = Cat(pre[n], ss[m]) /\ suf[n] = Cat(ss[m], suf[m])
      BY <2>1
    <2>3. Cat(pre[m], suf[m]) = pre[N]
      BY <1>2, <2>1
    <2>4. Cat(Cat(pre[n], ss[m]), suf[m]) = Cat(pre[n], Cat(ss[m], suf[m]))
      BY <2>2 DEF Monoid
    <2> QED
      BY <2>2, <2>3, <2>4
  <1>3. \A n \in 0 .. N : n \in S
    <2> HIDE DEF S
    <2> QED
      BY <1>1, <1>2, DownwardInduction
  <1> QED
    BY <1>3 DEF Monoid

\* FlattenSeq puts together from the first element on.
LEMMA FlattenIsPut ==
  ASSUME NEW X, NEW N \in Nat, NEW ss \in [1 .. N -> Seq(X)],
         NEW pre, Beginnings(Seq(X), <<>>, N, ss, pre)
  PROVE  FlattenSeq(ss) = pre[N]
  <1>0. Len(ss) = N
    OBVIOUS
  <1>1. CASE N = 0
    <2>1. ss = <<>> /\ pre[0] = <<>>
      BY <1>1 DEF Beginnings
    <2> QED
      BY <1>0, <1>1, <2>1 DEF FlattenSeq
  <1>2. CASE N # 0
    <2> DEFINE Rec(h) == h = [i \in 1 .. N |-> IF i = 1 THEN ss[i] ELSE h[i - 1] \o ss[i]]
    <2> HIDE DEF Rec
    <2>1. PICK V, e : V = Seq(X) /\ e = <<>>
      OBVIOUS
    <2>2. Monoid(V, e) /\ Beginnings(V, e, N, ss, pre) /\ ss \in [1 .. N -> V]
      BY <2>1, Concatenation
    <2>3. pre[1] = ss[1]
      BY <1>2, <2>2 DEF Monoid, Beginnings
    <2>4. \A i \in 1 .. N : pre[i] = IF i = 1 THEN ss[i] ELSE Cat(pre[i - 1], ss[i])
      BY <2>2, <2>3 DEF Beginnings
    <2>5. PICK p : p = [i \in 1 .. N |-> pre[i]]
      OBVIOUS
    <2>6. Rec(p)
      <3>1. \A i \in 1 .. N : p[i] = IF i = 1 THEN ss[i] ELSE Cat(p[i - 1], ss[i])
        <4>1. \A i \in 1 .. N : i # 1 => p[i - 1] = pre[i - 1]
          BY <2>5
        <4> QED
          BY <2>4, <2>5, <4>1
      <3>2. p = [i \in 1 .. N |-> p[i]]
        BY <2>5
      <3>3. p = [i \in 1 .. N |-> IF i = 1 THEN ss[i] ELSE Cat(p[i - 1], ss[i])]
        BY <3>1, <3>2
      <3> QED
        BY <3>3 DEF Rec, Cat
    <2>7. PICK h : h = (CHOOSE x : Rec(x))
      OBVIOUS
    <2>8. Rec(h)
      BY <2>6, <2>7
    <2>9. h = [i \in 1 .. N |-> IF i = 1 THEN ss[i] ELSE Cat(h[i - 1], ss[i])]
      BY <2>8 DEF Rec, Cat
    <2> DEFINE S == {i \in 0 .. N : i = 0 \/ h[i] = pre[i]}
    <2>10. 0 \in S
      OBVIOUS
    <2>11. ASSUME NEW n \in 0 .. N - 1, n \in S
          PROVE  n + 1 \in S
      <3>1. PICK i \in 1 .. N : i = n + 1
        OBVIOUS
      <3>2. h[i] = IF i = 1 THEN ss[i] ELSE Cat(h[i - 1], ss[i])
        BY <2>9
      <3>3. i # 1 => h[i - 1] = pre[i - 1]
        BY <2>11, <3>1
      <3>4. h[i] = pre[i]
        BY <2>4, <3>2, <3>3
      <3> QED
        BY <3>1, <3>4
    <2>12. \A i \in 0 .. N : i \in S
      <3> HIDE DEF S
      <3> QED
        BY <2>10, <2>11, BoundedInduction
    <2>13. FlattenSeq(ss) = h[N]
      BY <1>0, <1>2, <2>7 DEF FlattenSeq, Rec
    <2> QED
      BY <1>2, <2>12, <2>13
  <1> QED
    BY <1>1, <1>2

\* The beginnings and the ends of a sequence of sequences, flattened.
LEMMA Flattening ==
  ASSUME NEW X, NEW N \in Nat, NEW ss \in [1 .. N -> Seq(X)]
  PROVE  \E pre, suf : /\ Beginnings(Seq(X), <<>>, N, ss, pre)
                       /\ Ends(Seq(X), <<>>, N, ss, suf)
                       /\ FlattenSeq(ss) = pre[N] /\ FlattenSeq(ss) = suf[0]
  <1>1. PICK V, e : V = Seq(X) /\ e = <<>>
    OBVIOUS
  <1>2. Monoid(V, e) /\ ss \in [1 .. N -> V]
    BY <1>1, Concatenation
  <1>3. PICK pre : Beginnings(V, e, N, ss, pre)
    BY <1>2, BeginningsExist
  <1>4. PICK suf : Ends(V, e, N, ss, suf)
    BY <1>2, EndsExist
  <1>5. suf[0] = pre[N]
    BY <1>2, <1>3, <1>4, Meeting
  <1>6. FlattenSeq(ss) = pre[N]
    BY <1>1, <1>3, FlattenIsPut
  <1> QED
    BY <1>1, <1>3, <1>4, <1>5, <1>6, Zenon

\* tt is ss, of N sequences, with a behind them.
OneMore(N, ss, a, tt) == tt = [i \in 1 .. N + 1 |-> IF i = N + 1 THEN a ELSE ss[i]]

\* One sequence more.
LEMMA FlattenMore ==
  ASSUME NEW X, NEW N \in Nat, NEW ss \in [1 .. N -> Seq(X)], NEW a \in Seq(X),
         NEW tt, OneMore(N, ss, a, tt)
  PROVE  FlattenSeq(tt) = FlattenSeq(ss) \o a
  <1>1. PICK V, e : V = Seq(X) /\ e = <<>>
    OBVIOUS
  <1>2. Monoid(V, e) /\ ss \in [1 .. N -> V] /\ a \in V
    BY <1>1, Concatenation
  <1>3. N + 1 \in Nat /\ tt \in [1 .. N + 1 -> V]
    BY <1>2 DEF OneMore
  <1>4. PICK pre : Beginnings(V, e, N + 1, tt, pre)
    BY <1>2, <1>3, BeginningsExist
  <1>5. PICK part : part = [i \in 0 .. N |-> pre[i]]
    OBVIOUS
  <1>6. Beginnings(V, e, N, ss, part)
    <2>1. part \in [0 .. N -> V] /\ part[0] = e
      BY <1>4, <1>5 DEF Beginnings
    <2>2. ASSUME NEW k \in 1 .. N
          PROVE  part[k] = Cat(part[k - 1], ss[k])
      <3>1. pre[k] = Cat(pre[k - 1], tt[k])
        BY <1>4 DEF Beginnings
      <3>2. tt[k] = ss[k] /\ part[k] = pre[k] /\ part[k - 1] = pre[k - 1]
        BY <1>5 DEF OneMore
      <3> QED
        BY <3>1, <3>2
    <2> QED
      BY <2>1, <2>2 DEF Beginnings
  <1>7. pre[N + 1] = Cat(part[N], a)
    <2>1. pre[N + 1] = Cat(pre[(N + 1) - 1], tt[N + 1])
      BY <1>4 DEF Beginnings
    <2>2. (N + 1) - 1 = N /\ tt[N + 1] = a /\ part[N] = pre[N]
      BY <1>5 DEF OneMore
    <2> QED
      BY <2>1, <2>2
  <1>8. FlattenSeq(tt) = pre[N + 1]
    BY <1>1, <1>3, <1>4, FlattenIsPut
  <1>9. FlattenSeq(ss) = part[N]
    BY <1>1, <1>2, <1>6, FlattenIsPut
  <1> QED
    BY <1>7, <1>8, <1>9 DEF Cat

-----------------------------------------------------------------------------
(* Decimal digits *)

\* One digit, and digits followed by one more, are digits.
LEMMA MoreDigits ==
  /\ \A d \in Digits : <<d>> \in Seq(Digits)
  /\ \A s \in Seq(Digits), d \in Digits : Append(s, d) \in Seq(Digits)
  OBVIOUS

\* The last digit and what is before it.
LEMMA Tenths ==
  \A n \in Nat : /\ n % 10 \in Digits /\ n \div 10 \in Nat /\ n = 10 * (n \div 10) + (n % 10)
                 /\ n >= 10 => n \div 10 < n /\ n \div 10 >= 1
                 /\ n < 10 => n % 10 = n
  BY DEF Digits

\* Decimal is the function that its definition describes.
LEMMA DecimalIs ==
  \A n \in Nat : Decimal[n] = IF n < 10 THEN <<n>> ELSE Append(Decimal[n \div 10], n % 10)
  <1> DEFINE Rec(f) == f = [n \in Nat |-> IF n < 10 THEN <<n>> ELSE Append(f[n \div 10], n % 10)]
  <1>1. PICK V : V = Seq(Digits)
    OBVIOUS
  <1>2. /\ \A d \in Digits : <<d>> \in V
        /\ \A s \in V, d \in Digits : Append(s, d) \in V
    BY <1>1, MoreDigits
  <1> DEFINE base == [n \in Nat |-> <<n % 10>>]
             prev == [n \in Nat |-> n \div 10]
             step == [n \in Nat |-> [s \in V |-> Append(s, n % 10)]]
  <1>3. Recursive(V, Digits, base, prev, step)
    <2>1. Digits \subseteq Nat /\ \A n \in Nat \ Digits : n >= 10
      BY DEF Digits
    <2>2. base \in [Nat -> V] /\ prev \in [Nat -> Nat] /\ step \in [Nat -> [V -> V]]
      BY <1>2, Tenths
    <2>3. \A n \in Nat \ Digits : prev[n] < n
      BY <2>1, Tenths
    <2> HIDE DEF base, prev, step
    <2> QED
      BY <2>1, <2>2, <2>3 DEF Recursive
  <1>4. PICK f : IsRecursion(V, Digits, base, prev, step, f)
    <2> HIDE DEF base, prev, step
    <2> QED
      BY <1>3, Recursion, Zenon
  <1>5. f \in [Nat -> V] /\ \A n \in Nat : f[n] = IF n \in Digits THEN base[n] ELSE step[n][f[prev[n]]]
    <2> HIDE DEF base, prev, step
    <2> QED
      BY <1>4 DEF IsRecursion
  <1>6. \A n \in Nat : f[n] = IF n < 10 THEN <<n>> ELSE Append(f[n \div 10], n % 10)
    <2>1. \A n \in Nat : base[n] = <<n % 10>> /\ prev[n] = n \div 10
                         /\ step[n][f[prev[n]]] = Append(f[n \div 10], n % 10)
      BY <1>5, Tenths
    <2>2. \A n \in Nat : n \in Digits <=> n < 10
      BY DEF Digits
    <2> HIDE DEF base, prev, step
    <2> QED
      BY <1>5, <2>1, <2>2, Tenths, ZenonT(60)
  <1>7. Rec(f)
    <2>1. f = [n \in Nat |-> f[n]]
      BY <1>5
    <2> QED
      BY <1>6, <2>1
  <1>8. Rec(Decimal)
    <2>1. Decimal = (CHOOSE g : Rec(g))
      BY DEF Decimal
    <2> HIDE DEF Rec
    <2> QED
      BY <1>7, <2>1
  <1> QED
    BY <1>8
\* A number of one digit.
LEMMA DecimalOfOne ==
  ASSUME NEW n \in Nat, n < 10
  PROVE  n \in Digits /\ Decimal[n] = <<n>>
  <1>1. Decimal[n] = IF n < 10 THEN <<n>> ELSE Append(Decimal[n \div 10], n % 10)
    BY DecimalIs
  <1> QED
    BY <1>1 DEF Digits

\* A number of more than one.
LEMMA DecimalOfMore ==
  ASSUME NEW n \in Nat, n >= 10
  PROVE  \E q \in 1 .. n - 1, d \in Digits : n = 10 * q + d /\ Decimal[n] = Append(Decimal[q], d)
  <1>1. Decimal[n] = IF n < 10 THEN <<n>> ELSE Append(Decimal[n \div 10], n % 10)
    BY DecimalIs
  <1>2. PICK q, d : q = n \div 10 /\ d = n % 10
    OBVIOUS
  <1>3. q \in 1 .. n - 1 /\ d \in Digits /\ n = 10 * q + d
    BY <1>2, Tenths
  <1>4. ~ (n < 10)
    OBVIOUS
  <1>5. Decimal[n] = Append(Decimal[q], d)
    BY <1>1, <1>2, <1>4, Zenon
  <1> QED
    BY <1>3, <1>5

\* A number has digits.
LEMMA DecimalDigits ==
  \A n \in Nat : Decimal[n] \in Seq(Digits)
  <1>1. PICK V : V = Seq(Digits)
    OBVIOUS
  <1>2. /\ \A d \in Digits : <<d>> \in V
        /\ \A s \in V, d \in Digits : Append(s, d) \in V
    BY <1>1, MoreDigits
  <1> DEFINE S == {n \in Nat : Decimal[n] \in V}
  <1>3. ASSUME NEW n \in Nat, \A m \in 0 .. n - 1 : m \in S
        PROVE  Decimal[n] \in V
    <2>1. CASE n < 10
      <3>1. n \in Digits /\ Decimal[n] = <<n>>
        BY <2>1, DecimalOfOne
      <3> QED
        BY <1>2, <3>1
    <2>2. CASE n >= 10
      <3>1. PICK q \in 1 .. n - 1, d \in Digits :
              n = 10 * q + d /\ Decimal[n] = Append(Decimal[q], d)
        BY <2>2, DecimalOfMore
      <3>2. Decimal[q] \in V
        BY <1>3
      <3> QED
        BY <1>2, <3>1, <3>2, Zenon
    <2> QED
      BY <2>1, <2>2
  <1>4. \A n \in Nat : n \in S
    <2>1. \A n \in Nat : (\A m \in 0 .. n - 1 : m \in S) => n \in S
      BY <1>3
    <2> HIDE DEF S
    <2> QED
      BY <2>1, StrongInduction
  <1> QED
    BY <1>1, <1>4

\* Digits are numbers.
LEMMA DigitsAreNumbers ==
  ASSUME NEW s \in Seq(Digits)
  PROVE  s \in Seq(Nat)
  <1>1. PICK N \in Nat : N = Len(s)
    OBVIOUS
  <1>2. s \in [1 .. N -> Digits]
    BY <1>1
  <1>3. s \in [1 .. N -> Nat]
    BY <1>2 DEF Digits
  <1> QED
    BY <1>3

\* The first digit is zero only if the number is.
LEMMA FirstDigit ==
  \A n \in Nat : Len(Decimal[n]) >= 1 /\ (n >= 1 => Decimal[n][1] >= 1)
  <1> DEFINE S == {n \in Nat : Len(Decimal[n]) >= 1 /\ (n >= 1 => Decimal[n][1] >= 1)}
  <1>1. ASSUME NEW n \in Nat, \A m \in 0 .. n - 1 : m \in S
        PROVE  n \in S
    <2>1. CASE n < 10
      <3>1. Decimal[n] = <<n>>
        BY <2>1, DecimalOfOne
      <3> QED
        BY <3>1
    <2>2. CASE n >= 10
      <3>1. PICK q \in 1 .. n - 1, d \in Digits :
              n = 10 * q + d /\ Decimal[n] = Append(Decimal[q], d)
        BY <2>2, DecimalOfMore
      <3>2. PICK s \in Seq(Digits) : s = Decimal[q]
        BY DecimalDigits
      <3>3. Len(s) >= 1 /\ s[1] >= 1
        BY <1>1, <3>2
      <3>4. PICK t : t = Append(s, d)
        OBVIOUS
      <3>5. Len(t) >= 1 /\ t[1] >= 1
        BY <3>3, <3>4
      <3> QED
        BY <3>1, <3>2, <3>4, <3>5
    <2> QED
      BY <2>1, <2>2
  <1>2. \A n \in Nat : n \in S
    <2> HIDE DEF S
    <2> QED
      BY <1>1, StrongInduction
  <1> QED
    BY <1>2

\* No number has more digits than a larger one.
LEMMA LongerNumbers ==
  \A n, m \in Nat : n <= m => Len(Decimal[n]) <= Len(Decimal[m])
  <1> DEFINE S == {m \in Nat : \A n \in Nat : n <= m => Len(Decimal[n]) <= Len(Decimal[m])}
  <1>1. \A n \in Nat : Len(Decimal[n]) \in Nat
    BY DecimalDigits
  <1>2. ASSUME NEW n \in Nat, n >= 10
        PROVE  \E q \in 1 .. n - 1, d \in Digits :
                  n = 10 * q + d /\ Len(Decimal[n]) = Len(Decimal[q]) + 1
    <2>1. PICK q \in 1 .. n - 1, d \in Digits :
            n = 10 * q + d /\ Decimal[n] = Append(Decimal[q], d)
      BY <1>2, DecimalOfMore
    <2>2. PICK s \in Seq(Digits) : s = Decimal[q]
      BY DecimalDigits
    <2>3. Len(Append(s, d)) = Len(s) + 1
      OBVIOUS
    <2>4. Len(Decimal[n]) = Len(Decimal[q]) + 1
      BY <2>1, <2>2, <2>3
    <2> QED
      BY <2>1, <2>4
  <1>3. ASSUME NEW m \in Nat, \A k \in 0 .. m - 1 : k \in S
        PROVE  m \in S
    <2> SUFFICES ASSUME NEW n \in Nat, n <= m
                 PROVE  Len(Decimal[n]) <= Len(Decimal[m])
      OBVIOUS
    <2>1. CASE n < 10
      <3>1. Len(Decimal[n]) = 1
        <4>1. Decimal[n] = <<n>>
          BY <2>1, DecimalOfOne
        <4> QED
          BY <4>1
      <3> QED
        BY <1>1, <3>1, FirstDigit
    <2>2. CASE n >= 10
      <3>1. PICK q \in 1 .. n - 1, d \in Digits :
              n = 10 * q + d /\ Len(Decimal[n]) = Len(Decimal[q]) + 1
        BY <1>2, <2>2
      <3>2. m >= 10
        BY <2>2
      <3>3. PICK r \in 1 .. m - 1, e \in Digits :
              m = 10 * r + e /\ Len(Decimal[m]) = Len(Decimal[r]) + 1
        BY <1>2, <3>2
      <3>4. q <= r
        BY <3>1, <3>3 DEF Digits
      <3>5. Len(Decimal[q]) <= Len(Decimal[r])
        BY <1>3, <3>4
      <3> QED
        BY <1>1, <3>1, <3>3, <3>5
    <2> QED
      BY <2>1, <2>2
  <1>4. \A m \in Nat : m \in S
    <2> HIDE DEF S
    <2> QED
      BY <1>3, StrongInduction
  <1> QED
    BY <1>4

\* v[i] is what the first i of the N digits ds stand for.
Reads(ds, N, v) ==
  /\ v \in [0 .. N -> Nat]
  /\ v[0] = 0
  /\ \A i \in 1 .. N : v[i] = 10 * v[i - 1] + ds[i]

\* Value reads the digits one after the other.
LEMMA Reading ==
  ASSUME NEW ds \in Seq(Nat)
  PROVE  \E v : Reads(ds, Len(ds), v) /\ Value(ds) = v[Len(ds)]
  <1>1. PICK N \in Nat : N = Len(ds)
    OBVIOUS
  <1> DEFINE step == [i \in 1 .. N |-> [x \in Nat |-> 10 * x + ds[i]]]
             Rec(f) == f = [i \in 0 .. N |-> IF i = 0 THEN 0 ELSE 10 * f[i - 1] + ds[i]]
  <1>2. \A i \in 1 .. N : ds[i] \in Nat
    BY <1>1
  <1>3. Steps(N, Nat, step)
    BY <1>2 DEF Steps
  <1>4. PICK f : IsAccumulation(N, Nat, 0, step, f)
    <2> HIDE DEF step
    <2>1. 0 \in Nat
      OBVIOUS
    <2> QED
      BY <1>3, <2>1, Accumulation, Zenon
  <1>5. \A i \in 1 .. N : f[i] = 10 * f[i - 1] + ds[i]
    <2>1. \A i \in 1 .. N : f[i] = step[i][f[i - 1]] /\ f[i - 1] \in Nat
      <3> HIDE DEF step
      <3> QED
        BY <1>4 DEF IsAccumulation
    <2> QED
      BY <2>1
  <1>6. Rec(f)
    <2> HIDE DEF step
    <2>1. f[0] = 0 /\ f = [i \in 0 .. N |-> f[i]]
      BY <1>4 DEF IsAccumulation
    <2>2. \A i \in 0 .. N : f[i] = IF i = 0 THEN 0 ELSE 10 * f[i - 1] + ds[i]
      <3>1. \A i \in 0 .. N : i = 0 \/ i \in 1 .. N
        OBVIOUS
      <3> QED
        BY <1>5, <2>1, <3>1
    <2> QED
      BY <2>1, <2>2, Zenon
  <1>7. PICK v : v = (CHOOSE x : Rec(x))
    OBVIOUS
  <1>8. Rec(v)
    <2> HIDE DEF Rec
    <2> QED
      BY <1>6, <1>7
  <1>9. v[0] = 0 /\ \A i \in 1 .. N : v[i] = 10 * v[i - 1] + ds[i]
    BY <1>8
  <1>10. \A i \in 0 .. N : v[i] \in Nat
    <2> DEFINE S == {i \in 0 .. N : v[i] \in Nat}
    <2>1. 0 \in S
      BY <1>9
    <2>2. ASSUME NEW n \in 0 .. N - 1, n \in S
          PROVE  n + 1 \in S
      <3>1. v[n + 1] = 10 * v[n] + ds[n + 1] /\ ds[n + 1] \in Nat /\ v[n] \in Nat
        BY <1>2, <1>9, <2>2
      <3> QED
        BY <3>1
    <2>3. \A n \in 0 .. N : n \in S
      <3> HIDE DEF S
      <3> QED
        BY <2>1, <2>2, BoundedInduction
    <2> QED
      BY <2>3
  <1>11. Reads(ds, N, v)
    <2>1. v \in [0 .. N -> Nat]
      BY <1>8, <1>10
    <2> QED
      BY <1>1, <1>9, <2>1 DEF Reads
  <1>12. Value(ds) = v[N]
    BY <1>1, <1>7 DEF Value
  <1> QED
    BY <1>1, <1>11, <1>12

\* One digit more.
LEMMA ValueOfMore ==
  ASSUME NEW s \in Seq(Nat), NEW d \in Nat
  PROVE  Value(s) \in Nat /\ Value(Append(s, d)) = 10 * Value(s) + d
  <1>1. PICK N, t : N = Len(s) /\ t = Append(s, d)
    OBVIOUS
  <1>2. /\ t \in Seq(Nat) /\ N \in Nat
        /\ Len(t) = N + 1 /\ t[N + 1] = d
        /\ \A i \in 1 .. N : t[i] = s[i]
    BY <1>1
  <1>3. PICK v : Reads(s, N, v) /\ Value(s) = v[N]
    BY <1>1, Reading
  <1>4. PICK w : Reads(t, N + 1, w) /\ Value(t) = w[N + 1]
    BY <1>2, Reading
  <1>5. \A i \in 0 .. N : v[i] = w[i]
    <2> DEFINE S == {i \in 0 .. N : v[i] = w[i]}
    <2>1. 0 \in S
      BY <1>2, <1>3, <1>4 DEF Reads
    <2>2. ASSUME NEW n \in 0 .. N - 1, n \in S
          PROVE  n + 1 \in S
      <3>1. v[n + 1] = 10 * v[n] + s[n + 1]
        BY <1>2, <1>3 DEF Reads
      <3>2. w[n + 1] = 10 * w[n] + t[n + 1]
        BY <1>2, <1>4 DEF Reads
      <3>3. t[n + 1] = s[n + 1]
        BY <1>2
      <3>4. v[n] = w[n] /\ n + 1 \in 0 .. N
        BY <1>2, <2>2
      <3> QED
        BY <3>1, <3>2, <3>3, <3>4
    <2>3. \A n \in 0 .. N : n \in S
      <3> HIDE DEF S
      <3> QED
        BY <1>2, <2>1, <2>2, BoundedInduction
    <2> QED
      BY <2>3
  <1>6. w[N + 1] = 10 * w[N] + d
    BY <1>2, <1>4 DEF Reads
  <1>7. v[N] \in Nat /\ v[N] = w[N]
    BY <1>1, <1>3, <1>5 DEF Reads
  <1> QED
    BY <1>1, <1>3, <1>4, <1>6, <1>7

\* A single digit stands for itself.
LEMMA ValueOfOne ==
  ASSUME NEW d \in Nat
  PROVE  Value(<<d>>) = d
  <1>1. PICK ds : ds = <<d>>
    OBVIOUS
  <1>2. ds \in Seq(Nat) /\ Len(ds) = 1 /\ ds[1] = d
    BY <1>1
  <1>3. PICK v : Reads(ds, 1, v) /\ Value(ds) = v[1]
    BY <1>2, Reading
  <1>4. v[1] = 10 * v[0] + d /\ v[0] = 0
    BY <1>2, <1>3 DEF Reads
  <1> QED
    BY <1>1, <1>3, <1>4

\* Two digits or more stand for what the first two do, or for more.
LEMMA ValueOfTwo ==
  ASSUME NEW ds \in Seq(Nat), Len(ds) >= 2
  PROVE  Value(ds) \in Nat /\ Value(ds) >= 10 * ds[1] + ds[2]
  <1>1. PICK N \in Nat : N = Len(ds)
    OBVIOUS
  <1>2. PICK v : Reads(ds, N, v) /\ Value(ds) = v[N]
    BY <1>1, Reading
  <1>3. PICK a \in Nat, b \in Nat : a = ds[1] /\ b = ds[2]
    BY <1>1
  <1>4. v[2] = 10 * a + b
    <2>1. v[0] = 0 /\ v[1] = 10 * v[0] + a /\ v[2] = 10 * v[1] + b
      BY <1>1, <1>2, <1>3 DEF Reads
    <2> QED
      BY <2>1
  <1>5. \A i \in 0 .. N : v[i] \in Nat
    BY <1>2 DEF Reads
  <1>6. \A i \in 1 .. N : ds[i] \in Nat
    BY <1>1
  <1>7. PICK low \in Nat : low = 10 * a + b
    BY <1>3
  <1>8. \A i \in 0 .. N : i >= 2 => v[i] >= low
    <2> DEFINE S == {i \in 0 .. N : i >= 2 => v[i] >= low}
    <2>1. 0 \in S
      OBVIOUS
    <2>2. ASSUME NEW n \in 0 .. N - 1, n \in S
          PROVE  n + 1 \in S
      <3>1. n + 1 \in 1 .. N /\ n \in 0 .. N /\ (n + 1) - 1 = n
        OBVIOUS
      <3>2. v[n] \in Nat /\ ds[n + 1] \in Nat
        BY <1>5, <1>6, <3>1
      <3>3. v[n + 1] = 10 * v[n] + ds[n + 1]
        BY <1>2, <3>1 DEF Reads
      <3>4. CASE n >= 2
        <4>1. v[n] >= low
          BY <2>2, <3>4
        <4> QED
          BY <3>1, <3>2, <3>3, <4>1, SMTT(60)
      <3>5. CASE n = 1
        BY <1>4, <1>7, <3>1, <3>5
      <3>6. CASE n = 0
        BY <3>1, <3>6
      <3> QED
        BY <3>4, <3>5, <3>6
    <2>3. \A n \in 0 .. N : n \in S
      <3> HIDE DEF S
      <3> QED
        BY <2>1, <2>2, BoundedInduction
    <2> QED
      BY <2>3
  <1>9. v[N] \in Nat
    BY <1>2 DEF Reads
  <1> QED
    BY <1>1, <1>2, <1>3, <1>8, <1>9, <1>7

\* The digits of a number stand for it.
LEMMA ValueOfDecimal ==
  \A n \in Nat : Value(Decimal[n]) = n
  <1> DEFINE S == {n \in Nat : Value(Decimal[n]) = n}
  <1>1. ASSUME NEW n \in Nat, \A m \in 0 .. n - 1 : m \in S
        PROVE  n \in S
    <2>1. CASE n < 10
      <3>1. Decimal[n] = <<n>>
        BY <2>1, DecimalOfOne
      <3> QED
        BY <3>1, ValueOfOne
    <2>2. CASE n >= 10
      <3>1. PICK q \in 1 .. n - 1, d \in Digits :
              n = 10 * q + d /\ Decimal[n] = Append(Decimal[q], d)
        BY <2>2, DecimalOfMore
      <3>2. PICK s \in Seq(Nat) : s = Decimal[q]
        BY DecimalDigits, DigitsAreNumbers
      <3>3. Value(Append(s, d)) = 10 * Value(s) + d
        <4>1. d \in Nat
          BY DEF Digits
        <4> QED
          BY <4>1, ValueOfMore
      <3>4. Value(s) = q
        BY <1>1, <3>2
      <3>5. Value(Decimal[n]) = Value(Append(s, d))
        BY <3>1, <3>2
      <3> QED
        BY <3>1, <3>3, <3>4, <3>5
    <2> QED
      BY <2>1, <2>2
  <1>2. \A n \in Nat : n \in S
    <2> HIDE DEF S
    <2> QED
      BY <1>1, StrongInduction
  <1> QED
    BY <1>2
=============================================================================
