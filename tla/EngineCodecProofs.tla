-------------------------- MODULE EngineCodecProofs --------------------------
(***************************************************************************)
(* Theorems about EngineCodec, for payloads of any number of packets, with *)
(* any text and any bytes.                                                 *)
(***************************************************************************)
EXTENDS EngineCodec, RecursionLemmas

-----------------------------------------------------------------------------
(* fold_many0 *)

Start(input) == [status |-> "running", rest |-> input, items |-> <<>>]

\* The states f of a fold of L steps, where step i parsed results[i].  What
\* is left of an input of n packets, suf[k] behind packet k, is parsed to
\* parsed[k].
Folding(L, n, suf, parsed, f, results) ==
  /\ f[0] = Start(suf[0])
  /\ \A i \in 1 .. L :
        f[i] = IF f[i - 1].status = "running" THEN Folded(f[i - 1], results[i]) ELSE f[i - 1]
  /\ \A i \in 1 .. L, k \in 0 .. n : f[i - 1].rest = suf[k] => results[i] = parsed[k]

\* A state whose items are in S.
IsState(S, state) ==
  \E status, rest : \E items \in Seq(S) :
     state = [status |-> status, rest |-> rest, items |-> items]

\* What one step does to a state.
LEMMA OneResult ==
  ASSUME NEW S, NEW state, IsState(S, state), NEW r, r.status = "ok" => r.value \in S
  PROVE  /\ IsState(S, Folded(state, r))
         /\ CASE r.status = "ok" -> Folded(state, r) = [status |-> "running", rest |-> r.rest,
                                                        items |-> Append(state.items, r.value)]
              [] OTHER -> /\ Folded(state, r).status = (IF r.status = "error" THEN "ok" ELSE r.status)
                          /\ Folded(state, r).items = state.items
  <1>1. PICK status, rest, items :
          items \in Seq(S) /\ state = [status |-> status, rest |-> rest, items |-> items]
    BY DEF IsState
  <1>2. CASE r.status = "ok"
    <2>1. Folded(state, r) = [status |-> "running", rest |-> r.rest,
                              items |-> Append(state.items, r.value)]
      BY <1>2 DEF Folded
    <2>2. Append(state.items, r.value) \in Seq(S)
      BY <1>1, <1>2
    <2> QED
      BY <1>2, <2>1, <2>2 DEF IsState
  <1>3. CASE r.status = "error"
    <2>1. Folded(state, r) = [status |-> "ok", rest |-> rest, items |-> items]
      BY <1>1, <1>3 DEF Folded
    <2>2. IsState(S, Folded(state, r))
      BY <1>1, <2>1 DEF IsState
    <2> QED
      BY <1>1, <1>3, <2>1, <2>2
  <1>4. CASE r.status # "ok" /\ r.status # "error"
    <2>1. Folded(state, r) = [status |-> r.status, rest |-> rest, items |-> items]
      BY <1>1, <1>4 DEF Folded
    <2>2. IsState(S, Folded(state, r))
      BY <1>1, <2>1 DEF IsState
    <2> QED
      BY <1>1, <1>4, <2>1, <2>2
  <1> QED
    BY <1>2, <1>3, <1>4

\* t starts with the elements of s.
Grown(s, t) == Len(s) <= Len(t) /\ \A j \in 1 .. Len(s) : t[j] = s[j]

\* What is parsed has its values in S.
ValuesIn(S, L, results) == \A i \in 1 .. L : results[i].status = "ok" => results[i].value \in S

\* Items in S are added until a state is the last.
Growing(S, L, f) ==
  /\ \A i \in 0 .. L : IsState(S, f[i]) /\ f[i].items \in Seq(S)
  /\ \A i \in 0 .. L : Grown(f[i].items, f[L].items)
  /\ \A i \in 0 .. L : f[i].status # "running" => f[L] = f[i]

\* Items are never taken back.
LEMMA ItemsGrow ==
  ASSUME NEW S, NEW L \in Nat, NEW n \in Nat, NEW suf, NEW parsed, NEW f, NEW results,
         Folding(L, n, suf, parsed, f, results),
         ValuesIn(S, L, results)
  PROVE  Growing(S, L, f)
  <1>1. \A i \in 0 .. L - 1 :
           f[i + 1] = IF f[i].status = "running" THEN Folded(f[i], results[i + 1]) ELSE f[i]
    <2>1. ASSUME NEW i \in 0 .. L - 1
          PROVE  f[i + 1] = IF f[i].status = "running" THEN Folded(f[i], results[i + 1]) ELSE f[i]
      <3>1. i + 1 \in 1 .. L /\ (i + 1) - 1 = i
        OBVIOUS
      <3> QED
        BY <3>1 DEF Folding
    <2> QED
      BY <2>1
  <1>2. \A i \in 0 .. L : IsState(S, f[i])
    <2> DEFINE T == {i \in 0 .. L : IsState(S, f[i])}
    <2>1. 0 \in T
      <3>1. IsState(S, Start(suf[0]))
        <4>1. PICK none : none = <<>>
          OBVIOUS
        <4>2. none \in Seq(S)
          BY <4>1
        <4>3. Start(suf[0]) = [status |-> "running", rest |-> suf[0], items |-> none]
          BY <4>1 DEF Start
        <4> QED
          BY <4>2, <4>3 DEF IsState
      <3> QED
        BY <3>1 DEF Folding
    <2>2. ASSUME NEW i \in 0 .. L - 1, i \in T
          PROVE  i + 1 \in T
      <3>1. i + 1 \in 1 .. L /\ IsState(S, f[i])
        BY <2>2
      <3>2. results[i + 1].status = "ok" => results[i + 1].value \in S
        BY <3>1 DEF ValuesIn
      <3>3. IsState(S, Folded(f[i], results[i + 1]))
        BY <3>1, <3>2, OneResult, Zenon
      <3>4. IsState(S, f[i + 1])
        BY <1>1, <3>1, <3>3, Zenon
      <3> QED
        BY <3>1, <3>4
    <2>3. \A i \in 0 .. L : i \in T
      <3> HIDE DEF T
      <3> QED
        BY <2>1, <2>2, BoundedInduction
    <2> QED
      BY <2>3
  <1>3. \A i \in 0 .. L : f[i].items \in Seq(S)
    <2> TAKE i \in 0 .. L
    <2>1. PICK status, rest, items :
            items \in Seq(S) /\ f[i] = [status |-> status, rest |-> rest, items |-> items]
      BY <1>2 DEF IsState
    <2>2. f[i].items = items
      BY <2>1
    <2> QED
      BY <2>1, <2>2
  <1>4. \A i \in 0 .. L - 1 : Grown(f[i].items, f[i + 1].items)
    <2> TAKE i \in 0 .. L - 1
    <2>1. i + 1 \in 1 .. L /\ IsState(S, f[i]) /\ f[i].items \in Seq(S)
      BY <1>2, <1>3
    <2>2. PICK state, r : state = f[i] /\ r = results[i + 1]
      OBVIOUS
    <2>3. r.status = "ok" => r.value \in S
      BY <2>1, <2>2 DEF ValuesIn
    <2>4. CASE state.status = "running" /\ r.status = "ok"
      <3>1. f[i + 1] = Folded(state, r)
        BY <1>1, <2>2, <2>4
      <3>2. Folded(state, r) = [status |-> "running", rest |-> r.rest,
                                items |-> Append(state.items, r.value)]
        BY <2>4 DEF Folded
      <3>3. f[i + 1].items = Append(state.items, r.value)
        BY <3>1, <3>2
      <3> QED
        BY <2>1, <2>2, <2>3, <2>4, <3>3 DEF Grown
    <2>5. CASE ~ (state.status = "running" /\ r.status = "ok")
      <3>1. f[i + 1].items = state.items
        BY <1>1, <2>1, <2>2, <2>3, <2>5, OneResult
      <3> QED
        BY <2>1, <2>2, <3>1 DEF Grown
    <2> QED
      BY <2>4, <2>5
  <1>5. \A i \in 0 .. L : Grown(f[i].items, f[L].items)
    <2> DEFINE T == {i \in 0 .. L : Grown(f[i].items, f[L].items)}
    <2>1. L \in T
      BY <1>3 DEF Grown
    <2>2. ASSUME NEW i \in 0 .. L - 1, i + 1 \in T
          PROVE  i \in T
      <3>1. PICK a, b, c : a = f[i].items /\ b = f[i + 1].items /\ c = f[L].items
        OBVIOUS
      <3>2. a \in Seq(S) /\ b \in Seq(S) /\ c \in Seq(S)
        BY <1>3, <3>1
      <3>3. Grown(a, b) /\ Grown(b, c)
        BY <1>4, <2>2, <3>1
      <3>4. Grown(a, c)
        BY <3>2, <3>3 DEF Grown
      <3> QED
        BY <3>1, <3>4
    <2>3. \A i \in 0 .. L : i \in T
      <3> HIDE DEF T
      <3> QED
        BY <2>1, <2>2, DownwardInduction
    <2> QED
      BY <2>3
  <1>6. \A i \in 0 .. L : f[i].status # "running" => f[L] = f[i]
    <2> DEFINE T == {i \in 0 .. L : f[i].status # "running" => f[L] = f[i]}
    <2>1. L \in T
      OBVIOUS
    <2>2. \A i \in 0 .. L - 1 : i + 1 \in T => i \in T
      BY <1>1
    <2>3. \A i \in 0 .. L : i \in T
      <3> HIDE DEF T
      <3> QED
        BY <2>1, <2>2, DownwardInduction
    <2> QED
      BY <2>3
  <1> QED
    BY <1>2, <1>3, <1>5, <1>6 DEF Growing

\* The first packets and one more.
LEMMA FirstPackets ==
  ASSUME NEW P, NEW q \in Seq(P), NEW m \in Nat, m < Len(q)
  PROVE  /\ SubSeq(q, 1, m + 1) = Append(SubSeq(q, 1, m), q[m + 1])
         /\ SubSeq(q, 1, m) \in Seq(P) /\ Len(SubSeq(q, 1, m)) = m
  OBVIOUS

\* No packet, and all packets.
LEMMA NoneAndAll ==
  ASSUME NEW P, NEW q \in Seq(P)
  PROVE  SubSeq(q, 1, 0) = <<>> /\ SubSeq(q, 1, Len(q)) = q
  OBVIOUS

\* The n packets q are what the fold ends with exactly when each of them is
\* parsed to itself, if none is parsed to itself with another rest.
LEMMA FoldRoundTrip ==
  ASSUME NEW P, NEW q \in Seq(P), NEW n \in Nat, n = Len(q), NEW L \in Nat, n + 1 <= L,
         NEW suf, NEW parsed, NEW f, NEW results, Folding(L, n, suf, parsed, f, results),
         \A k \in 1 .. n : \/ parsed[k - 1] = Ok(suf[k], q[k])
                           \/ parsed[k - 1].status # "ok"
                           \/ parsed[k - 1].value # q[k],
         \A k \in 0 .. n : parsed[k].status # "running",
         parsed[n].status = "error"
  PROVE  (f[L].status = "ok" /\ f[L].items = q)
         <=> \A k \in 1 .. n : parsed[k - 1] = Ok(suf[k], q[k])
  <1> DEFINE Good(k) == parsed[k - 1] = Ok(suf[k], q[k])
             At(m) == [status |-> "running", rest |-> suf[m], items |-> SubSeq(q, 1, m)]
  <1>1. PICK S : S = P \cup {results[i].value : i \in 1 .. L}
    OBVIOUS
  <1>2. ValuesIn(S, L, results)
    BY <1>1 DEF ValuesIn
  <1>3. /\ \A i \in 0 .. L : IsState(S, f[i]) /\ f[i].items \in Seq(S)
        /\ \A i \in 0 .. L : Grown(f[i].items, f[L].items)
        /\ \A i \in 0 .. L : f[i].status # "running" => f[L] = f[i]
    <2>1. Growing(S, L, f)
      BY <1>2, ItemsGrow, Zenon
    <2> QED
      BY <2>1 DEF Growing
  <1>4. ASSUME NEW m \in 0 .. n, f[m] = At(m)
        PROVE  /\ m + 1 \in 1 .. L /\ results[m + 1] = parsed[m]
               /\ f[m + 1] = Folded(At(m), parsed[m])
    <2>1. m + 1 \in 1 .. L /\ (m + 1) - 1 = m
      OBVIOUS
    <2>2. f[m].rest = suf[m] /\ f[m].status = "running"
      BY <1>4
    <2>3. results[m + 1] = parsed[m]
      BY <2>1, <2>2 DEF Folding
    <2>4. f[m + 1] = Folded(f[m], results[m + 1])
      BY <2>1, <2>2 DEF Folding
    <2> QED
      BY <1>4, <2>1, <2>3, <2>4
  <1>5. \A m \in 0 .. n : (\A k \in 1 .. m : Good(k)) => f[m] = At(m)
    <2> DEFINE T == {m \in 0 .. n : (\A k \in 1 .. m : Good(k)) => f[m] = At(m)}
    <2>1. 0 \in T
      <3>1. f[0] = At(0)
        BY NoneAndAll DEF Folding, Start
      <3> QED
        BY <3>1
    <2>2. ASSUME NEW m \in 0 .. n - 1, m \in T
          PROVE  m + 1 \in T
      <3> SUFFICES ASSUME \A k \in 1 .. m + 1 : Good(k)
                   PROVE  f[m + 1] = At(m + 1)
        OBVIOUS
      <3>1. f[m] = At(m)
        BY <2>2
      <3>2. f[m + 1] = Folded(At(m), parsed[m])
        <4> HIDE DEF At
        <4> QED
          BY <1>4, <3>1
      <3>3. parsed[m] = Ok(suf[m + 1], q[m + 1])
        <4>1. m + 1 \in 1 .. m + 1 /\ (m + 1) - 1 = m
          OBVIOUS
        <4> QED
          BY <4>1
      <3>4. At(m + 1) = [status |-> "running", rest |-> suf[m + 1],
                         items |-> Append(SubSeq(q, 1, m), q[m + 1])]
        <4>1. m \in Nat /\ m < Len(q)
          OBVIOUS
        <4>2. SubSeq(q, 1, m + 1) = Append(SubSeq(q, 1, m), q[m + 1])
          BY <4>1, FirstPackets
        <4> QED
          BY <4>2
      <3> QED
        BY <3>2, <3>3, <3>4 DEF Folded, Ok
    <2>3. \A m \in 0 .. n : m \in T
      <3> HIDE DEF T
      <3> QED
        BY <2>1, <2>2, BoundedInduction
    <2> QED
      BY <2>3
  <1>6. ASSUME \A k \in 1 .. n : Good(k)
        PROVE  f[L].status = "ok" /\ f[L].items = q
    <2>1. f[n] = At(n)
      BY <1>5, <1>6
    <2>2. f[n + 1] = Folded(At(n), parsed[n])
      BY <1>4, <2>1, SMTT(60)
    <2>3. f[n + 1].status = "ok" /\ f[n + 1].items = SubSeq(q, 1, n)
      BY <2>2 DEF Folded
    <2>4. f[L] = f[n + 1]
      BY <1>3, <2>3
    <2> QED
      BY <2>3, <2>4, NoneAndAll
  <1>7. ASSUME ~ \A k \in 1 .. n : Good(k)
        PROVE  ~ (f[L].status = "ok" /\ f[L].items = q)
    <2> DEFINE B == {k \in 1 .. n : ~ Good(k)}
    <2>1. PICK j \in B : \A k \in B : j <= k
      <3>1. B # {} /\ B \in SUBSET Nat
        BY <1>7, SMTT(60)
      <3> HIDE DEF B
      <3> QED
        BY <3>1, LeastElement
    <2>2. PICK m \in 0 .. n - 1 : m + 1 = j
      <3>1. j - 1 \in 0 .. n - 1 /\ (j - 1) + 1 = j
        BY <2>1
      <3> QED
        BY <3>1
    <2>3. f[m] = At(m)
      <3>1. \A k \in 1 .. m : Good(k)
        BY <2>1, <2>2
      <3> QED
        BY <1>5, <3>1, SMTT(60)
    <2>4. f[m + 1] = Folded(At(m), parsed[m]) /\ m + 1 \in 0 .. L
      BY <1>4, <2>3, SMTT(60)
    <2>5. parsed[m].status # "ok" \/ parsed[m].value # q[m + 1]
      <3>1. m + 1 \in 1 .. n /\ (m + 1) - 1 = m
        OBVIOUS
      <3>2. ~ Good(m + 1)
        BY <2>1, <2>2
      <3>3. parsed[m] # Ok(suf[m + 1], q[m + 1])
        BY <3>1, <3>2
      <3> QED
        BY <3>1, <3>3
    <2>6. SubSeq(q, 1, m) \in Seq(P) /\ Len(SubSeq(q, 1, m)) = m
      BY FirstPackets
    <2>7. CASE parsed[m].status = "ok"
      <3>1. f[m + 1].items = Append(SubSeq(q, 1, m), parsed[m].value)
        BY <2>4, <2>7 DEF Folded
      <3>2. parsed[m].value \in S /\ SubSeq(q, 1, m) \in Seq(S)
        <4>1. results[m + 1] = parsed[m] /\ m + 1 \in 1 .. L
          BY <1>4, <2>3, SMTT(60)
        <4>2. parsed[m].value \in S
          BY <1>2, <2>7, <4>1 DEF ValuesIn
        <4>3. SubSeq(q, 1, m) \in Seq(S)
          BY <1>1, <2>6
        <4> QED
          BY <4>2, <4>3
      <3>3. Len(f[m + 1].items) = m + 1 /\ f[m + 1].items[m + 1] = parsed[m].value
        BY <2>6, <3>1, <3>2
      <3>4. f[L].items[m + 1] = parsed[m].value
        BY <1>3, <2>4, <3>3 DEF Grown
      <3> QED
        BY <2>5, <2>7, <3>4
    <2>8. CASE parsed[m].status = "error"
      <3>1. f[m + 1].status = "ok" /\ f[m + 1].items = SubSeq(q, 1, m)
        BY <2>4, <2>8 DEF Folded
      <3>2. f[L].items = SubSeq(q, 1, m)
        BY <1>3, <2>4, <3>1
      <3> QED
        BY <2>6, <3>2
    <2>9. CASE parsed[m].status # "ok" /\ parsed[m].status # "error"
      <3>1. f[m + 1].status = parsed[m].status
        BY <2>4, <2>9 DEF Folded
      <3>2. f[L] = f[m + 1]
        BY <1>3, <2>4, <3>1
      <3> QED
        BY <2>9, <3>1, <3>2
    <2> QED
      BY <2>7, <2>8, <2>9
  <1> QED
    BY <1>6, <1>7

\* The steps of the fold of an input.
IsLimit(L, input) == L = Len(input) \div 3 + 1

\* One step of the fold of StringDecodePayload.
StringNext(state) ==
  IF state.status = "running" THEN Folded(state, ParseStringPacketInPayload(state.rest)) ELSE state

\* StringDecodePayload is the fold of its parser.
LEMMA StringFold ==
  ASSUME NEW n \in Nat, NEW suf, NEW L \in Nat, IsLimit(L, suf[0]),
         NEW parsed, parsed = [k \in 0 .. n |-> ParseStringPacketInPayload(suf[k])]
  PROVE  \E f, results :
            Folding(L, n, suf, parsed, f, results) /\ StringDecodePayload(suf[0]) = f[L]
  <1> DEFINE Rec(f, N) ==
               f = [i \in 0 .. N |-> IF i = 0 THEN Start(suf[0]) ELSE StringNext(f[i - 1])]
  <1>1. \A N \in Nat : \E f : Rec(f, N)
    <2> DEFINE T == {N \in Nat : \E f : Rec(f, N)}
    <2>1. 0 \in T
      <3>1. Rec([i \in 0 .. 0 |-> Start(suf[0])], 0)
        OBVIOUS
      <3> HIDE DEF Rec
      <3> QED
        BY <3>1
    <2>2. ASSUME NEW N \in Nat, N \in T
          PROVE  N + 1 \in T
      <3>1. PICK f : Rec(f, N)
        BY <2>2
      <3>2. PICK last : last = StringNext(f[N])
        OBVIOUS
      <3>3. PICK h : h = [i \in 0 .. N + 1 |-> IF i = N + 1 THEN last ELSE f[i]]
        OBVIOUS
      <3>4. ASSUME NEW i \in 0 .. N + 1
            PROVE  h[i] = IF i = 0 THEN Start(suf[0]) ELSE StringNext(h[i - 1])
        <4>1. CASE i = 0
          BY <3>1, <3>3, <4>1
        <4>2. CASE i \in 1 .. N
          <5>1. h[i] = f[i] /\ h[i - 1] = f[i - 1]
            BY <3>3, <4>2
          <5>2. f[i] = StringNext(f[i - 1])
            BY <3>1, <4>2
          <5> QED
            BY <4>2, <5>1, <5>2
        <4>3. CASE i = N + 1
          <5>1. h[i] = last /\ h[i - 1] = f[N]
            BY <3>3, <4>3
          <5> QED
            BY <3>2, <4>3, <5>1
        <4>4. i = 0 \/ i \in 1 .. N \/ i = N + 1
          OBVIOUS
        <4> QED
          BY <4>1, <4>2, <4>3, <4>4
      <3>5. h = [i \in 0 .. N + 1 |-> h[i]]
        BY <3>3
      <3>6. Rec(h, N + 1)
        BY <3>4, <3>5
      <3>7. N + 1 \in Nat /\ \E g : Rec(g, N + 1)
        <4> HIDE DEF Rec
        <4> QED
          BY <3>6
      <3> QED
        BY <3>7
    <2>3. \A N \in Nat : N \in T
      <3> HIDE DEF T
      <3> QED
        BY <2>1, <2>2, Induction
    <2> QED
      BY <2>3
  <1>2. PICK f : f = (CHOOSE g : Rec(g, L))
    OBVIOUS
  <1>3. Rec(f, L)
    <2> HIDE DEF Rec
    <2> QED
      BY <1>1, <1>2
  <1>4. StringDecodePayload(suf[0]) = f[L]
    BY <1>2 DEF StringDecodePayload, FoldMany0, IsLimit, Start, StringNext
  <1>5. PICK results : results = [i \in 1 .. L |-> ParseStringPacketInPayload(f[i - 1].rest)]
    OBVIOUS
  <1>6. f[0] = Start(suf[0])
    BY <1>3
  <1>7. \A i \in 1 .. L :
           f[i] = IF f[i - 1].status = "running" THEN Folded(f[i - 1], results[i]) ELSE f[i - 1]
    <2> TAKE i \in 1 .. L
    <2>1. i \in 0 .. L /\ i # 0
      OBVIOUS
    <2>2. f[i] = StringNext(f[i - 1])
      BY <1>3, <2>1
    <2>3. results[i] = ParseStringPacketInPayload(f[i - 1].rest)
      BY <1>5
    <2> QED
      BY <2>2, <2>3 DEF StringNext
  <1>8. \A i \in 1 .. L, k \in 0 .. n : f[i - 1].rest = suf[k] => results[i] = parsed[k]
    BY <1>5
  <1>9. Folding(L, n, suf, parsed, f, results)
    BY <1>6, <1>7, <1>8 DEF Folding
  <1> QED
    BY <1>4, <1>9

\* One step of the fold of BinaryDecodePayload.
BinaryNext(state) ==
  IF state.status = "running" THEN Folded(state, ParseBinaryPacketInPayload(state.rest)) ELSE state

\* The fold of BinaryDecodePayload, each of whose results is one of the parser.
BinaryFolding(L, n, suf, parsed, f, results) ==
  /\ Folding(L, n, suf, parsed, f, results) /\ BinaryDecodePayload(suf[0]) = f[L]
  /\ \A i \in 1 .. L : \E s : results[i] = ParseBinaryPacketInPayload(s)

\* BinaryDecodePayload is the fold of its parser.
LEMMA BinaryFold ==
  ASSUME NEW n \in Nat, NEW suf, NEW L \in Nat, IsLimit(L, suf[0]),
         NEW parsed, parsed = [k \in 0 .. n |-> ParseBinaryPacketInPayload(suf[k])]
  PROVE  \E f, results : BinaryFolding(L, n, suf, parsed, f, results)
  <1> DEFINE Rec(f, N) ==
               f = [i \in 0 .. N |-> IF i = 0 THEN Start(suf[0]) ELSE BinaryNext(f[i - 1])]
  <1>1. \A N \in Nat : \E f : Rec(f, N)
    <2> DEFINE T == {N \in Nat : \E f : Rec(f, N)}
    <2>1. 0 \in T
      <3>1. Rec([i \in 0 .. 0 |-> Start(suf[0])], 0)
        OBVIOUS
      <3> HIDE DEF Rec
      <3> QED
        BY <3>1
    <2>2. ASSUME NEW N \in Nat, N \in T
          PROVE  N + 1 \in T
      <3>1. PICK f : Rec(f, N)
        BY <2>2
      <3>2. PICK last : last = BinaryNext(f[N])
        OBVIOUS
      <3>3. PICK h : h = [i \in 0 .. N + 1 |-> IF i = N + 1 THEN last ELSE f[i]]
        OBVIOUS
      <3>4. ASSUME NEW i \in 0 .. N + 1
            PROVE  h[i] = IF i = 0 THEN Start(suf[0]) ELSE BinaryNext(h[i - 1])
        <4>1. CASE i = 0
          BY <3>1, <3>3, <4>1
        <4>2. CASE i \in 1 .. N
          <5>1. h[i] = f[i] /\ h[i - 1] = f[i - 1]
            BY <3>3, <4>2
          <5>2. f[i] = BinaryNext(f[i - 1])
            BY <3>1, <4>2
          <5> QED
            BY <4>2, <5>1, <5>2
        <4>3. CASE i = N + 1
          <5>1. h[i] = last /\ h[i - 1] = f[N]
            BY <3>3, <4>3
          <5> QED
            BY <3>2, <4>3, <5>1
        <4>4. i = 0 \/ i \in 1 .. N \/ i = N + 1
          OBVIOUS
        <4> QED
          BY <4>1, <4>2, <4>3, <4>4
      <3>5. h = [i \in 0 .. N + 1 |-> h[i]]
        BY <3>3
      <3>6. Rec(h, N + 1)
        BY <3>4, <3>5
      <3>7. N + 1 \in Nat /\ \E g : Rec(g, N + 1)
        <4> HIDE DEF Rec
        <4> QED
          BY <3>6
      <3> QED
        BY <3>7
    <2>3. \A N \in Nat : N \in T
      <3> HIDE DEF T
      <3> QED
        BY <2>1, <2>2, Induction
    <2> QED
      BY <2>3
  <1>2. PICK f : f = (CHOOSE g : Rec(g, L))
    OBVIOUS
  <1>3. Rec(f, L)
    <2> HIDE DEF Rec
    <2> QED
      BY <1>1, <1>2
  <1>4. BinaryDecodePayload(suf[0]) = f[L]
    BY <1>2 DEF BinaryDecodePayload, FoldMany0, IsLimit, Start, BinaryNext
  <1>5. PICK results : results = [i \in 1 .. L |-> ParseBinaryPacketInPayload(f[i - 1].rest)]
    OBVIOUS
  <1>6. f[0] = Start(suf[0])
    BY <1>3
  <1>7. \A i \in 1 .. L :
           f[i] = IF f[i - 1].status = "running" THEN Folded(f[i - 1], results[i]) ELSE f[i - 1]
    <2> TAKE i \in 1 .. L
    <2>1. i \in 0 .. L /\ i # 0
      OBVIOUS
    <2>2. f[i] = BinaryNext(f[i - 1])
      BY <1>3, <2>1
    <2>3. results[i] = ParseBinaryPacketInPayload(f[i - 1].rest)
      BY <1>5
    <2> QED
      BY <2>2, <2>3 DEF BinaryNext
  <1>8. \A i \in 1 .. L, k \in 0 .. n : f[i - 1].rest = suf[k] => results[i] = parsed[k]
    BY <1>5
  <1>9. Folding(L, n, suf, parsed, f, results)
    BY <1>6, <1>7, <1>8 DEF Folding
  <1>10. BinaryFolding(L, n, suf, parsed, f, results)
    BY <1>4, <1>5, <1>9 DEF BinaryFolding
  <1> QED
    BY <1>10

-----------------------------------------------------------------------------
(* The input behind each packet *)

\* suf[k] is what is behind packet k of n packets encoded one after the other.
Remainders(n, enc, suf) ==
  /\ \A k \in 0 .. n : suf[k] \in Seq(Nat)
  /\ suf[n] = <<>>
  /\ \A k \in 1 .. n : suf[k - 1] = enc[k] \o suf[k]

\* A payload has something behind each packet.
LEMMA SuffixesExist ==
  ASSUME NEW n \in Nat, NEW enc \in [1 .. n -> Seq(Nat)]
  PROVE  \E suf : Remainders(n, enc, suf) /\ FlattenSeq(enc) = suf[0]
  <1>1. PICK pre, suf : Ends(Seq(Nat), <<>>, n, enc, suf) /\ FlattenSeq(enc) = suf[0]
    BY Flattening
  <1>2. Remainders(n, enc, suf)
    <2>1. \A k \in 0 .. n : suf[k] \in Seq(Nat)
      BY <1>1 DEF Ends
    <2>2. suf[n] = <<>>
      BY <1>1 DEF Ends
    <2>3. \A k \in 1 .. n : suf[k - 1] = enc[k] \o suf[k]
      BY <1>1 DEF Ends, Cat
    <2> QED
      BY <2>1, <2>2, <2>3 DEF Remainders
  <1> QED
    BY <1>1, <1>2

\* No packet is shorter than three elements: the fold has steps enough.
LEMMA Enough ==
  ASSUME NEW n \in Nat, NEW enc, NEW suf, Remainders(n, enc, suf),
         \A k \in 1 .. n : enc[k] \in Seq(Nat) /\ Len(enc[k]) >= 3
  PROVE  \E L \in Nat : IsLimit(L, suf[0]) /\ n + 1 <= L
  <1> DEFINE T == {k \in 0 .. n : Len(suf[k]) >= 3 * (n - k)}
  <1>1. n \in T
    <2>1. suf[n] \in Seq(Nat)
      BY DEF Remainders
    <2>2. Len(suf[n]) \in Nat
      BY <2>1
    <2> QED
      BY <2>2
  <1>2. ASSUME NEW k \in 0 .. n - 1, k + 1 \in T
        PROVE  k \in T
    <2>1. k + 1 \in 1 .. n /\ (k + 1) - 1 = k
      OBVIOUS
    <2>2. PICK a, b : a = enc[k + 1] /\ b = suf[k + 1]
      OBVIOUS
    <2>3. a \in Seq(Nat) /\ Len(a) >= 3
      BY <2>1, <2>2
    <2>4. b \in Seq(Nat) /\ suf[k] = a \o b
      <3>1. PICK j \in 1 .. n : j = k + 1 /\ j - 1 = k /\ j \in 0 .. n
        BY <2>1
      <3>2. suf[j] \in Seq(Nat) /\ suf[j - 1] = enc[j] \o suf[j]
        BY <3>1, Zenon DEF Remainders
      <3> QED
        BY <2>2, <3>1, <3>2
    <2>5. a \in Seq(Nat) /\ b \in Seq(Nat) /\ suf[k] = a \o b /\ Len(a) >= 3
      BY <2>3, <2>4
    <2>6. Len(suf[k]) = Len(a) + Len(b) /\ Len(a) \in Nat /\ Len(b) \in Nat
      BY <2>5, Joined
    <2>7. Len(b) >= 3 * (n - (k + 1))
      BY <1>2, <2>2
    <2>8. Len(suf[k]) >= 3 * (n - k)
      <3>1. PICK la \in Nat, lb \in Nat, ls \in Nat :
              la = Len(a) /\ lb = Len(b) /\ ls = Len(suf[k])
        BY <2>6
      <3>2. ls = la + lb /\ la >= 3 /\ lb >= 3 * (n - (k + 1))
        BY <2>5, <2>6, <2>7, <3>1
      <3> QED
        BY <3>1, <3>2
    <2> QED
      BY <2>8
  <1>3. \A k \in 0 .. n : k \in T
    <2> HIDE DEF T
    <2> QED
      BY <1>1, <1>2, DownwardInduction
  <1>4. PICK m \in Nat : m = Len(suf[0])
    BY DEF Remainders
  <1>5. m >= 3 * n
    BY <1>3, <1>4
  <1>6. m \div 3 + 1 \in Nat /\ n + 1 <= m \div 3 + 1
    BY <1>5
  <1> QED
    BY <1>4, <1>6 DEF IsLimit

-----------------------------------------------------------------------------
(* take and take_while1 *)

\* The elements in set at the front of s, k of them.
RunLength(set, s, k) ==
  /\ k \in 0 .. Len(s)
  /\ \A i \in 1 .. k : s[i] \in set
  /\ k < Len(s) => s[k + 1] \notin set

\* Take gives the first elements and the others.
LEMMA Taking ==
  ASSUME NEW X, NEW s \in Seq(X), NEW k \in Nat
  PROVE  /\ k <= Len(s) => Take(k, s) = Ok(SubSeq(s, k + 1, Len(s)), SubSeq(s, 1, k))
         /\ k > Len(s) => Take(k, s) = Error
  BY DEF Take

\* TakeWhile1 takes all the elements at the front.
LEMMA TakingWhile ==
  ASSUME NEW s \in Seq(Nat), NEW set
  PROVE  \E k : RunLength(set, s, k) /\ TakeWhile1(set, s) = IF k = 0 THEN Error ELSE Take(k, s)
  <1> DEFINE I == {i \in 1 .. Len(s) : s[i] \notin set}
  <1>1. CASE I = {}
    <2>1. ~ \E i \in DOMAIN s : s[i] \notin set
      BY <1>1
    <2>2. TakeWhile1(set, s) = IF Len(s) = 0 THEN Error ELSE Take(Len(s), s)
      BY <2>1 DEF TakeWhile1
    <2>3. RunLength(set, s, Len(s))
      BY <1>1 DEF RunLength
    <2> QED
      BY <2>2, <2>3
  <1>2. CASE I # {}
    <2>1. PICK j \in I : \A i \in I : j <= i
      <3>1. I \in SUBSET Nat
        OBVIOUS
      <3> HIDE DEF I
      <3> QED
        BY <1>2, <3>1, LeastElement
    <2>2. Min(I) = j
      <3>1. Min(I) \in I /\ \A i \in I : Min(I) <= i
        <4> HIDE DEF I
        <4> QED
          BY <2>1 DEF Min
      <3> QED
        BY <2>1, <3>1
    <2>3. Leading(set, s) = j - 1
      BY <1>2, <2>2 DEF Leading, SelectInSeq
    <2>4. \E i \in DOMAIN s : s[i] \notin set
      BY <2>1
    <2>5. TakeWhile1(set, s) = IF j - 1 = 0 THEN Error ELSE Take(j - 1, s)
      BY <2>3, <2>4 DEF TakeWhile1
    <2>6. RunLength(set, s, j - 1)
      BY <2>1 DEF RunLength
    <2> QED
      BY <2>5, <2>6
  <1> QED
    BY <1>1, <1>2

\* There is one front.
LEMMA OneFront ==
  ASSUME NEW s \in Seq(Nat), NEW set, NEW k, NEW j, RunLength(set, s, k), RunLength(set, s, j)
  PROVE  k = j
  <1>1. k \in Nat /\ j \in Nat /\ Len(s) \in Nat
    BY DEF RunLength
  <1>2. ~ (k < j)
    <2> SUFFICES ASSUME k < j
                 PROVE  FALSE
      OBVIOUS
    <2>1. k + 1 \in 1 .. j /\ k < Len(s)
      BY <1>1 DEF RunLength
    <2> QED
      BY <2>1 DEF RunLength
  <1>3. ~ (j < k)
    <2> SUFFICES ASSUME j < k
                 PROVE  FALSE
      OBVIOUS
    <2>1. j + 1 \in 1 .. k /\ j < Len(s)
      BY <1>1 DEF RunLength
    <2> QED
      BY <2>1 DEF RunLength
  <1> QED
    BY <1>1, <1>2, <1>3

\* When the first element is not in set, there is nothing to take.
LEMMA NothingTaken ==
  ASSUME NEW s \in Seq(Nat), NEW set, Len(s) > 0 => s[1] \notin set
  PROVE  TakeWhile1(set, s) = Error
  <1>1. PICK k : RunLength(set, s, k) /\ TakeWhile1(set, s) = IF k = 0 THEN Error ELSE Take(k, s)
    BY TakingWhile
  <1>2. RunLength(set, s, 0)
    BY DEF RunLength
  <1>3. k = 0
    BY <1>1, <1>2, OneFront
  <1> QED
    BY <1>1, <1>3

\* Elements in set and what follows them.
LEMMA RunTaken ==
  ASSUME NEW d \in Seq(Nat), NEW r \in Seq(Nat), NEW set, Len(d) >= 1,
         \A i \in 1 .. Len(d) : d[i] \in set, Len(r) > 0 => r[1] \notin set
  PROVE  TakeWhile1(set, d \o r) = Ok(r, d)
  <1>1. PICK s, k, m : s = d \o r /\ k = Len(d) /\ m = Len(r)
    OBVIOUS
  <1>2. /\ s \in Seq(Nat) /\ Len(s) = k + m /\ k \in Nat /\ m \in Nat
        /\ \A i \in 1 .. k : s[i] = d[i]
        /\ \A i \in 1 .. m : s[k + i] = r[i]
    BY <1>1, Joined
  <1>3. RunLength(set, s, k)
    <2>1. k < Len(s) => s[k + 1] \notin set
      <3>1. m > 0 => s[k + 1] = r[1]
        BY <1>2
      <3> QED
        BY <1>1, <1>2, <3>1
    <2> QED
      BY <1>1, <1>2, <2>1 DEF RunLength
  <1>4. PICK j : RunLength(set, s, j) /\ TakeWhile1(set, s) = IF j = 0 THEN Error ELSE Take(j, s)
    BY <1>2, TakingWhile
  <1>5. j = k
    BY <1>2, <1>3, <1>4, OneFront
  <1>6. TakeWhile1(set, s) = Take(k, s)
    BY <1>1, <1>2, <1>4, <1>5
  <1>7. Take(k, s) = Ok(SubSeq(s, k + 1, Len(s)), SubSeq(s, 1, k))
    <2>1. k \in Nat /\ k <= Len(s)
      BY <1>2
    <2> QED
      BY <1>2, <2>1, Taking
  <1>8. SubSeq(s, k + 1, Len(s)) = r
    BY <1>1, BehindFirst
  <1>9. SubSeq(s, 1, k) = d
    BY <1>1, InFront
  <1> QED
    BY <1>1, <1>6, <1>7, <1>8, <1>9

\* As many elements as d has.
LEMMA TakeFirst ==
  ASSUME NEW d \in Seq(Nat), NEW r \in Seq(Nat)
  PROVE  Take(Len(d), d \o r) = Ok(r, d)
  <1>1. PICK s, k : s = d \o r /\ k = Len(d)
    OBVIOUS
  <1>2. s \in Seq(Nat) /\ k \in Nat /\ k <= Len(s)
    BY <1>1, Joined
  <1>3. Take(k, s) = Ok(SubSeq(s, k + 1, Len(s)), SubSeq(s, 1, k))
    BY <1>2, Taking
  <1>4. SubSeq(s, k + 1, Len(s)) = r /\ SubSeq(s, 1, k) = d
    BY <1>1, BehindFirst, InFront
  <1> QED
    BY <1>1, <1>3, <1>4

-----------------------------------------------------------------------------
(* base64 *)

\* Byte j of the data has the characters from 4 * j - 3 to 4 * j.
LEMMA CharacterOf ==
  ASSUME NEW n \in Nat, NEW i \in 1 .. 4 * n
  PROVE  \E j \in 1 .. n, e \in 1 .. 4 :
            i = 4 * j - 4 + e /\ (i + 3) \div 4 = j /\ ((i - 1) % 4) + 1 = e
  <1>1. PICK j, e : j = (i + 3) \div 4 /\ e = ((i - 1) % 4) + 1
    OBVIOUS
  <1>2. j \in 1 .. n /\ e \in 1 .. 4 /\ i = 4 * j - 4 + e
    BY <1>1
  <1> QED
    BY <1>1, <1>2

\* The four characters of a byte.
LEMMA FourCharacters ==
  ASSUME NEW c \in 0 .. 255
  PROVE  /\ Chunk(c) \in Seq(Nat) /\ Len(Chunk(c)) = 4 /\ Chunk(c)[2] = c + 100
         /\ \A e \in 1 .. 4 : Chunk(c)[e] \in Nat
  <1>1. PICK a \in Nat : a = IF c \in 208 .. 247 THEN (c - 208) \div 4 ELSE Letter
    BY DEF Letter
  <1>2. PICK s : s = <<a, c + 100, c + 101, c + 102>>
    OBVIOUS
  <1>3. s \in Seq(Nat) /\ Len(s) = 4 /\ s[2] = c + 100 /\ \A e \in 1 .. 4 : s[e] \in Nat
    BY <1>2
  <1>4. Chunk(c) = s
    BY <1>1, <1>2 DEF Chunk
  <1> QED
    BY <1>3, <1>4

\* Data is encoded byte by byte.
LEMMA EncodedBytes ==
  ASSUME NEW data \in Seq(0 .. 255)
  PROVE  /\ Base64Encode(data) \in Seq(Nat)
         /\ Len(Base64Encode(data)) = 4 * Len(data)
         /\ \A j \in 1 .. Len(data), e \in 1 .. 4 :
               Base64Encode(data)[4 * j - 4 + e] = Chunk(data[j])[e]
  <1>1. PICK n \in Nat : n = Len(data)
    OBVIOUS
  <1>2. \A j \in 1 .. n : data[j] \in 0 .. 255
    BY <1>1
  <1>3. PICK s : s = [i \in 1 .. 4 * n |-> Chunk(data[(i + 3) \div 4])[((i - 1) % 4) + 1]]
    OBVIOUS
  <1>4. ASSUME NEW i \in 1 .. 4 * n
        PROVE  s[i] \in Nat
    <2>1. PICK j \in 1 .. n, e \in 1 .. 4 :
            i = 4 * j - 4 + e /\ (i + 3) \div 4 = j /\ ((i - 1) % 4) + 1 = e
      BY CharacterOf
    <2>2. s[i] = Chunk(data[j])[e]
      BY <1>3, <2>1
    <2>3. Chunk(data[j])[e] \in Nat
      BY <1>2, FourCharacters
    <2> QED
      BY <2>2, <2>3
  <1>5. s \in Seq(Nat) /\ Len(s) = 4 * n
    BY <1>3, <1>4
  <1>6. ASSUME NEW j \in 1 .. n, NEW e \in 1 .. 4
        PROVE  s[4 * j - 4 + e] = Chunk(data[j])[e]
    <2>1. PICK i : i = 4 * j - 4 + e
      OBVIOUS
    <2>2. i \in 1 .. 4 * n /\ (i + 3) \div 4 = j /\ ((i - 1) % 4) + 1 = e
      BY <2>1
    <2> QED
      BY <1>3, <2>1, <2>2
  <1>7. Base64Encode(data) = s
    BY <1>1, <1>3 DEF Base64Encode
  <1> QED
    BY <1>1, <1>5, <1>6, <1>7

\* Four characters of a text.
LEMMA Quarter ==
  ASSUME NEW s \in Seq(Nat), NEW n \in Nat, Len(s) = 4 * n, NEW j \in 1 .. n
  PROVE  /\ SubSeq(s, 4 * j - 3, 4 * j) \in Seq(Nat)
         /\ Len(SubSeq(s, 4 * j - 3, 4 * j)) = 4
         /\ \A e \in 1 .. 4 : SubSeq(s, 4 * j - 3, 4 * j)[e] = s[4 * j - 4 + e]
  <1>1. PICK a \in Nat, b \in Nat : a = 4 * j - 3 /\ b = 4 * j
    OBVIOUS
  <1>2. a \in 1 .. Len(s) /\ b \in 1 .. Len(s) /\ b = a + 3
    BY <1>1
  <1>3. PICK q : q = SubSeq(s, a, b)
    OBVIOUS
  <1>4. q \in Seq(Nat) /\ Len(q) = 4 /\ \A e \in 1 .. 4 : q[e] = s[a - 1 + e]
    BY <1>2, <1>3
  <1>5. \A e \in 1 .. 4 : a - 1 + e = 4 * j - 4 + e
    BY <1>1
  <1> QED
    BY <1>1, <1>3, <1>4, <1>5

\* What Base64Decode finds in n times four characters.
Decoded(s, n) == [i \in 1 .. n |-> SubSeq(s, 4 * i - 3, 4 * i)[2] - 100]

\* It is data if every chunk is the one of its byte.
LEMMA Decoding ==
  ASSUME NEW s \in Seq(Nat), NEW n \in Nat, n = Len(s) \div 4
  PROVE  Base64Decode(s) =
           IF /\ Len(s) = 4 * n
              /\ \A i \in 1 .. n : /\ Decoded(s, n)[i] \in 0 .. 255
                                   /\ SubSeq(s, 4 * i - 3, 4 * i) = Chunk(Decoded(s, n)[i])
           THEN Ok(<<>>, Decoded(s, n)) ELSE Failure
  BY DEF Base64Decode, Decoded

\* Encoded data is decoded.
LEMMA DecodeEncoded ==
  ASSUME NEW data \in Seq(0 .. 255)
  PROVE  Base64Decode(Base64Encode(data)) = Ok(<<>>, data)
  <1>1. PICK n \in Nat : n = Len(data)
    OBVIOUS
  <1>2. \A j \in 1 .. n : data[j] \in 0 .. 255
    BY <1>1
  <1>3. PICK s : s = Base64Encode(data) /\ n = Len(data)
    BY <1>1
  <1>4. /\ s \in Seq(Nat) /\ n \in Nat /\ Len(s) = 4 * n
        /\ \A j \in 1 .. n, e \in 1 .. 4 : s[4 * j - 4 + e] = Chunk(data[j])[e]
        /\ \A j \in 1 .. n : data[j] \in 0 .. 255
    <2>1. /\ s \in Seq(Nat) /\ Len(s) = 4 * n
          /\ \A j \in 1 .. n, e \in 1 .. 4 : s[4 * j - 4 + e] = Chunk(data[j])[e]
      BY <1>3, EncodedBytes
    <2> QED
      BY <1>2, <2>1
  <1>5. ASSUME NEW j \in 1 .. n
        PROVE  SubSeq(s, 4 * j - 3, 4 * j) = Chunk(data[j]) /\ Decoded(s, n)[j] = data[j]
    <2>1. PICK q, c : q = SubSeq(s, 4 * j - 3, 4 * j) /\ c = Chunk(data[j])
      OBVIOUS
    <2>2. q \in Seq(Nat) /\ Len(q) = 4 /\ \A e \in 1 .. 4 : q[e] = s[4 * j - 4 + e]
      BY <1>4, <2>1, Quarter
    <2>3. c \in Seq(Nat) /\ Len(c) = 4 /\ c[2] = data[j] + 100
      BY <1>4, <2>1, FourCharacters
    <2>4. \A e \in 1 .. 4 : q[e] = c[e]
      BY <1>4, <2>1, <2>2
    <2>5. q = c
      BY <2>2, <2>3, <2>4, SameSequence, ZenonT(60)
    <2>6. Decoded(s, n)[j] = data[j]
      <3>1. Decoded(s, n)[j] = SubSeq(s, 4 * j - 3, 4 * j)[2] - 100
        BY DEF Decoded
      <3>2. SubSeq(s, 4 * j - 3, 4 * j)[2] = data[j] + 100
        BY <2>1, <2>3, <2>5
      <3>3. PICK b \in 0 .. 255 : b = data[j]
        BY <1>2, Zenon
      <3>4. Decoded(s, n)[j] = (b + 100) - 100
        BY <3>1, <3>2, <3>3, Zenon
      <3>5. (b + 100) - 100 = b
        OBVIOUS
      <3> QED
        BY <3>3, <3>4, <3>5, Zenon
    <2> QED
      BY <2>1, <2>5, <2>6
  <1>6. Decoded(s, n) = data
    <2>1. Decoded(s, n) = [j \in 1 .. n |-> Decoded(s, n)[j]]
      BY DEF Decoded
    <2>2. data = [j \in 1 .. n |-> data[j]]
      BY <1>3
    <2> QED
      BY <1>5, <2>1, <2>2
  <1>7. n = Len(s) \div 4
    BY <1>4
  <1>8. Base64Decode(s) = Ok(<<>>, Decoded(s, n))
    BY <1>4, <1>5, <1>6, <1>7, Decoding
  <1> QED
    BY <1>3, <1>6, <1>8

\* Only encoded data is.
LEMMA OnlyEncoded ==
  ASSUME NEW s \in Seq(Nat), Base64Decode(s).status = "ok"
  PROVE  s = Base64Encode(Base64Decode(s).value)
  <1>1. PICK n \in Nat : n = Len(s) \div 4
    OBVIOUS
  <1>2. PICK data : data = Decoded(s, n)
    OBVIOUS
  <1>3. /\ Len(s) = 4 * n
        /\ \A i \in 1 .. n : /\ data[i] \in 0 .. 255
                             /\ SubSeq(s, 4 * i - 3, 4 * i) = Chunk(data[i])
        /\ Base64Decode(s).value = data
    <2> DEFINE fits == /\ Len(s) = 4 * n
                       /\ \A i \in 1 .. n : /\ data[i] \in 0 .. 255
                                            /\ SubSeq(s, 4 * i - 3, 4 * i) = Chunk(data[i])
    <2>1. Base64Decode(s) = IF fits THEN Ok(<<>>, data) ELSE Failure
      BY <1>1, <1>2, Decoding, ZenonT(60)
    <2>2. fits /\ Base64Decode(s).value = data
      <3> HIDE DEF fits
      <3> QED
        BY <2>1 DEF Ok, Failure
    <2> QED
      BY <2>2
  <1>4. data \in Seq(0 .. 255) /\ Len(data) = n
    <2>1. data = [i \in 1 .. n |-> data[i]]
      BY <1>2 DEF Decoded
    <2>2. \A i \in 1 .. n : data[i] \in 0 .. 255
      BY <1>3
    <2>3. data \in [1 .. n -> 0 .. 255]
      BY <2>1, <2>2
    <2> QED
      BY <2>3
  <1>5. PICK t : t = Base64Encode(data)
    OBVIOUS
  <1>6. /\ t \in Seq(Nat) /\ Len(t) = 4 * n
        /\ \A j \in 1 .. n, e \in 1 .. 4 : t[4 * j - 4 + e] = Chunk(data[j])[e]
    BY <1>4, <1>5, EncodedBytes
  <1>7. ASSUME NEW i \in 1 .. 4 * n
        PROVE  s[i] = t[i]
    <2>1. PICK j \in 1 .. n, e \in 1 .. 4 :
            i = 4 * j - 4 + e /\ (i + 3) \div 4 = j /\ ((i - 1) % 4) + 1 = e
      BY CharacterOf
    <2>2. SubSeq(s, 4 * j - 3, 4 * j)[e] = s[4 * j - 4 + e]
      BY <1>3, Quarter
    <2>3. SubSeq(s, 4 * j - 3, 4 * j) = Chunk(data[j])
      BY <1>3
    <2> QED
      BY <1>6, <2>1, <2>2, <2>3
  <1>8. s = t
    BY <1>3, <1>6, <1>7, SameSequence
  <1> QED
    BY <1>3, <1>5, <1>8

-----------------------------------------------------------------------------
(* The type of a packet in the string form *)

\* The characters x of a packet, followed by r, are kept apart from its type.
Suits(x, r) ==
  /\ Len(x) > 0 => x[1] \notin Digits
  /\ Len(x) = 0 => Len(r) = 0

\* The last packet is followed by nothing, the others by a length.
Follows(r) == r \in Seq(Nat) /\ (Len(r) > 0 => r[1] \in 1 .. 9)

\* All the digits there are make the type.
LEMMA TakingU8 ==
  ASSUME NEW s \in Seq(Nat), NEW k \in Nat, RunLength(Digits, s, k), k >= 1
  PROVE  TakeU8(s) = IF Value(SubSeq(s, 1, k)) > 255 THEN Failure
                     ELSE Ok(SubSeq(s, k + 1, Len(s)), Value(SubSeq(s, 1, k)))
  <1>1. PICK j : RunLength(Digits, s, j) /\ TakeWhile1(Digits, s) = IF j = 0 THEN Error ELSE Take(j, s)
    BY TakingWhile
  <1>2. j = k
    BY <1>1, OneFront
  <1>3. TakeWhile1(Digits, s) = Take(k, s)
    BY <1>1, <1>2
  <1>4. Take(k, s) = Ok(SubSeq(s, k + 1, Len(s)), SubSeq(s, 1, k))
    <2>1. k <= Len(s)
      BY DEF RunLength
    <2> QED
      BY <2>1, Taking
  <1>5. PICK a, b : a = SubSeq(s, k + 1, Len(s)) /\ b = SubSeq(s, 1, k)
    OBVIOUS
  <1>6. TakeWhile1(Digits, s) = Ok(a, b)
    BY <1>3, <1>4, <1>5
  <1> QED
    BY <1>5, <1>6 DEF TakeU8, TakeNumber, Ok

\* A digit is in front of the type and characters of a packet.
LEMMA OneDigit ==
  ASSUME NEW t \in Digits
  PROVE  <<t>> \in Seq(Nat) /\ Len(<<t>>) = 1 /\ <<t>>[1] = t
  BY DEF Digits

\* The type of a packet that suits is read.
LEMMA TypeTaken ==
  ASSUME NEW t \in PacketTypes, NEW x \in Seq(Nat), NEW r \in Seq(Nat), Suits(x, r)
  PROVE  TakeU8(<<t>> \o (x \o r)) = Ok(x \o r, t)
  <1>1. PICK y, d : y = x \o r /\ d = <<t>>
    OBVIOUS
  <1>2. /\ y \in Seq(Nat) /\ Len(y) = Len(x) + Len(r)
        /\ \A i \in 1 .. Len(x) : y[i] = x[i]
    BY <1>1, Joined
  <1>3. d \in Seq(Nat) /\ Len(d) = 1 /\ d[1] = t /\ t \in Digits /\ t \in Nat /\ t <= 255
    <2>1. t \in Digits /\ t \in Nat /\ t <= 255
      BY DEF PacketTypes, Digits
    <2> QED
      BY <1>1, <2>1, OneDigit
  <1>4. Len(y) > 0 => y[1] \notin Digits
    <2>1. CASE Len(x) > 0
      <3>1. 1 \in 1 .. Len(x)
        BY <2>1
      <3> QED
        BY <1>2, <2>1, <3>1 DEF Suits
    <2>2. CASE ~ (Len(x) > 0)
      <3>1. Len(x) = 0
        BY <2>2
      <3> QED
        BY <1>2, <3>1 DEF Suits
    <2> QED
      BY <2>1, <2>2
  <1>5. TakeWhile1(Digits, d \o y) = Ok(y, d)
    <2>1. d \in Seq(Nat) /\ y \in Seq(Nat) /\ Len(d) >= 1 /\ \A i \in 1 .. Len(d) : d[i] \in Digits
      BY <1>2, <1>3
    <2> QED
      BY <1>4, <2>1, RunTaken, Zenon
  <1>6. Value(d) = t
    BY <1>1, <1>3, ValueOfOne
  <1>7. TakeU8(d \o y) = Ok(y, t)
    <2>1. ~ (t > 255)
      BY <1>3
    <2> QED
      BY <1>5, <1>6, <2>1 DEF TakeU8, TakeNumber, Ok
  <1> QED
    BY <1>1, <1>7

\* What is read when the packet does not suit is not the packet.
Mistaken(t, x, s) ==
  LET u == TakeU8(s)
      d == Take(Len(x), u.rest)
  IN  (u.status = "ok" /\ d.status = "ok") => (u.value # t \/ d.value # x)

\* One digit follows the type at least.
LEMMA TypeMistaken ==
  ASSUME NEW t \in PacketTypes, NEW x \in Seq(Nat), NEW r, Follows(r), ~ Suits(x, r)
  PROVE  Mistaken(t, x, <<t>> \o (x \o r))
  <1>1. PICK y, d, s : y = x \o r /\ d = <<t>> /\ s = d \o y
    OBVIOUS
  <1>2. /\ y \in Seq(Nat) /\ Len(y) = Len(x) + Len(r)
        /\ \A i \in 1 .. Len(x) : y[i] = x[i]
        /\ \A i \in 1 .. Len(r) : y[Len(x) + i] = r[i]
        /\ Len(x) \in Nat /\ Len(r) \in Nat
    BY <1>1, Joined DEF Follows
  <1>3. d \in Seq(Nat) /\ Len(d) = 1 /\ d[1] = t /\ t \in Digits /\ t \in Nat
    <2>1. t \in Digits /\ t \in Nat
      BY DEF PacketTypes, Digits
    <2> QED
      BY <1>1, <2>1, OneDigit
  <1>4. /\ s \in Seq(Nat) /\ Len(s) = 1 + Len(y) /\ s[1] = t
        /\ \A i \in 1 .. Len(y) : s[1 + i] = y[i]
    <2>1. /\ s \in Seq(Nat) /\ Len(s) = Len(d) + Len(y)
          /\ \A i \in 1 .. Len(d) : s[i] = d[i]
          /\ \A i \in 1 .. Len(y) : s[Len(d) + i] = y[i]
      BY <1>1, <1>2, <1>3, Joined
    <2> QED
      BY <1>3, <2>1
  <1>5. /\ Len(y) >= 1 /\ y[1] \in Digits
        /\ \/ Len(x) >= 1 /\ x[1] \in Digits
           \/ y[1] >= 1
    <2>1. CASE Len(x) >= 1
      <3>1. x[1] \in Digits
        BY <2>1 DEF Suits
      <3>2. y[1] = x[1] /\ Len(y) >= 1
        BY <1>2, <2>1
      <3> QED
        BY <2>1, <3>1, <3>2
    <2>2. CASE ~ (Len(x) >= 1)
      <3>1. Len(r) >= 1
        BY <1>2, <2>2 DEF Suits
      <3>2. r[1] \in 1 .. 9
        BY <1>2, <3>1 DEF Follows
      <3>3. y[1] = r[1] /\ Len(y) >= 1
        BY <1>2, <2>2, <3>1
      <3> QED
        BY <3>2, <3>3 DEF Digits
    <2> QED
      BY <2>1, <2>2
  <1>6. PICK k : RunLength(Digits, s, k)
    BY <1>4, TakingWhile
  <1>7. k \in Nat /\ k >= 2 /\ k <= Len(s) /\ s[2] = y[1]
    <2>1. s[2] = y[1] /\ Len(s) >= 2
      BY <1>2, <1>4, <1>5
    <2>2. k \in 0 .. Len(s) /\ Len(s) \in Nat
      BY <1>4, <1>6 DEF RunLength
    <2>3. k # 0
      BY <1>3, <1>4, <1>6, <2>1 DEF RunLength
    <2>4. k # 1
      BY <1>5, <1>6, <2>1 DEF RunLength
    <2> QED
      BY <2>1, <2>2, <2>3, <2>4
  <1>8. PICK a, b : a = SubSeq(s, k + 1, Len(s)) /\ b = SubSeq(s, 1, k)
    OBVIOUS
  <1>9. b \in Seq(Nat) /\ Len(b) = k /\ b[1] = t /\ b[2] = y[1]
    <2>1. s \in Seq(Nat) /\ k \in 1 .. Len(s) /\ 1 \in 1 .. k /\ 2 \in 1 .. k
      BY <1>4, <1>7
    <2>2. b \in Seq(Nat) /\ Len(b) = k /\ \A i \in 1 .. k : b[i] = s[i]
      BY <1>8, <2>1
    <2> QED
      BY <1>4, <1>7, <2>1, <2>2
  <1>10. Value(b) \in Nat /\ Value(b) >= 10 * t + y[1]
    BY <1>7, <1>9, ValueOfTwo
  <1>11. TakeU8(s) = IF Value(b) > 255 THEN Failure ELSE Ok(a, Value(b))
    <2>1. k >= 1
      BY <1>7
    <2> QED
      BY <1>4, <1>6, <1>7, <1>8, <2>1, TakingU8
  <1>12. CASE Value(b) > 255
    <2>1. TakeU8(s).status = "failure"
      BY <1>11, <1>12 DEF Failure
    <2> QED
      BY <1>1, <2>1 DEF Mistaken
  <1>13. CASE ~ (Value(b) > 255)
    <2>1. TakeU8(s) = Ok(a, Value(b))
      BY <1>11, <1>13
    <2>2. TakeU8(s).rest = a /\ TakeU8(s).value = Value(b)
      BY <2>1 DEF Ok
    <2>3. CASE y[1] >= 1
      <3>1. Value(b) # t
        BY <1>3, <1>5, <1>10, <2>3 DEF Digits
      <3> QED
        BY <1>1, <2>2, <3>1 DEF Mistaken
    <2>4. CASE Len(x) >= 1 /\ x[1] \in Digits
      <3>1. PICK n : n = Len(x) /\ n \in Nat /\ n >= 1
        BY <1>2, <2>4
      <3>2. a \in Seq(Nat) /\ Len(a) = Len(s) - k /\ (Len(a) >= 1 => a[1] = s[k + 1])
        BY <1>4, <1>7, <1>8, SMTT(60)
      <3>3. SUFFICES ASSUME Take(n, a).status = "ok"
                     PROVE  Take(n, a).value # x
        BY <1>1, <2>2, <3>1 DEF Mistaken
      <3>4. n <= Len(a) /\ Take(n, a) = Ok(SubSeq(a, n + 1, Len(a)), SubSeq(a, 1, n))
        <4>1. n <= Len(a)
          <5>1. n > Len(a) => Take(n, a).status = "error"
            BY <3>1, <3>2, Taking DEF Error
          <5> QED
            BY <3>1, <3>2, <3>3, <5>1
        <4> QED
          BY <3>1, <3>2, <4>1, Taking
      <3>5. SubSeq(a, 1, n)[1] = a[1]
        BY <3>1, <3>2, <3>4
      <3>6. k < Len(s)
        BY <1>4, <1>7, <3>1, <3>2, <3>4
      <3>7. s[k + 1] \notin Digits
        BY <1>6, <3>6 DEF RunLength
      <3>8. Take(n, a).value[1] = s[k + 1]
        BY <1>4, <1>7, <3>1, <3>2, <3>4, <3>5 DEF Ok
      <3> QED
        BY <2>4, <3>7, <3>8
    <2> QED
      BY <1>5, <2>3, <2>4
  <1> QED
    BY <1>12, <1>13

\* What take and take_u8 return.
LEMMA TakeStatus ==
  ASSUME NEW n, NEW s
  PROVE  Take(n, s).status \in {"ok", "error"}
  BY DEF Take, Ok, Error

LEMMA TakeU8Status ==
  ASSUME NEW s
  PROVE  TakeU8(s).status \in {"ok", "error", "failure"}
  <1>1. PICK r : r = TakeWhile1(Digits, s)
    OBVIOUS
  <1>2. r.status \in {"ok", "error"}
    <2>1. \E n : r = Error \/ r = Take(n, s)
      BY <1>1, Zenon DEF TakeWhile1
    <2> QED
      BY <2>1, TakeStatus DEF Error
  <1>3. TakeU8(s) = IF r.status # "ok" THEN r
                    ELSE IF Value(r.value) > 255 THEN Failure ELSE Ok(r.rest, Value(r.value))
    BY <1>1 DEF TakeU8, TakeNumber
  <1> QED
    BY <1>2, <1>3 DEF Ok, Failure

\* What is left behind the type is characters.
LEMMA TakeU8Rest ==
  ASSUME NEW s \in Seq(Nat), TakeU8(s).status = "ok"
  PROVE  TakeU8(s).rest \in Seq(Nat)
  <1>1. PICK k : RunLength(Digits, s, k) /\ TakeWhile1(Digits, s) = IF k = 0 THEN Error ELSE Take(k, s)
    BY TakingWhile
  <1>2. k \in Nat
    BY <1>1 DEF RunLength
  <1>3. k # 0
    <2> SUFFICES ASSUME k = 0
                 PROVE  FALSE
      OBVIOUS
    <2>1. TakeWhile1(Digits, s) = Error
      BY <1>1
    <2>2. TakeU8(s).status = "error"
      BY <2>1 DEF TakeU8, TakeNumber, Error
    <2> QED
      BY <2>2
  <1>4. k >= 1
    BY <1>2, <1>3
  <1>5. PICK a, v : a = SubSeq(s, k + 1, Len(s)) /\ v = Value(SubSeq(s, 1, k))
    OBVIOUS
  <1>6. TakeU8(s) = IF v > 255 THEN Failure ELSE Ok(a, v)
    BY <1>1, <1>2, <1>4, <1>5, TakingU8
  <1>7. TakeU8(s).rest = a
    BY <1>6 DEF Failure, Ok
  <1>8. a \in Seq(Nat)
    <2>1. k <= Len(s)
      BY <1>1 DEF RunLength
    <2> QED
      BY <1>2, <1>5, <2>1
  <1> QED
    BY <1>7, <1>8

-----------------------------------------------------------------------------
(* One packet of a string payload *)

\* A length and a colon.
LEMMA LengthTaken ==
  ASSUME NEW m \in Nat, m >= 1, m <= MaxUsize, NEW body \in Seq(Nat)
  PROVE  ParseStringPacketInPayload(Decimal[m] \o (<<Colon>> \o body))
         = IF ParsePlaintext(m - 1, body).status # "error" THEN ParsePlaintext(m - 1, body)
           ELSE ParseBase64(m - 1, body)
  <1>1. PICK c, y, d, s : c = <<Colon>> /\ y = c \o body /\ d = Decimal[m] /\ s = d \o y
    OBVIOUS
  <1>2. c \in Seq(Nat) /\ Len(c) = 1 /\ c[1] = Colon
    BY <1>1 DEF Colon
  <1>3. /\ y \in Seq(Nat) /\ Len(y) = 1 + Len(body) /\ y[1] = Colon
        /\ SubSeq(y, 2, Len(y)) = body
    <2>1. /\ y \in Seq(Nat) /\ Len(y) = Len(c) + Len(body)
          /\ \A i \in 1 .. Len(c) : y[i] = c[i]
      BY <1>1, <1>2, Joined
    <2>2. SubSeq(y, Len(c) + 1, Len(y)) = body
      BY <1>1, <1>2, BehindFirst
    <2> QED
      BY <1>2, <2>1, <2>2
  <1>4. d \in Seq(Digits) /\ d \in Seq(Nat) /\ Len(d) >= 1 /\ Value(d) = m
    <2>1. d \in Seq(Digits)
      BY <1>1, DecimalDigits
    <2>2. d \in Seq(Nat)
      BY <2>1, DigitsAreNumbers
    <2> QED
      BY <1>1, <2>1, <2>2, FirstDigit, ValueOfDecimal
  <1>5. TakeWhile1(Digits, s) = Ok(y, d)
    <2>1. \A i \in 1 .. Len(d) : d[i] \in Digits
      BY <1>4
    <2>2. Len(y) > 0 => y[1] \notin Digits
      BY <1>3 DEF Colon, Digits
    <2>3. y \in Seq(Nat) /\ d \in Seq(Nat) /\ Len(d) >= 1
      BY <1>3, <1>4
    <2>4. TakeWhile1(Digits, d \o y) = Ok(y, d)
      BY <2>1, <2>2, <2>3, RunTaken, Zenon
    <2> QED
      BY <1>1, <2>4
  <1>6. TakeUsize(s) = Ok(y, m)
    <2>1. ~ (m > MaxUsize)
      BY MaxAssumption
    <2> QED
      BY <1>4, <1>5, <2>1 DEF TakeUsize, TakeNumber, Ok
  <1>7. Tail(y) = body /\ Head(y) = Colon /\ y # <<>>
    <2>1. Len(y) \in Nat /\ Len(y) >= 1
      BY <1>3
    <2>2. Tail(y) = SubSeq(y, 2, Len(y)) /\ Head(y) = y[1] /\ y # <<>>
      BY <1>3, <2>1
    <2> QED
      BY <1>3, <2>2
  <1>8. PICK a, b : a = ParsePlaintext(m - 1, body) /\ b = ParseBase64(m - 1, body)
    OBVIOUS
  <1>9. ParseStringPacketInPayload(s) = IF a.status # "error" THEN a ELSE b
    <2>1. PICK len : len = TakeUsize(s)
      OBVIOUS
    <2>2. len.status = "ok" /\ len.rest = y /\ len.value = m
      BY <1>6, <2>1 DEF Ok
    <2>3. m # 0
      OBVIOUS
    <2> QED
      BY <1>7, <1>8, <2>1, <2>2, <2>3, Zenon DEF ParseStringPacketInPayload
  <1> QED
    BY <1>1, <1>8, <1>9

\* A plain packet that suits.
LEMMA PlainParsed ==
  ASSUME NEW t \in PacketTypes, NEW x \in Seq(Nat), NEW r \in Seq(Nat), Suits(x, r)
  PROVE  ParsePlaintext(Len(x), <<t>> \o (x \o r)) = Ok(r, Text(t, x))
  <1>1. PICK s, y, n : s = <<t>> \o (x \o r) /\ y = x \o r /\ n = Len(x)
    OBVIOUS
  <1>2. TakeU8(s) = Ok(y, t)
    BY <1>1, TypeTaken
  <1>3. Take(n, y) = Ok(r, x)
    BY <1>1, TakeFirst
  <1>4. PICK u : u = TakeU8(s)
    OBVIOUS
  <1>5. u.status = "ok" /\ u.rest = y /\ u.value = t
    BY <1>2, <1>4 DEF Ok
  <1>6. PICK d : d = Take(n, y)
    OBVIOUS
  <1>7. d.status = "ok" /\ d.rest = r /\ d.value = x
    BY <1>3, <1>6 DEF Ok
  <1>8. ParsePlaintext(n, s) = Ok(r, Text(t, x))
    BY <1>4, <1>5, <1>6, <1>7, Zenon DEF ParsePlaintext
  <1> QED
    BY <1>1, <1>8

\* A plain packet that is mistaken.
LEMMA PlainMistaken ==
  ASSUME NEW t, NEW x, NEW s, Mistaken(t, x, s)
  PROVE  \/ ParsePlaintext(Len(x), s).status # "ok"
         \/ ParsePlaintext(Len(x), s).value # Text(t, x)
  <1>1. PICK u : u = TakeU8(s)
    OBVIOUS
  <1>2. PICK d : d = Take(Len(x), u.rest)
    OBVIOUS
  <1>3. PICK p : p = ParsePlaintext(Len(x), s)
    OBVIOUS
  <1>4. p = IF u.status # "ok" THEN u
            ELSE IF d.status # "ok" THEN d
            ELSE IF u.value \notin PacketTypes THEN Error
            ELSE Ok(d.rest, Text(u.value, d.value))
    BY <1>1, <1>2, <1>3 DEF ParsePlaintext
  <1>5. SUFFICES ASSUME p.status = "ok"
                 PROVE  p.value # Text(t, x)
    BY <1>3
  <1>6. u.status = "ok" /\ d.status = "ok" /\ p.value = Text(u.value, d.value)
    BY <1>4, <1>5 DEF Ok, Error
  <1>7. u.value # t \/ d.value # x
    BY <1>1, <1>2, <1>6 DEF Mistaken
  <1> QED
    BY <1>6, <1>7 DEF Text

\* A character that is no digit is no type.
LEMMA NoType ==
  ASSUME NEW body \in Seq(Nat), Len(body) > 0 => body[1] \notin Digits, NEW n
  PROVE  ParsePlaintext(n, body) = Error
  <1>1. TakeWhile1(Digits, body) = Error
    BY NothingTaken
  <1>2. TakeU8(body) = Error
    BY <1>1 DEF TakeU8, TakeNumber, Error
  <1> QED
    BY <1>2 DEF ParsePlaintext, Error

\* Without the letter b there is no base64.
LEMMA NoLetter ==
  ASSUME NEW body \in Seq(Nat), Len(body) > 0 => body[1] # LetterB, NEW n
  PROVE  ParseBase64(n, body) = Error
  <1>1. body = <<>> \/ Head(body) # LetterB
    <2>1. CASE Len(body) > 0
      <3>1. Head(body) = body[1]
        BY <2>1
      <3> QED
        BY <2>1, <3>1
    <2>2. CASE ~ (Len(body) > 0)
      <3>1. body = <<>>
        BY <2>2
      <3> QED
        BY <3>1
    <2> QED
      BY <2>1, <2>2
  <1> QED
    BY <1>1, Zenon DEF ParseBase64

\* One element in front of others.
LEMMA OneInFront ==
  ASSUME NEW a \in Nat, NEW s \in Seq(Nat)
  PROVE  /\ <<a>> \o s \in Seq(Nat) /\ <<a>> \o s # <<>>
         /\ Len(<<a>> \o s) = Len(s) + 1
         /\ (<<a>> \o s)[1] = a
         /\ Head(<<a>> \o s) = a /\ Tail(<<a>> \o s) = s
  <1>1. PICK c, y : c = <<a>> /\ y = c \o s
    OBVIOUS
  <1>2. c \in Seq(Nat) /\ Len(c) = 1 /\ c[1] = a
    BY <1>1
  <1>3. /\ y \in Seq(Nat) /\ Len(y) = 1 + Len(s) /\ y[1] = a
        /\ SubSeq(y, 2, Len(y)) = s
    <2>1. /\ y \in Seq(Nat) /\ Len(y) = Len(c) + Len(s)
          /\ \A i \in 1 .. Len(c) : y[i] = c[i]
      BY <1>1, <1>2, Joined
    <2>2. SubSeq(y, Len(c) + 1, Len(y)) = s
      BY <1>1, <1>2, BehindFirst
    <2> QED
      BY <1>2, <2>1, <2>2
  <1>4. Len(y) \in Nat /\ Len(y) >= 1
    BY <1>3
  <1>5. Tail(y) = SubSeq(y, 2, Len(y)) /\ Head(y) = y[1] /\ y # <<>>
    BY <1>3, <1>4
  <1> QED
    BY <1>1, <1>3, <1>5

\* The letter b and what follows it.
LEMMA Lettered ==
  ASSUME NEW s \in Seq(Nat)
  PROVE  /\ <<LetterB>> \o s \in Seq(Nat) /\ <<LetterB>> \o s # <<>>
         /\ Len(<<LetterB>> \o s) = Len(s) + 1
         /\ (<<LetterB>> \o s)[1] = LetterB
         /\ Head(<<LetterB>> \o s) = LetterB /\ Tail(<<LetterB>> \o s) = s
  <1>1. LetterB \in Nat
    BY DEF LetterB
  <1> QED
    BY <1>1, OneInFront

\* What becomes of the type u, the characters d and what they decode to.
Base64Result(u, d, b) ==
  IF u.status # "ok" THEN u
  ELSE IF d.status # "ok" THEN d
  ELSE IF u.value \notin PacketTypes THEN Error
  ELSE IF b.status # "ok" THEN b
  ELSE Ok(d.rest, Binary(u.value, b.value))

\* A base64 packet: the type, the characters and what they decode to.
LEMMA Base64Parsed ==
  ASSUME NEW n \in Nat, n >= 1, NEW s \in Seq(Nat),
         NEW u, u = TakeU8(s), NEW d, d = Take(n - 1, u.rest), NEW b, b = Base64Decode(d.value)
  PROVE  ParseBase64(n, <<LetterB>> \o s) = Base64Result(u, d, b)
  <1>1. PICK body : body = <<LetterB>> \o s
    OBVIOUS
  <1>2. Head(body) = LetterB /\ Tail(body) = s /\ body # <<>> /\ n # 0
    BY <1>1, Lettered
  <1>3. ParseBase64(n, body) = Base64Result(u, d, b)
    BY <1>2, Zenon DEF ParseBase64, Base64Result
  <1> QED
    BY <1>1, <1>3

\* A base64 packet that suits.
LEMMA Base64Read ==
  ASSUME NEW t \in PacketTypes, NEW data \in Seq(0 .. 255), NEW x, x = Base64Encode(data),
         NEW r \in Seq(Nat), Suits(x, r)
  PROVE  ParseBase64(Len(x) + 1, <<LetterB>> \o (<<t>> \o (x \o r))) = Ok(r, Binary(t, data))
  <1>1. x \in Seq(Nat)
    BY EncodedBytes
  <1>2. PICK n \in Nat : n = Len(x)
    BY <1>1
  <1>3. PICK y \in Seq(Nat) : y = x \o r
    BY <1>1, Joined
  <1>4. PICK s \in Seq(Nat) : s = <<t>> \o y
    <2>1. <<t>> \in Seq(Nat)
      BY DEF PacketTypes
    <2> QED
      BY <2>1, Joined
  <1>5. PICK u : u = TakeU8(s)
    OBVIOUS
  <1>6. u = Ok(y, t)
    BY <1>1, <1>3, <1>4, <1>5, TypeTaken
  <1>7. u.status = "ok" /\ u.rest = y /\ u.value = t
    BY <1>6 DEF Ok
  <1>8. PICK d : d = Take(n, u.rest)
    OBVIOUS
  <1>9. d = Ok(r, x)
    BY <1>1, <1>2, <1>3, <1>7, <1>8, TakeFirst
  <1>10. d.status = "ok" /\ d.rest = r /\ d.value = x
    BY <1>9 DEF Ok
  <1>11. PICK b : b = Base64Decode(d.value)
    OBVIOUS
  <1>12. b.status = "ok" /\ b.value = data
    <2>1. b = Ok(<<>>, data)
      BY <1>10, <1>11, DecodeEncoded
    <2> QED
      BY <2>1 DEF Ok
  <1>13. PICK m \in Nat : m = n + 1 /\ m >= 1 /\ m - 1 = n
    BY <1>2
  <1>14. d = Take(m - 1, u.rest)
    BY <1>8, <1>13
  <1>15. ParseBase64(m, <<LetterB>> \o s) = Base64Result(u, d, b)
    BY <1>5, <1>11, <1>13, <1>14, Base64Parsed, SMTT(60)
  <1>16. ParseBase64(m, <<LetterB>> \o s) = Ok(r, Binary(t, data))
    BY <1>7, <1>10, <1>12, <1>15, Zenon DEF Base64Result
  <1> QED
    BY <1>2, <1>3, <1>4, <1>13, <1>16

\* A base64 packet that is mistaken.
LEMMA Base64Mistaken ==
  ASSUME NEW t, NEW data \in Seq(0 .. 255), NEW x, x = Base64Encode(data),
         NEW s \in Seq(Nat), Mistaken(t, x, s)
  PROVE  \/ ParseBase64(Len(x) + 1, <<LetterB>> \o s).status # "ok"
         \/ ParseBase64(Len(x) + 1, <<LetterB>> \o s).value # Binary(t, data)
  <1>1. x \in Seq(Nat)
    BY EncodedBytes
  <1>2. PICK n \in Nat : n = Len(x)
    BY <1>1
  <1>3. PICK m \in Nat : m = n + 1 /\ m >= 1 /\ m - 1 = n
    BY <1>2
  <1>4. PICK u : u = TakeU8(s)
    OBVIOUS
  <1>5. PICK d : d = Take(n, u.rest)
    OBVIOUS
  <1>14. d = Take(m - 1, u.rest)
    BY <1>3, <1>5
  <1>6. PICK b : b = Base64Decode(d.value)
    OBVIOUS
  <1>7. PICK p : p = ParseBase64(m, <<LetterB>> \o s)
    OBVIOUS
  <1>8. p = Base64Result(u, d, b)
    BY <1>3, <1>4, <1>6, <1>7, <1>14, Base64Parsed
  <1>9. SUFFICES ASSUME p.status = "ok", p.value = Binary(t, data)
                 PROVE  FALSE
    BY <1>2, <1>3, <1>7
  <1>10. u.status = "ok" /\ d.status = "ok" /\ b.status = "ok" /\ p.value = Binary(u.value, b.value)
    BY <1>8, <1>9 DEF Base64Result, Ok, Error
  <1>11. u.value = t /\ b.value = data
    BY <1>9, <1>10 DEF Binary
  <1>12. d.value \in Seq(Nat)
    <2>1. PICK a : a = u.rest
      OBVIOUS
    <2>2. a \in Seq(Nat)
      BY <1>4, <1>10, <2>1, TakeU8Rest
    <2>3. n <= Len(a)
      <3>1. n > Len(a) => Take(n, a) = Error
        BY <2>2, Taking
      <3>2. Take(n, a) # Error
        BY <1>5, <1>10, <2>1 DEF Error
      <3> QED
        BY <2>2, <3>1, <3>2
    <2>4. d.value = SubSeq(a, 1, n)
      <3>1. Take(n, a) = Ok(SubSeq(a, n + 1, Len(a)), SubSeq(a, 1, n))
        BY <2>2, <2>3, Taking
      <3> QED
        BY <1>5, <2>1, <3>1 DEF Ok
    <2> QED
      BY <2>2, <2>3, <2>4
  <1>13. d.value = x
    BY <1>6, <1>10, <1>11, <1>12, OnlyEncoded
  <1> QED
    BY <1>2, <1>4, <1>5, <1>10, <1>11, <1>13 DEF Mistaken

-----------------------------------------------------------------------------
(* The packets *)

Characters == Digits \cup {Colon, LetterB, Letter}

\* Text is numbers, and so are bytes.
LEMMA CharactersAreNumbers ==
  /\ \A d \in Seq(Characters) : d \in Seq(Nat)
  /\ \A d \in Seq(0 .. 255) : d \in Seq(Nat)
  <1>1. ASSUME NEW X, \A c \in X : c \in Nat, NEW d \in Seq(X)
        PROVE  d \in Seq(Nat)
    BY <1>1
  <1>2. \A c \in Characters : c \in Nat
    BY DEF Characters, Digits, Colon, LetterB, Letter
  <1>3. \A c \in 0 .. 255 : c \in Nat
    OBVIOUS
  <1> QED
    BY <1>1, <1>2, <1>3

\* What a packet is made of.
IsText(p) ==
  /\ p = Text(p.type, p.data) /\ p.data \in Seq(Characters)
  /\ Len(p.data) + 1 <= MaxUsize /\ Len(p.data) + 1 <= MaxU32

IsBinary(p) ==
  /\ p = Binary(p.type, p.data) /\ p.data \in Seq(0 .. 255)
  /\ 4 * Len(p.data) + 2 <= MaxUsize /\ Len(p.data) + 1 <= MaxU32

LEMMA PacketForm ==
  ASSUME NEW p \in EnginePackets
  PROVE  /\ p.type \in PacketTypes
         /\ p.kind = "Text" => IsText(p)
         /\ p.kind = "Binary" => IsBinary(p)
         /\ p.kind \notin {"Text", "Binary"} => p = Empty(p.type)
  <1>1. CASE \E t \in Types, d \in Texts : p = Text(t, d)
    <2>1. PICK t \in Types, d \in Texts : p = Text(t, d)
      BY <1>1
    <2>2. p.type = t /\ p.kind = "Text" /\ p.data = d
      BY <2>1 DEF Text
    <2>3. t \in PacketTypes /\ d \in Seq(Characters) /\ Len(d) + 1 <= MaxUsize /\ Len(d) + 1 <= MaxU32
      BY CodecAssumption DEF Characters
    <2> QED
      BY <2>1, <2>2, <2>3 DEF IsText
  <1>2. CASE \E t \in Types, d \in Binaries : p = Binary(t, d)
    <2>1. PICK t \in Types, d \in Binaries : p = Binary(t, d)
      BY <1>2
    <2>2. p.type = t /\ p.kind = "Binary" /\ p.data = d
      BY <2>1 DEF Binary
    <2>3. t \in PacketTypes /\ d \in Seq(0 .. 255) /\ 4 * Len(d) + 2 <= MaxUsize /\ Len(d) + 1 <= MaxU32
      BY CodecAssumption
    <2> QED
      BY <2>1, <2>2, <2>3 DEF IsBinary
  <1>3. CASE \E t \in Types : p = Empty(t)
    <2>1. PICK t \in Types : p = Empty(t)
      BY <1>3
    <2>2. p.type = t /\ p.kind = "Empty"
      BY <2>1 DEF Empty
    <2>3. t \in PacketTypes
      BY CodecAssumption
    <2> QED
      BY <2>1, <2>2, <2>3
  <1> QED
    BY <1>1, <1>2, <1>3 DEF EnginePackets

\* The characters of a packet, of type t in front of them.
LEMMA TypeAndChars ==
  ASSUME NEW p \in EnginePackets, p.kind # "Empty"
  PROVE  /\ Chars(p) \in Seq(Nat) /\ <<p.type>> \in Seq(Nat) /\ Len(<<p.type>>) = 1
         /\ StringSerializePacket(p) = <<p.type>> \o Chars(p)
         /\ StringSerializePacket(p) \in Seq(Nat)
         /\ Len(StringSerializePacket(p)) = Len(Chars(p)) + 1
  <1>1. Chars(p) \in Seq(Nat)
    <2>1. CASE p.kind = "Text"
      <3>1. p.data \in Seq(Characters)
        BY <2>1, PacketForm DEF IsText
      <3>2. Chars(p) = p.data
        BY <2>1 DEF Chars
      <3> QED
        BY <3>1, <3>2, CharactersAreNumbers, Zenon
    <2>2. CASE p.kind = "Binary"
      <3>1. p.data \in Seq(0 .. 255)
        BY <2>2, PacketForm DEF IsBinary
      <3>2. PICK d \in Seq(0 .. 255) : d = p.data
        BY <3>1
      <3>3. Chars(p) = Base64Encode(d)
        BY <2>2, <3>2 DEF Chars
      <3> QED
        BY <3>3, EncodedBytes
    <2>3. p.kind = "Text" \/ p.kind = "Binary"
      BY PacketForm DEF Empty
    <2> QED
      BY <2>1, <2>2, <2>3
  <1>2. <<p.type>> \in Seq(Nat) /\ Len(<<p.type>>) = 1
    <2>1. PICK t \in PacketTypes : t = p.type
      BY PacketForm
    <2>2. <<t>> \in Seq(Nat) /\ Len(<<t>>) = 1
      BY DEF PacketTypes
    <2> QED
      BY <2>1, <2>2
  <1>3. StringSerializePacket(p) = <<p.type>> \o Chars(p)
    BY Zenon DEF StringSerializePacket, Chars
  <1>4. PICK t, x : t = <<p.type>> /\ x = Chars(p)
    OBVIOUS
  <1>5. t \o x \in Seq(Nat) /\ Len(t \o x) = Len(x) + 1
    <2>1. t \in Seq(Nat) /\ x \in Seq(Nat) /\ Len(t) = 1
      BY <1>1, <1>2, <1>4
    <2>2. Len(t \o x) = Len(t) + Len(x) /\ t \o x \in Seq(Nat)
      BY <2>1, Joined
    <2> QED
      BY <2>1, <2>2
  <1> QED
    BY <1>1, <1>2, <1>3, <1>4, <1>5

\* One packet of a string payload.
OneString(p) ==
  LET s == StringSerializePacket(p) IN
    CASE p.kind = "Binary" -> Decimal[Len(s) + 1] \o <<Colon, LetterB>> \o s
      [] p.kind = "Text"   -> Decimal[Len(s)] \o <<Colon>> \o s
      [] OTHER -> <<>>

\* How sequences that are put together can be regrouped.
LEMMA Regrouped ==
  ASSUME NEW a \in Seq(Nat), NEW b \in Seq(Nat), NEW c \in Seq(Nat)
  PROVE  Cat(Cat(a, b), c) = Cat(a, Cat(b, c))
  <1>1. PICK V, n : V = Seq(Nat) /\ n = <<>>
    OBVIOUS
  <1>2. Monoid(V, n) /\ a \in V /\ b \in V /\ c \in V
    BY <1>1, Concatenation
  <1> QED
    BY <1>2, Zenon DEF Monoid

LEMMA RegroupedTwice ==
  ASSUME NEW a \in Seq(Nat), NEW b \in Seq(Nat), NEW c \in Seq(Nat), NEW d \in Seq(Nat),
         NEW e \in Seq(Nat)
  PROVE  Cat(Cat(Cat(a, b), Cat(c, d)), e) = Cat(a, Cat(b, Cat(c, Cat(d, e))))
  <1>1. PICK V, n : V = Seq(Nat) /\ n = <<>>
    OBVIOUS
  <1>2. Monoid(V, n)
    BY <1>1, Concatenation
  <1>3. a \in V /\ b \in V /\ c \in V /\ d \in V /\ e \in V
    BY <1>1
  <1>4. \A f \in V, g \in V, h \in V : Cat(f, g) \in V /\ Cat(Cat(f, g), h) = Cat(f, Cat(g, h))
    BY <1>2, ZenonT(60) DEF Monoid
  <1>5. PICK f \in V : f = Cat(c, d)
    BY <1>3, <1>4
  <1>6. Cat(f, e) = Cat(c, Cat(d, e))
    BY <1>3, <1>4, <1>5
  <1>7. Cat(b, f) \in V /\ Cat(Cat(a, b), f) = Cat(a, Cat(b, f))
    BY <1>3, <1>4
  <1>8. Cat(Cat(a, Cat(b, f)), e) = Cat(a, Cat(Cat(b, f), e))
    BY <1>3, <1>4, <1>7
  <1>9. Cat(Cat(b, f), e) = Cat(b, Cat(f, e))
    BY <1>3, <1>4
  <1> QED
    BY <1>5, <1>6, <1>7, <1>8, <1>9

\* How a packet followed by r is parsed.
ParsedAs(p, r, result) ==
  /\ Suits(Chars(p), r) => result = Ok(r, p)
  /\ ~ Suits(Chars(p), r) => result.status # "ok" \/ result.value # p

\* The first element is a digit, and there are three at least.
Proper(enc) == enc \in Seq(Nat) /\ Len(enc) >= 3 /\ enc[1] \in 1 .. 9

\* A number is in front of two elements.
LEMMA NumberInFront ==
  ASSUME NEW m \in Nat, m >= 1, NEW y \in Seq(Nat), Len(y) >= 2
  PROVE  Proper(Decimal[m] \o y)
  <1>1. PICK d, s : d = Decimal[m] /\ s = d \o y
    OBVIOUS
  <1>2. d \in Seq(Digits) /\ Len(d) >= 1 /\ d[1] >= 1
    BY <1>1, DecimalDigits, FirstDigit
  <1>3. d \in Seq(Nat)
    BY <1>2, DigitsAreNumbers
  <1>4. d[1] \in 1 .. 9
    <2>1. d[1] \in Digits
      BY <1>2
    <2> QED
      BY <1>2, <2>1 DEF Digits
  <1>5. /\ s \in Seq(Nat) /\ Len(s) = Len(d) + Len(y)
        /\ \A i \in 1 .. Len(d) : s[i] = d[i]
    BY <1>1, <1>3, Joined
  <1>6. Len(d) \in Nat /\ Len(y) \in Nat
    BY <1>3
  <1>7. Len(s) >= 3 /\ s[1] = d[1]
    BY <1>2, <1>5, <1>6
  <1> QED
    BY <1>1, <1>4, <1>5, <1>7 DEF Proper

\* A text packet of a string payload.
LEMMA TextParsed ==
  ASSUME NEW p \in EnginePackets, p.kind = "Text", NEW r, Follows(r)
  PROVE  /\ ParsedAs(p, r, ParseStringPacketInPayload(OneString(p) \o r))
         /\ Proper(OneString(p))
  <1>1. PICK t \in PacketTypes : t = p.type
    BY PacketForm
  <1>2. PICK x \in Seq(Nat) : x = Chars(p) /\ x = p.data
    BY TypeAndChars DEF Chars
  <1>3. p = Text(t, x) /\ Len(x) + 1 <= MaxUsize
    BY <1>1, <1>2, PacketForm DEF IsText
  <1>4. PICK c \in Seq(Nat) : c = <<Colon>> /\ Len(c) = 1
    <2>1. <<Colon>> \in Seq(Nat) /\ Len(<<Colon>>) = 1
      BY DEF Colon
    <2> QED
      BY <2>1
  <1>5. PICK k \in Seq(Nat) : k = <<t>> /\ Len(k) = 1
    <2>1. <<t>> \in Seq(Nat) /\ Len(<<t>>) = 1
      BY DEF PacketTypes
    <2> QED
      BY <2>1
  <1>6. PICK n \in Nat : n = Len(x)
    OBVIOUS
  <1>7. PICK m \in Nat : m = n + 1 /\ m >= 1 /\ m <= MaxUsize /\ m - 1 = n
    BY <1>3, <1>6
  <1>8. PICK d \in Seq(Nat) : d = Decimal[m]
    <2>1. Decimal[m] \in Seq(Digits)
      BY DecimalDigits
    <2> QED
      BY <2>1, DigitsAreNumbers
  <1>9. OneString(p) = (d \o c) \o (k \o x)
    <2>1. StringSerializePacket(p) = k \o x /\ Len(StringSerializePacket(p)) = m
      BY <1>1, <1>2, <1>5, <1>6, <1>7, TypeAndChars
    <2> QED
      BY <1>4, <1>8, <2>1 DEF OneString
  <1>10. r \in Seq(Nat)
    BY DEF Follows
  <1>11. PICK body \in Seq(Nat) : body = k \o (x \o r)
    <2>1. x \o r \in Seq(Nat)
      BY <1>10, Joined
    <2> QED
      BY <2>1, Joined
  <1>12. OneString(p) \o r = d \o (c \o body)
    <2>1. Cat(Cat(Cat(d, c), Cat(k, x)), r) = Cat(d, Cat(c, Cat(k, Cat(x, r))))
      BY <1>10, RegroupedTwice
    <2> QED
      BY <1>9, <1>11, <2>1 DEF Cat
  <1>13. PICK plain : plain = ParsePlaintext(m - 1, body)
    OBVIOUS
  <1>14. PICK result : result = ParseStringPacketInPayload(OneString(p) \o r)
    OBVIOUS
  <1>15. result = IF plain.status # "error" THEN plain ELSE ParseBase64(m - 1, body)
    BY <1>4, <1>7, <1>8, <1>12, <1>13, <1>14, LengthTaken
  <1>16. ASSUME Suits(x, r)
         PROVE  ParsedAs(p, r, result)
    <2>1. plain = Ok(r, Text(t, x))
      <3>1. ParsePlaintext(Len(x), <<t>> \o (x \o r)) = Ok(r, Text(t, x))
        BY <1>10, <1>16, PlainParsed
      <3> QED
        BY <1>5, <1>6, <1>7, <1>11, <1>13, <3>1
    <2>2. result = Ok(r, p)
      BY <1>3, <1>15, <2>1 DEF Ok
    <2> QED
      BY <1>2, <1>16, <2>2 DEF ParsedAs
  <1>17. ASSUME ~ Suits(x, r)
         PROVE  ParsedAs(p, r, result)
    <2>1. Mistaken(t, x, body)
      BY <1>5, <1>11, <1>17, TypeMistaken
    <2>2. plain.status # "ok" \/ plain.value # p
      <3>1. \/ ParsePlaintext(Len(x), body).status # "ok"
            \/ ParsePlaintext(Len(x), body).value # Text(t, x)
        BY <2>1, PlainMistaken
      <3> QED
        BY <1>3, <1>6, <1>7, <1>13, <3>1
    <2>3. ParseBase64(m - 1, body) = Error
      <3>1. Len(body) > 0 => body[1] # LetterB
        <4>1. body[1] = t
          <5>1. x \o r \in Seq(Nat)
            BY <1>10, Joined
          <5>2. \A i \in 1 .. Len(k) : body[i] = k[i]
            BY <1>11, <5>1, Joined
          <5> QED
            BY <1>5, <5>2
        <4> QED
          BY <4>1 DEF LetterB, PacketTypes
      <3> QED
        BY <3>1, NoLetter
    <2>4. result.status # "ok" \/ result.value # p
      BY <1>15, <2>2, <2>3 DEF Error
    <2> QED
      BY <1>2, <1>17, <2>4 DEF ParsedAs
  <1>18. Proper(OneString(p))
    <2>1. PICK y \in Seq(Nat) : y = c \o (k \o x) /\ Len(y) >= 2
      <3>1. k \o x \in Seq(Nat) /\ Len(k \o x) = 1 + n
        BY <1>5, <1>6, Joined
      <3>2. PICK w \in Seq(Nat) : w = k \o x /\ Len(w) = 1 + n
        BY <3>1
      <3>3. c \o w \in Seq(Nat) /\ Len(c \o w) = Len(c) + Len(w)
        BY Joined
      <3>4. Len(c \o w) >= 2
        BY <1>4, <1>6, <3>2, <3>3
      <3> QED
        BY <3>2, <3>3, <3>4
    <2>2. OneString(p) = d \o y
      <3>1. PICK w \in Seq(Nat) : w = k \o x
        BY Joined
      <3>2. Cat(Cat(d, c), w) = Cat(d, Cat(c, w))
        BY Regrouped
      <3> QED
        BY <1>9, <2>1, <3>1, <3>2 DEF Cat
    <2> QED
      BY <1>7, <1>8, <2>1, <2>2, NumberInFront
  <1> QED
    BY <1>14, <1>16, <1>17, <1>18

\* Two elements put together.
LEMMA TwoElements ==
  ASSUME NEW a \in Nat, NEW b \in Nat
  PROVE  <<a, b>> = <<a>> \o <<b>>
  <1>1. PICK s, t, u : s = <<a>> /\ t = <<b>> /\ u = <<a, b>>
    OBVIOUS
  <1>2. /\ s \in Seq(Nat) /\ Len(s) = 1 /\ s[1] = a
        /\ t \in Seq(Nat) /\ Len(t) = 1 /\ t[1] = b
        /\ u \in Seq(Nat) /\ Len(u) = 2 /\ u[1] = a /\ u[2] = b
    BY <1>1
  <1>3. PICK v : v = s \o t
    OBVIOUS
  <1>4. v \in Seq(Nat) /\ Len(v) = 2 /\ v[1] = a /\ v[2] = b
    <2>1. /\ v \in Seq(Nat) /\ Len(v) = Len(s) + Len(t)
          /\ \A i \in 1 .. Len(s) : v[i] = s[i]
          /\ \A i \in 1 .. Len(t) : v[Len(s) + i] = t[i]
      <3>1. s \in Seq(Nat) /\ t \in Seq(Nat)
        BY <1>2
      <3> QED
        BY <1>3, <3>1, Joined
    <2> QED
      BY <1>2, <2>1
  <1>5. \A i \in 1 .. Len(u) : u[i] = v[i]
    BY <1>2, <1>4
  <1>6. u = v
    BY <1>2, <1>4, <1>5, SameSequence
  <1> QED
    BY <1>1, <1>3, <1>6

\* Three elements put together.
LEMMA ThreeElements ==
  ASSUME NEW a \in Nat, NEW b \in Nat, NEW c \in Nat
  PROVE  <<a, b, c>> = <<a>> \o <<b>> \o <<c>>
  <1>1. PICK s, t, u : s = <<a, b>> /\ t = <<c>> /\ u = <<a, b, c>>
    OBVIOUS
  <1>2. s \in Seq(Nat) /\ Len(s) = 2 /\ s[1] = a /\ s[2] = b
    BY <1>1
  <1>3. t \in Seq(Nat) /\ Len(t) = 1 /\ t[1] = c
    BY <1>1
  <1>4. u \in Seq(Nat) /\ Len(u) = 3 /\ u[1] = a /\ u[2] = b /\ u[3] = c
    BY <1>1
  <1>5. PICK v : v = s \o t
    OBVIOUS
  <1>6. v \in Seq(Nat) /\ Len(v) = 3 /\ v[1] = a /\ v[2] = b /\ v[3] = c
    <2>1. /\ v \in Seq(Nat) /\ Len(v) = Len(s) + Len(t)
          /\ \A i \in 1 .. Len(s) : v[i] = s[i]
          /\ \A i \in 1 .. Len(t) : v[Len(s) + i] = t[i]
      <3>1. s \in Seq(Nat) /\ t \in Seq(Nat)
        BY <1>2, <1>3
      <3> QED
        BY <1>5, <3>1, Joined
    <2> QED
      BY <1>2, <1>3, <2>1
  <1>7. \A i \in 1 .. Len(u) : u[i] = v[i]
    BY <1>4, <1>6
  <1>8. u = v
    BY <1>4, <1>6, <1>7, SameSequence
  <1> QED
    BY <1>1, <1>5, <1>8, TwoElements

\* A base64 packet of a string payload.
LEMMA BinaryInString ==
  ASSUME NEW p \in EnginePackets, p.kind = "Binary", NEW r, Follows(r)
  PROVE  /\ ParsedAs(p, r, ParseStringPacketInPayload(OneString(p) \o r))
         /\ Proper(OneString(p))
  <1>1. PICK t \in PacketTypes : t = p.type
    BY PacketForm
  <1>2. PICK data \in Seq(0 .. 255) : data = p.data
    BY PacketForm DEF IsBinary
  <1>3. p = Binary(t, data) /\ 4 * Len(data) + 2 <= MaxUsize
    BY <1>1, <1>2, PacketForm DEF IsBinary
  <1>4. PICK x \in Seq(Nat) : x = Base64Encode(data)
    BY EncodedBytes
  <1>5. Chars(p) = x
    BY <1>2, <1>4 DEF Chars
  <1>6. PICK n \in Nat : n = Len(x) /\ n + 2 <= MaxUsize
    <2>1. Len(x) = 4 * Len(data)
      BY <1>4, EncodedBytes
    <2> QED
      BY <1>3, <2>1
  <1>7. PICK m \in Nat : m = n + 2 /\ m >= 1 /\ m <= MaxUsize /\ m - 1 = n + 1
    BY <1>6
  <1>8. PICK c \in Seq(Nat) : c = <<Colon>>
    <2>1. <<Colon>> \in Seq(Nat)
      BY DEF Colon
    <2> QED
      BY <2>1
  <1>9. PICK b \in Seq(Nat) : b = <<LetterB>>
    <2>1. <<LetterB>> \in Seq(Nat)
      BY DEF LetterB
    <2> QED
      BY <2>1
  <1>10. PICK cb \in Seq(Nat) : cb = <<Colon, LetterB>> /\ cb = Cat(c, b) /\ Len(cb) = 2
    <2>1. <<Colon, LetterB>> \in Seq(Nat) /\ Len(<<Colon, LetterB>>) = 2
      BY DEF Colon, LetterB
    <2>2. <<Colon, LetterB>> = <<Colon>> \o <<LetterB>>
      <3>1. Colon \in Nat /\ LetterB \in Nat
        BY DEF Colon, LetterB
      <3> QED
        BY <3>1, TwoElements
    <2> QED
      BY <1>8, <1>9, <2>1, <2>2 DEF Cat
  <1>11. PICK k \in Seq(Nat) : k = <<t>>
    <2>1. <<t>> \in Seq(Nat)
      BY DEF PacketTypes
    <2> QED
      BY <2>1
  <1>12. PICK d \in Seq(Nat) : d = Decimal[m]
    <2>1. Decimal[m] \in Seq(Digits)
      BY DecimalDigits
    <2> QED
      BY <2>1, DigitsAreNumbers
  <1>13. OneString(p) = (d \o cb) \o (k \o x)
    <2>1. StringSerializePacket(p) = k \o x /\ Len(StringSerializePacket(p)) = n + 1
      BY <1>1, <1>5, <1>6, <1>11, TypeAndChars
    <2>2. (n + 1) + 1 = m
      BY <1>7
    <2> QED
      BY <1>10, <1>12, <2>1, <2>2 DEF OneString
  <1>14. PICK s \in Seq(Nat) : s = k \o (x \o r)
    <2>1. r \in Seq(Nat)
      BY DEF Follows
    <2>2. PICK y \in Seq(Nat) : y = x \o r
      BY <2>1, Joined
    <2>3. k \o y \in Seq(Nat)
      BY Joined
    <2> QED
      BY <2>2, <2>3
  <1>15. PICK body \in Seq(Nat) : body = b \o s
    BY Joined
  <1>16. OneString(p) \o r = d \o (c \o body)
    <2>1. r \in Seq(Nat)
      BY DEF Follows
    <2>2. Cat(Cat(Cat(d, cb), Cat(k, x)), r) = Cat(d, Cat(cb, Cat(k, Cat(x, r))))
      BY <2>1, RegroupedTwice, SMTT(60)
    <2>3. Cat(Cat(c, b), s) = Cat(c, Cat(b, s))
      BY Regrouped
    <2>4. Cat(d, Cat(cb, s)) = Cat(d, Cat(c, body))
      BY <1>10, <1>15, <2>3 DEF Cat
    <2> QED
      BY <1>13, <1>14, <2>2, <2>4 DEF Cat
  <1>17. PICK result : result = ParseStringPacketInPayload(OneString(p) \o r)
    OBVIOUS
  <1>18. result = ParseBase64(n + 1, <<LetterB>> \o s)
    <2>1. ParsePlaintext(m - 1, body) = Error
      <3>1. Len(body) > 0 => body[1] \notin Digits
        <4>1. body[1] = LetterB
          BY <1>9, <1>15, Lettered
        <4> QED
          BY <4>1 DEF LetterB, Digits
      <3> QED
        BY <3>1, NoType
    <2>2. ParseStringPacketInPayload(d \o (c \o body)) = ParseBase64(m - 1, body)
      <3>1. ParseStringPacketInPayload(Decimal[m] \o (<<Colon>> \o body))
            = IF ParsePlaintext(m - 1, body).status # "error" THEN ParsePlaintext(m - 1, body)
              ELSE ParseBase64(m - 1, body)
        BY <1>7, LengthTaken
      <3> QED
        BY <1>8, <1>12, <2>1, <3>1 DEF Error
    <2> QED
      BY <1>7, <1>9, <1>15, <1>16, <1>17, <2>2
  <1>19. ASSUME Suits(x, r)
         PROVE  ParsedAs(p, r, result)
    <2>1. r \in Seq(Nat)
      BY DEF Follows
    <2>2. ParseBase64(Len(x) + 1, <<LetterB>> \o (<<t>> \o (x \o r))) = Ok(r, Binary(t, data))
      BY <1>4, <1>19, <2>1, Base64Read
    <2>3. result = Ok(r, p)
      BY <1>3, <1>6, <1>11, <1>14, <1>18, <2>2
    <2> QED
      BY <1>5, <1>19, <2>3 DEF ParsedAs
  <1>20. ASSUME ~ Suits(x, r)
         PROVE  ParsedAs(p, r, result)
    <2>1. Mistaken(t, x, <<t>> \o (x \o r))
      BY <1>20, TypeMistaken
    <2>2. Mistaken(t, x, s)
      BY <1>11, <1>14, <2>1
    <2>3. \/ ParseBase64(Len(x) + 1, <<LetterB>> \o s).status # "ok"
          \/ ParseBase64(Len(x) + 1, <<LetterB>> \o s).value # Binary(t, data)
      BY <1>4, <2>2, Base64Mistaken
    <2>4. result.status # "ok" \/ result.value # p
      BY <1>3, <1>6, <1>18, <2>3
    <2> QED
      BY <1>5, <1>20, <2>4 DEF ParsedAs
  <1>21. Proper(OneString(p))
    <2>1. PICK w \in Seq(Nat) : w = k \o x
      BY Joined
    <2>2. PICK y \in Seq(Nat) : y = cb \o w /\ Len(y) >= 2
      <3>1. cb \o w \in Seq(Nat) /\ Len(cb \o w) = Len(cb) + Len(w)
        BY Joined
      <3>2. Len(w) \in Nat
        OBVIOUS
      <3>3. Len(cb \o w) >= 2
        BY <1>10, <3>1, <3>2
      <3> QED
        BY <3>1, <3>3
    <2>3. Cat(Cat(d, cb), w) = Cat(d, Cat(cb, w))
      BY Regrouped, SMTT(60)
    <2>4. OneString(p) = d \o y
      BY <1>13, <2>1, <2>2, <2>3 DEF Cat
    <2> QED
      BY <1>7, <1>12, <2>2, <2>4, NumberInFront
  <1> QED
    BY <1>17, <1>19, <1>20, <1>21

\* A packet of kind Empty is left out, and the others are proper.
LEMMA StringForms ==
  ASSUME NEW p \in EnginePackets
  PROVE  /\ OneString(p) \in Seq(Nat)
         /\ p.kind = "Empty" => OneString(p) = <<>>
         /\ p.kind # "Empty" => Proper(OneString(p))
  <1>1. ASSUME p.kind # "Empty"
        PROVE  Proper(OneString(p))
    <2>1. p.kind = "Text" \/ p.kind = "Binary"
      BY <1>1, PacketForm DEF Empty
    <2>2. PICK r : r = <<>>
      OBVIOUS
    <2>3. Follows(r)
      BY <2>2 DEF Follows
    <2> QED
      BY <2>1, <2>3, TextParsed, BinaryInString
  <1>2. p.kind = "Empty" => OneString(p) = <<>>
    BY DEF OneString
  <1>3. OneString(p) \in Seq(Nat)
    <2>1. PICK none : none = <<>>
      OBVIOUS
    <2>2. none \in Seq(Nat)
      BY <2>1
    <2> QED
      BY <1>1, <1>2, <2>1, <2>2, Zenon DEF Proper
  <1> QED
    BY <1>1, <1>2, <1>3

\* Any other packet is parsed, as itself or not.
LEMMA StringParsed ==
  ASSUME NEW p \in EnginePackets, p.kind # "Empty", NEW r, Follows(r)
  PROVE  ParsedAs(p, r, ParseStringPacketInPayload(OneString(p) \o r))
  <1>1. p.kind = "Text" \/ p.kind = "Binary"
    BY PacketForm DEF Empty
  <1> QED
    BY <1>1, TextParsed, BinaryInString

\* The parser of a packet ends.
LEMMA StringParserEnds ==
  ASSUME NEW s
  PROVE  ParseStringPacketInPayload(s).status # "running"
  <1>1. PICK len : len = TakeUsize(s)
    OBVIOUS
  <1>2. len.status \in {"ok", "error", "failure"}
    <2>1. PICK r : r = TakeWhile1(Digits, s)
      OBVIOUS
    <2>2. r.status \in {"ok", "error"}
      <3>1. \E n : r = Error \/ r = Take(n, s)
        BY <2>1, Zenon DEF TakeWhile1
      <3> QED
        BY <3>1, TakeStatus DEF Error
    <2>3. len = IF r.status # "ok" THEN r
                ELSE IF Value(r.value) > MaxUsize THEN Failure ELSE Ok(r.rest, Value(r.value))
      BY <1>1, <2>1 DEF TakeUsize, TakeNumber
    <2> QED
      BY <2>2, <2>3 DEF Ok, Failure
  <1>3. ASSUME NEW n, NEW body
        PROVE  ParsePlaintext(n, body).status # "running"
    <2>1. PICK u : u = TakeU8(body)
      OBVIOUS
    <2>2. PICK d : d = Take(n, u.rest)
      OBVIOUS
    <2>3. ParsePlaintext(n, body)
          = IF u.status # "ok" THEN u
            ELSE IF d.status # "ok" THEN d
            ELSE IF u.value \notin PacketTypes THEN Error
            ELSE Ok(d.rest, Text(u.value, d.value))
      BY <2>1, <2>2 DEF ParsePlaintext
    <2>4. u.status # "running" /\ d.status # "running"
      BY <2>1, <2>2, TakeStatus, TakeU8Status
    <2> QED
      BY <2>3, <2>4 DEF Ok, Error
  <1>4. ASSUME NEW n, NEW body
        PROVE  ParseBase64(n, body).status # "running"
    <2>1. PICK u : u = TakeU8(Tail(body))
      OBVIOUS
    <2>2. PICK d : d = Take(n - 1, u.rest)
      OBVIOUS
    <2>3. PICK b : b = Base64Decode(d.value)
      OBVIOUS
    <2>4. PICK result : result = ParseBase64(n, body)
      OBVIOUS
    <2>5. result \in {Error, Underflow, u, d, b, Ok(d.rest, Binary(u.value, b.value))}
      BY <2>1, <2>2, <2>3, <2>4, Zenon DEF ParseBase64
    <2>6. b.status # "running"
      <3>1. \E data : b = Failure \/ b = Ok(<<>>, data)
        BY <2>3, Zenon DEF Base64Decode
      <3> QED
        BY <3>1 DEF Failure, Ok
    <2>7. u.status # "running" /\ d.status # "running"
      BY <2>1, <2>2, TakeStatus, TakeU8Status
    <2> QED
      BY <2>4, <2>5, <2>6, <2>7 DEF Error, Underflow, Ok
  <1>5. PICK plain, base64 : /\ plain = ParsePlaintext(len.value - 1, Tail(len.rest))
                             /\ base64 = ParseBase64(len.value - 1, Tail(len.rest))
    OBVIOUS
  <1>6. ParseStringPacketInPayload(s) \in {len, Error, Underflow, plain, base64}
    BY <1>1, <1>5, Zenon DEF ParseStringPacketInPayload
  <1>7. plain.status # "running" /\ base64.status # "running"
    BY <1>3, <1>4, <1>5
  <1> QED
    BY <1>2, <1>6, <1>7 DEF Error, Underflow

\* Nothing is no packet.
LEMMA NothingInString ==
  ASSUME NEW s \in Seq(Nat), ~ (Len(s) > 0)
  PROVE  ParseStringPacketInPayload(s) = Error
  <1>1. TakeWhile1(Digits, s) = Error
    BY NothingTaken
  <1>2. TakeUsize(s) = Error
    BY <1>1 DEF TakeUsize, TakeNumber, Error
  <1> QED
    BY <1>2 DEF ParseStringPacketInPayload, Error

-----------------------------------------------------------------------------
(* The packets that are kept *)

Strings(ps) == [i \in 1 .. Len(ps) |-> OneString(ps[i])]

\* StringSerializePayload puts the packets one after the other.
LEMMA StringPayload ==
  \A ps : StringSerializePayload(ps) = FlattenSeq(Strings(ps))
  BY DEF StringSerializePayload, Strings, OneString

\* One more packet.
LEMMA StringsMore ==
  ASSUME NEW q \in Seq(EnginePackets), NEW p \in EnginePackets
  PROVE  FlattenSeq(Strings(Append(q, p))) = FlattenSeq(Strings(q)) \o OneString(p)
  <1>1. PICK n \in Nat : n = Len(q)
    OBVIOUS
  <1>2. PICK m : m = Append(q, p)
    OBVIOUS
  <1>3. Len(m) = n + 1 /\ (\A i \in 1 .. n : m[i] = q[i]) /\ m[n + 1] = p
    BY <1>1, <1>2
  <1>4. \A i \in 1 .. n : q[i] \in EnginePackets
    BY <1>1
  <1>5. PICK ss : ss = Strings(q)
    OBVIOUS
  <1>6. ss = [i \in 1 .. n |-> OneString(q[i])]
    BY <1>1, <1>5 DEF Strings
  <1>7. ss \in [1 .. n -> Seq(Nat)]
    <2>1. \A i \in 1 .. n : OneString(q[i]) \in Seq(Nat)
      BY <1>4, StringForms
    <2> QED
      BY <1>6, <2>1, Zenon
  <1>8. PICK a \in Seq(Nat) : a = OneString(p)
    BY StringForms
  <1>9. PICK tt : tt = [i \in 1 .. n + 1 |-> IF i = n + 1 THEN a ELSE ss[i]] /\ OneMore(n, ss, a, tt)
    BY DEF OneMore
  <1>10. Strings(m) = tt
    <2>1. Strings(m) = [i \in 1 .. n + 1 |-> OneString(m[i])]
      BY <1>3 DEF Strings
    <2>2. ASSUME NEW i \in 1 .. n + 1
          PROVE  OneString(m[i]) = IF i = n + 1 THEN a ELSE ss[i]
      <3>1. CASE i = n + 1
        BY <1>3, <1>8, <3>1
      <3>2. CASE i # n + 1
        <4>1. i \in 1 .. n
          BY <3>2
        <4> QED
          BY <1>3, <1>6, <3>2, <4>1
      <3> QED
        BY <3>1, <3>2
    <2> QED
      BY <1>9, <2>1, <2>2, Zenon
  <1>11. FlattenSeq(tt) = FlattenSeq(ss) \o a
    <2>1. OneMore(n, ss, a, tt)
      BY <1>9
    <2> QED
      BY <1>7, <2>1, FlattenMore, ZenonT(60)
  <1> QED
    BY <1>2, <1>5, <1>8, <1>10, <1>11

Keep(p) == IF p.kind = "Empty" THEN <<>> ELSE <<p>>

\* The same for the packets that are kept.
LEMMA KeptMore ==
  ASSUME NEW q \in Seq(EnginePackets), NEW p \in EnginePackets
  PROVE  Kept(Append(q, p)) = Kept(q) \o Keep(p)
  <1>1. PICK n \in Nat : n = Len(q)
    OBVIOUS
  <1>2. PICK m : m = Append(q, p)
    OBVIOUS
  <1>3. Len(m) = n + 1 /\ (\A i \in 1 .. n : m[i] = q[i]) /\ m[n + 1] = p
    BY <1>1, <1>2
  <1>4. \A i \in 1 .. n : q[i] \in EnginePackets
    BY <1>1
  <1>5. PICK ss : ss = [i \in 1 .. n |-> Keep(q[i])]
    OBVIOUS
  <1>6. \A x \in EnginePackets : Keep(x) \in Seq(EnginePackets)
    BY DEF Keep
  <1>7. ss \in [1 .. n -> Seq(EnginePackets)]
    <2>1. \A i \in 1 .. n : Keep(q[i]) \in Seq(EnginePackets)
      BY <1>4, <1>6
    <2> QED
      BY <1>5, <2>1, Zenon
  <1>8. PICK a \in Seq(EnginePackets) : a = Keep(p)
    BY <1>6
  <1>9. PICK tt : tt = [i \in 1 .. n + 1 |-> IF i = n + 1 THEN a ELSE ss[i]] /\ OneMore(n, ss, a, tt)
    BY DEF OneMore
  <1>10. Kept(m) = FlattenSeq(tt)
    <2>1. Kept(m) = FlattenSeq([i \in 1 .. n + 1 |-> Keep(m[i])])
      BY <1>3 DEF Kept, Keep
    <2>2. ASSUME NEW i \in 1 .. n + 1
          PROVE  Keep(m[i]) = IF i = n + 1 THEN a ELSE ss[i]
      <3>1. CASE i = n + 1
        BY <1>3, <1>8, <3>1
      <3>2. CASE i # n + 1
        <4>1. i \in 1 .. n
          BY <3>2
        <4> QED
          BY <1>3, <1>5, <3>2, <4>1
      <3> QED
        BY <3>1, <3>2
    <2>3. [i \in 1 .. n + 1 |-> Keep(m[i])] = tt
      BY <1>9, <2>2, Zenon
    <2> QED
      BY <2>1, <2>3, Zenon
  <1>11. FlattenSeq(tt) = FlattenSeq(ss) \o a
    <2>1. OneMore(n, ss, a, tt)
      BY <1>9
    <2> QED
      BY <1>7, <2>1, FlattenMore
  <1>12. Kept(q) = FlattenSeq(ss)
    BY <1>1, <1>5 DEF Kept, Keep
  <1> QED
    BY <1>2, <1>8, <1>10, <1>11, <1>12

\* The packets with data.
Full == {p \in EnginePackets : p.kind # "Empty"}

\* The packets that are kept are all that is encoded.
KeepsStrings(ps) ==
  Kept(ps) \in Seq(Full) /\ FlattenSeq(Strings(ps)) = FlattenSeq(Strings(Kept(ps)))

LEMMA OneMoreKept ==
  ASSUME NEW q \in Seq(EnginePackets), NEW p \in EnginePackets, KeepsStrings(q)
  PROVE  KeepsStrings(Append(q, p))
  <1>1. PICK k \in Seq(Full) : k = Kept(q)
    BY DEF KeepsStrings
  <1>2. k \in Seq(EnginePackets)
    BY DEF Full
  <1>3. Kept(Append(q, p)) = k \o Keep(p)
    BY <1>1, KeptMore
  <1>4. PICK e : e = FlattenSeq(Strings(q))
    OBVIOUS
  <1>5. FlattenSeq(Strings(Append(q, p))) = e \o OneString(p)
    BY <1>4, StringsMore
  <1>6. e = FlattenSeq(Strings(k))
    BY <1>1, <1>4 DEF KeepsStrings
  <1>7. CASE p.kind = "Empty"
    <2>1. k \o Keep(p) = k
      BY <1>7 DEF Keep
    <2>2. e \o OneString(p) = e
      <3>1. OneString(p) = <<>>
        BY <1>7, StringForms
      <3>2. e \in Seq(Nat)
        <4>1. PICK n \in Nat : n = Len(q)
          OBVIOUS
        <4>2. Strings(q) \in [1 .. n -> Seq(Nat)]
          <5>1. \A i \in 1 .. n : q[i] \in EnginePackets
            BY <4>1
          <5>2. \A i \in 1 .. n : OneString(q[i]) \in Seq(Nat)
            BY <5>1, StringForms
          <5>3. Strings(q) = [i \in 1 .. n |-> OneString(q[i])]
            BY <4>1 DEF Strings
          <5> QED
            BY <5>2, <5>3, Zenon
        <4>3. PICK pre, suf : Beginnings(Seq(Nat), <<>>, n, Strings(q), pre) /\ e = pre[n]
          BY <1>4, <4>2, Flattening, ZenonT(60)
        <4> QED
          BY <4>3 DEF Beginnings
      <3> QED
        BY <3>1, <3>2
    <2> QED
      BY <1>1, <1>3, <1>5, <1>6, <2>1, <2>2, Zenon DEF KeepsStrings
  <1>8. CASE p.kind # "Empty"
    <2>1. k \o Keep(p) = Append(k, p)
      BY <1>8 DEF Keep
    <2>2. p \in Full
      BY <1>8 DEF Full
    <2>3. Append(k, p) \in Seq(Full)
      BY <2>2
    <2>4. FlattenSeq(Strings(Append(k, p))) = FlattenSeq(Strings(k)) \o OneString(p)
      BY <1>2, StringsMore
    <2> QED
      BY <1>3, <1>5, <1>6, <2>1, <2>3, <2>4, Zenon DEF KeepsStrings
  <1> QED
    BY <1>7, <1>8

LEMMA AllKept ==
  ASSUME NEW ps \in Seq(EnginePackets)
  PROVE  KeepsStrings(ps)
  <1>1. PICK n \in Nat : n = Len(ps)
    OBVIOUS
  <1>2. PICK none : none = <<>>
    OBVIOUS
  <1>3. KeepsStrings(none)
    <2>1. none \in Seq(Full)
      BY <1>2
    <2>2. Kept(none) = none
      <3>1. PICK ss : ss = [i \in 1 .. Len(none) |-> IF none[i].kind = "Empty" THEN <<>> ELSE <<none[i]>>]
        OBVIOUS
      <3>2. PICK z \in Nat : z = 0
        OBVIOUS
      <3>3. ss \in [1 .. z -> Seq(Full)]
        BY <1>2, <3>1, <3>2
      <3>4. PICK pre, suf : Beginnings(Seq(Full), <<>>, z, ss, pre) /\ FlattenSeq(ss) = pre[z]
        BY <3>3, Flattening, ZenonT(60)
      <3> QED
        BY <1>2, <3>1, <3>2, <3>4, Zenon DEF Beginnings, Kept
    <2> QED
      BY <2>1, <2>2 DEF KeepsStrings
  <1> DEFINE T == {m \in 0 .. n : KeepsStrings(SubSeq(ps, 1, m))}
  <1>4. 0 \in T
    <2>1. SubSeq(ps, 1, 0) = none
      BY <1>2, NoneAndAll, Zenon
    <2>2. 0 \in 0 .. n /\ KeepsStrings(SubSeq(ps, 1, 0))
      <3>1. 0 \in 0 .. n
        OBVIOUS
      <3> QED
        BY <1>3, <2>1, <3>1, Zenon
    <2> QED
      BY <2>2, Zenon
  <1>5. ASSUME NEW m \in 0 .. n - 1, m \in T
        PROVE  m + 1 \in T
    <2>1. PICK q \in Seq(EnginePackets) : q = SubSeq(ps, 1, m) /\ SubSeq(ps, 1, m + 1) = Append(q, ps[m + 1])
      <3>1. m \in Nat /\ m < Len(ps)
        BY <1>1
      <3>2. /\ SubSeq(ps, 1, m + 1) = Append(SubSeq(ps, 1, m), ps[m + 1])
            /\ SubSeq(ps, 1, m) \in Seq(EnginePackets)
        BY <3>1, FirstPackets
      <3> QED
        BY <3>2, Zenon
    <2>2. ps[m + 1] \in EnginePackets
      BY <1>1
    <2>3. KeepsStrings(q)
      BY <1>5, <2>1
    <2>4. KeepsStrings(Append(q, ps[m + 1]))
      BY <2>2, <2>3, OneMoreKept
    <2>5. m + 1 \in 0 .. n /\ KeepsStrings(SubSeq(ps, 1, m + 1))
      <3>1. m + 1 \in 0 .. n
        OBVIOUS
      <3> QED
        BY <2>1, <2>4, <3>1, Zenon
    <2> QED
      BY <2>5, Zenon
  <1>6. \A m \in 0 .. n : m \in T
    <2> HIDE DEF T
    <2> QED
      BY <1>4, <1>5, BoundedInduction
  <1>7. KeepsStrings(SubSeq(ps, 1, n))
    BY <1>6
  <1> QED
    BY <1>1, <1>7, NoneAndAll

-----------------------------------------------------------------------------
(* String payloads *)

\* A packet of q that is to come back: its characters suit what follows.
StringFits(q, k) ==
  /\ ~ StartsWithDigit(Chars(q[k]))
  /\ Chars(q[k]) = <<>> => k = Len(q)

\* What follows a packet is a length, or nothing behind the last.
LEMMA NextLength ==
  ASSUME NEW q \in Seq(Full), NEW n \in Nat, n = Len(q),
         NEW suf, Remainders(n, Strings(q), suf), NEW k \in 0 .. n
  PROVE  Follows(suf[k]) /\ (Len(suf[k]) > 0 <=> k # n)
  <1>1. CASE k = n
    <2>1. suf[k] = <<>>
      BY <1>1 DEF Remainders
    <2> QED
      BY <1>1, <2>1 DEF Follows
  <1>2. CASE k # n
    <2>1. PICK j \in 1 .. n : j = k + 1 /\ j - 1 = k /\ j \in 0 .. n
      BY <1>2
    <2>2. PICK b \in Seq(Nat) : b = suf[j]
      BY <2>1 DEF Remainders
    <2>3. PICK p \in Full : p = q[j]
      BY <2>1
    <2>4. PICK a : a = OneString(p)
      OBVIOUS
    <2>5. Proper(a)
      BY <2>4, StringForms DEF Full
    <2>6. a \in Seq(Nat) /\ Len(a) >= 3 /\ a[1] \in 1 .. 9
      BY <2>5 DEF Proper
    <2>7. PICK s : s = suf[k]
      OBVIOUS
    <2>8. s = a \o b
      <3>1. Strings(q)[j] = a
        BY <2>1, <2>3, <2>4 DEF Strings
      <3>2. suf[j - 1] = Strings(q)[j] \o suf[j]
        BY <2>1 DEF Remainders
      <3> QED
        BY <2>1, <2>2, <2>7, <3>1, <3>2
    <2>9. s \in Seq(Nat) /\ Len(s) = Len(a) + Len(b) /\ \A i \in 1 .. Len(a) : s[i] = a[i]
      BY <2>6, <2>8, Joined
    <2>10. Len(a) \in Nat /\ Len(b) \in Nat
      BY <2>6
    <2>11. Len(s) > 0 /\ s[1] = a[1]
      BY <2>6, <2>9, <2>10, SMTT(60)
    <2>12. Follows(s)
      BY <2>6, <2>9, <2>11 DEF Follows
    <2> QED
      BY <1>2, <2>7, <2>11, <2>12
  <1> QED
    BY <1>1, <1>2

\* A packet suits what follows exactly when it fits.
LEMMA SuitsIfFits ==
  ASSUME NEW q \in Seq(Full), NEW n \in Nat, n = Len(q),
         NEW suf, Remainders(n, Strings(q), suf), NEW k \in 1 .. n
  PROVE  Suits(Chars(q[k]), suf[k]) <=> StringFits(q, k)
  <1>1. PICK p \in Full : p = q[k]
    OBVIOUS
  <1>2. p \in EnginePackets /\ p.kind # "Empty"
    BY DEF Full
  <1>3. PICK x \in Seq(Nat) : x = Chars(p)
    BY <1>2, TypeAndChars
  <1>4. PICK r \in Seq(Nat) : r = suf[k]
    BY DEF Remainders
  <1>5. Len(r) > 0 <=> k # n
    <2>1. k \in 0 .. n
      OBVIOUS
    <2> QED
      BY <1>4, <2>1, NextLength
  <1>6. /\ Len(x) \in Nat /\ Len(r) \in Nat
        /\ x = <<>> <=> Len(x) = 0
    OBVIOUS
  <1>7. Suits(x, r) <=> ~ StartsWithDigit(x) /\ (x = <<>> => k = n)
    <2>1. StartsWithDigit(x) <=> Len(x) > 0 /\ x[1] \in Digits
      BY <1>6 DEF StartsWithDigit
    <2>2. PICK l \in Nat, m \in Nat : l = Len(x) /\ m = Len(r)
      BY <1>6
    <2>3. Suits(x, r) <=> (l > 0 => x[1] \notin Digits) /\ (l = 0 => m = 0)
      BY <2>2, Zenon DEF Suits
    <2>4. (m = 0 <=> k = n) /\ (l > 0 <=> l # 0)
      BY <1>5, <2>2
    <2>5. x = <<>> <=> l = 0
      BY <1>6, <2>2, Zenon
    <2>6. StartsWithDigit(x) <=> l > 0 /\ x[1] \in Digits
      BY <2>1, <2>2, Zenon
    <2> QED
      BY <2>3, <2>4, <2>5, <2>6, Zenon
  <1> QED
    BY <1>1, <1>3, <1>4, <1>7, Zenon DEF StringFits

\* The packets q are decoded exactly when each of them fits.
LEMMA StringsDecoded ==
  ASSUME NEW q \in Seq(Full), NEW d, d = StringDecodePayload(FlattenSeq(Strings(q)))
  PROVE  (d.status = "ok" /\ d.items = q) <=> \A k \in 1 .. Len(q) : StringFits(q, k)
  <1>1. PICK n \in Nat : n = Len(q)
    OBVIOUS
  <1>2. PICK enc : enc = Strings(q)
    OBVIOUS
  <1>3. ASSUME NEW k \in 1 .. n
        PROVE  q[k] \in EnginePackets /\ q[k].kind # "Empty" /\ enc[k] = OneString(q[k])
    <2>1. q[k] \in Full
      BY <1>1
    <2> QED
      BY <1>1, <1>2, <2>1 DEF Full, Strings
  <1>4. \A k \in 1 .. n : enc[k] \in Seq(Nat) /\ Len(enc[k]) >= 3
    <2> TAKE k \in 1 .. n
    <2>1. Proper(enc[k])
      BY <1>3, StringForms
    <2> QED
      BY <2>1 DEF Proper
  <1>5. enc \in [1 .. n -> Seq(Nat)]
    <2>1. enc = [k \in 1 .. n |-> OneString(q[k])]
      BY <1>1, <1>2 DEF Strings
    <2>2. \A k \in 1 .. n : OneString(q[k]) \in Seq(Nat)
      BY <1>3, <1>4
    <2> QED
      BY <2>1, <2>2, Zenon
  <1>6. PICK suf : Remainders(n, enc, suf) /\ FlattenSeq(enc) = suf[0]
    BY <1>5, SuffixesExist
  <1>7. PICK L \in Nat : IsLimit(L, suf[0]) /\ n + 1 <= L
    BY <1>4, <1>6, Enough
  <1>8. PICK parsed : parsed = [k \in 0 .. n |-> ParseStringPacketInPayload(suf[k])]
    OBVIOUS
  <1>9. PICK f, results :
          Folding(L, n, suf, parsed, f, results) /\ StringDecodePayload(suf[0]) = f[L]
    BY <1>7, <1>8, StringFold
  <1>10. d = f[L]
    BY <1>2, <1>6, <1>9
  <1>11. ASSUME NEW k \in 1 .. n
         PROVE  ParsedAs(q[k], suf[k], parsed[k - 1])
    <2>1. Follows(suf[k])
      <3>1. k \in 0 .. n
        OBVIOUS
      <3> QED
        BY <1>1, <1>2, <1>6, <3>1, NextLength
    <2>2. suf[k - 1] = OneString(q[k]) \o suf[k]
      BY <1>3, <1>6 DEF Remainders
    <2>3. parsed[k - 1] = ParseStringPacketInPayload(OneString(q[k]) \o suf[k])
      <3>1. k - 1 \in 0 .. n
        OBVIOUS
      <3> QED
        BY <1>8, <2>2, <3>1
    <2> QED
      BY <1>3, <2>1, <2>3, StringParsed
  <1>12. \A k \in 1 .. n : parsed[k - 1] = Ok(suf[k], q[k]) <=> Suits(Chars(q[k]), suf[k])
    BY <1>11 DEF ParsedAs, Ok
  <1>13. \A k \in 1 .. n : \/ parsed[k - 1] = Ok(suf[k], q[k])
                           \/ parsed[k - 1].status # "ok"
                           \/ parsed[k - 1].value # q[k]
    BY <1>11 DEF ParsedAs
  <1>14. \A k \in 0 .. n : parsed[k].status # "running"
    BY <1>8, StringParserEnds
  <1>15. parsed[n].status = "error"
    <2>1. PICK s \in Seq(Nat) : s = suf[n] /\ ~ (Len(s) > 0)
      <3>1. n \in 0 .. n
        OBVIOUS
      <3>2. Follows(suf[n]) /\ ~ (Len(suf[n]) > 0)
        BY <1>1, <1>2, <1>6, <3>1, NextLength
      <3> QED
        BY <3>2 DEF Follows
    <2>2. ParseStringPacketInPayload(s) = Error
      BY <2>1, NothingInString
    <2> QED
      BY <1>8, <2>1, <2>2 DEF Error
  <1>16. (f[L].status = "ok" /\ f[L].items = q)
         <=> \A k \in 1 .. n : parsed[k - 1] = Ok(suf[k], q[k])
    BY <1>1, <1>7, <1>9, <1>13, <1>14, <1>15, FoldRoundTrip, SMTT(60)
  <1>17. \A k \in 1 .. n : Suits(Chars(q[k]), suf[k]) <=> StringFits(q, k)
    BY <1>1, <1>2, <1>6, SuitsIfFits
  <1> QED
    BY <1>1, <1>10, <1>12, <1>16, <1>17

-----------------------------------------------------------------------------
(* The length of a packet in the binary form *)

\* A sequence read backwards, and back again.
LEMMA Reversed ==
  ASSUME NEW X, NEW s \in Seq(X)
  PROVE  /\ Reverse(s) \in Seq(X) /\ Len(Reverse(s)) = Len(s)
         /\ Reverse(Reverse(s)) = s
  <1>1. PICK n \in Nat : n = Len(s)
    OBVIOUS
  <1>2. \A i \in 1 .. n : (n - i) + 1 \in 1 .. n /\ (n - ((n - i) + 1)) + 1 = i
    OBVIOUS
  <1>3. PICK t : t = Reverse(s)
    OBVIOUS
  <1>4. t = [i \in 1 .. n |-> s[(n - i) + 1]]
    BY <1>1, <1>3 DEF Reverse
  <1>5. t \in Seq(X) /\ Len(t) = n
    <2>1. \A i \in 1 .. n : s[i] \in X
      BY <1>1
    <2>2. \A i \in 1 .. n : t[i] \in X
      BY <1>2, <1>4, <2>1
    <2> QED
      BY <1>4, <2>2
  <1>6. PICK u : u = Reverse(t)
    OBVIOUS
  <1>7. u = [i \in 1 .. n |-> t[(n - i) + 1]]
    BY <1>5, <1>6 DEF Reverse
  <1>8. \A i \in 1 .. n : u[i] = s[i]
    <2> TAKE i \in 1 .. n
    <2>1. PICK j \in 1 .. n : j = (n - i) + 1 /\ (n - j) + 1 = i
      BY <1>2
    <2>2. u[i] = t[j] /\ t[j] = s[(n - j) + 1]
      BY <1>4, <1>7, <2>1
    <2> QED
      BY <2>1, <2>2
  <1>9. u \in Seq(X) /\ Len(u) = n
    <2>1. \A i \in 1 .. n : u[i] \in X
      BY <1>1, <1>8
    <2> QED
      BY <1>7, <2>1
  <1>10. u = s
    BY <1>1, <1>8, <1>9, SameSequence
  <1> QED
    BY <1>1, <1>3, <1>5, <1>6, <1>10

\* What is behind the length of a packet, which the bytes d make.
BehindLength(h, d, body) ==
  IF Len(d) > Len(Decimal[MaxU32]) \/ Value(Reverse(d)) > MaxU32 THEN Overflow
  ELSE IF Value(Reverse(d)) = 0 THEN Underflow
  ELSE IF h = 0 THEN ParseStringDataPacket(Value(Reverse(d)) - 1, body)
  ELSE ParseBinaryDataPacket(Value(Reverse(d)) - 1, body)

\* The kind, the length and the separator.
LEMMA HeaderRead ==
  ASSUME NEW h \in {0, 1}, NEW d \in Seq(0 .. 254), Len(d) >= 1, NEW body \in Seq(Nat)
  PROVE  ParseBinaryPacketInPayload(<<h>> \o (d \o (<<Separator>> \o body)))
         = BehindLength(h, d, body)
  <1>1. Separator \in Nat /\ Separator \notin 0 .. 254 /\ h \in Nat
    BY DEF Separator
  <1>2. PICK y : y = <<Separator>> \o body
    OBVIOUS
  <1>3. /\ y \in Seq(Nat) /\ y # <<>> /\ Tail(y) = body
        /\ Len(y) > 0 => y[1] \notin 0 .. 254
    BY <1>1, <1>2, OneInFront
  <1>4. d \in Seq(Nat) /\ \A i \in 1 .. Len(d) : d[i] \in 0 .. 254
    <2>1. PICK X : X = 0 .. 254
      OBVIOUS
    <2>2. d \in Seq(X) /\ \A c \in X : c \in Nat
      BY <2>1
    <2>3. d \in Seq(Nat) /\ \A i \in 1 .. Len(d) : d[i] \in X
      BY <2>2
    <2> QED
      BY <2>1, <2>3
  <1>5. PICK x : x = d \o y
    OBVIOUS
  <1>6. x \in Seq(Nat)
    BY <1>3, <1>4, <1>5, Joined
  <1>7. TakeWhile1(0 .. 254, x) = Ok(y, d)
    <2>1. Len(d) >= 1 /\ y \in Seq(Nat)
      BY <1>3
    <2> QED
      BY <1>3, <1>4, <1>5, <2>1, RunTaken, Zenon
  <1>8. PICK s : s = <<h>> \o x
    OBVIOUS
  <1>9. s # <<>> /\ Head(s) = h /\ Tail(s) = x
    BY <1>1, <1>6, <1>8, OneInFront
  <1>10. PICK v : v = Value(Reverse(d))
    OBVIOUS
  <1>11. ParsePacketLength(x) = IF Len(d) > Len(Decimal[MaxU32]) \/ v > MaxU32 THEN Overflow ELSE Ok(y, v)
    <2>1. PICK r : r = TakeWhile1(0 .. 254, x)
      OBVIOUS
    <2>2. r.status = "ok" /\ r.rest = y /\ r.value = d
      BY <1>7, <2>1 DEF Ok
    <2> QED
      BY <1>10, <2>1, <2>2, ZenonT(60) DEF ParsePacketLength
  <1>12. PICK len : len = ParsePacketLength(x)
    OBVIOUS
  <1>13. h \in {0, 1}
    OBVIOUS
  <1>14. ParseBinaryPacketInPayload(s) = BehindLength(h, d, body)
    <2>1. CASE Len(d) > Len(Decimal[MaxU32]) \/ v > MaxU32
      <3>1. len = Overflow /\ len.status # "ok"
        BY <1>11, <1>12, <2>1 DEF Overflow
      <3> QED
        BY <1>9, <1>10, <1>12, <1>13, <2>1, <3>1, Zenon DEF ParseBinaryPacketInPayload, BehindLength
    <2>2. CASE ~ (Len(d) > Len(Decimal[MaxU32]) \/ v > MaxU32)
      <3>1. len.status = "ok" /\ len.rest = y /\ len.value = v
        BY <1>11, <1>12, <2>2 DEF Ok
      <3> QED
        BY <1>3, <1>9, <1>10, <1>12, <1>13, <2>2, <3>1, ZenonT(60) DEF ParseBinaryPacketInPayload, BehindLength
    <2> QED
      BY <2>1, <2>2
  <1> QED
    BY <1>2, <1>5, <1>8, <1>14

\* A length that the encoder wrote.
LEMMA LengthRead ==
  ASSUME NEW m \in Nat, m >= 1, m <= MaxU32, NEW h \in {0, 1}, NEW body \in Seq(Nat)
  PROVE  /\ EncodePacketLength(m) \in Seq(Nat) /\ Len(EncodePacketLength(m)) >= 1
         /\ ParseBinaryPacketInPayload(<<h>> \o (EncodePacketLength(m) \o (<<Separator>> \o body)))
            = IF h = 0 THEN ParseStringDataPacket(m - 1, body) ELSE ParseBinaryDataPacket(m - 1, body)
  <1>1. PICK c, d : c = Decimal[m] /\ d = Reverse(c)
    OBVIOUS
  <1>2. c \in Seq(Digits) /\ Len(c) >= 1
    BY <1>1, DecimalDigits, FirstDigit
  <1>3. d \in Seq(Digits) /\ Len(d) = Len(c) /\ Reverse(d) = c
    BY <1>1, <1>2, Reversed
  <1>4. d \in Seq(Nat)
    BY <1>3, DigitsAreNumbers
  <1>5. d \in Seq(0 .. 254)
    <2>1. \A i \in Digits : i \in 0 .. 254
      BY DEF Digits
    <2> QED
      BY <1>3, <2>1
  <1>6. Value(Reverse(d)) = m
    BY <1>1, <1>3, ValueOfDecimal
  <1>7. ~ (Len(d) > Len(Decimal[MaxU32]) \/ m > MaxU32)
    <2>1. MaxU32 \in Nat
      BY MaxAssumption
    <2>2. Len(Decimal[m]) <= Len(Decimal[MaxU32])
      BY <2>1, LongerNumbers
    <2>3. Decimal[MaxU32] \in Seq(Digits) /\ Len(Decimal[MaxU32]) \in Nat /\ Len(d) \in Nat
      <3>1. Decimal[MaxU32] \in Seq(Digits)
        BY <2>1, DecimalDigits
      <3> QED
        BY <1>3, <3>1
    <2> QED
      BY <1>1, <1>3, <2>1, <2>2, <2>3
  <1>8. ParseBinaryPacketInPayload(<<h>> \o (d \o (<<Separator>> \o body))) = BehindLength(h, d, body)
    <2>1. Len(d) >= 1
      BY <1>2, <1>3
    <2> QED
      BY <1>5, <2>1, HeaderRead
  <1>9. BehindLength(h, d, body)
        = IF h = 0 THEN ParseStringDataPacket(m - 1, body) ELSE ParseBinaryDataPacket(m - 1, body)
    <2>1. m # 0
      OBVIOUS
    <2> QED
      BY <1>6, <1>7, <2>1, Zenon DEF BehindLength
  <1>10. EncodePacketLength(m) = d
    BY <1>1 DEF EncodePacketLength
  <1>11. Len(d) >= 1
    BY <1>2, <1>3
  <1> QED
    BY <1>4, <1>8, <1>9, <1>10, <1>11, Zenon

-----------------------------------------------------------------------------
(* One packet of a binary payload *)

\* Behind the last packet there is nothing, and behind another the kind of the next.
KindFollows(r) == r \in Seq(Nat) /\ (Len(r) > 0 => r[1] \in {0, 1})

\* Bytes of ASCII characters, digits for digits.
LEMMA BytesOfText ==
  ASSUME NEW data \in Seq(Characters)
  PROVE  /\ Bytes(data) \in Seq(Nat) /\ Len(Bytes(data)) = Len(data)
         /\ \A i \in 1 .. Len(data) : /\ Bytes(data)[i] <= 127
                                      /\ Bytes(data)[i] \in AsciiDigits <=> data[i] \in Digits
  <1>1. PICK n \in Nat : n = Len(data)
    OBVIOUS
  <1>2. \A i \in 1 .. n : data[i] \in Characters
    BY <1>1
  <1>3. PICK b : b = Bytes(data)
    OBVIOUS
  <1>4. b = [i \in 1 .. n |-> IF data[i] \in Digits THEN AsciiZero + data[i] ELSE 80 + data[i]]
    BY <1>1, <1>3 DEF Bytes
  <1>5. ASSUME NEW i \in 1 .. n
        PROVE  b[i] \in Nat /\ b[i] <= 127 /\ (b[i] \in AsciiDigits <=> data[i] \in Digits)
    <2>1. PICK c \in Characters : c = data[i]
      BY <1>2
    <2>2. b[i] = IF c \in Digits THEN AsciiZero + c ELSE 80 + c
      BY <1>4, <2>1
    <2>3. CASE c \in Digits
      <3>1. c \in 0 .. 9 /\ b[i] = 48 + c
        BY <2>2, <2>3 DEF AsciiZero, Digits
      <3>2. 48 + c \in Nat /\ 48 + c <= 127 /\ 48 + c \in AsciiDigits
        BY <3>1 DEF AsciiDigits, AsciiZero
      <3> QED
        BY <2>1, <2>3, <3>1, <3>2, Zenon
    <2>4. CASE c \notin Digits
      <3>1. c \in {10, 11, 12} /\ b[i] = 80 + c
        BY <2>2, <2>4 DEF Characters, Colon, LetterB, Letter
      <3> QED
        BY <2>1, <2>4, <3>1, SMTT(60) DEF AsciiDigits, AsciiZero
    <2> QED
      BY <2>3, <2>4
  <1>6. b \in Seq(Nat) /\ Len(b) = n
    <2>1. \A i \in 1 .. n : b[i] \in Nat
      BY <1>5
    <2> QED
      BY <1>4, <2>1
  <1> QED
    BY <1>1, <1>3, <1>5, <1>6

\* A binary packet: the type and the bytes.
LEMMA DataRead ==
  ASSUME NEW t \in PacketTypes, NEW x \in Seq(Nat), NEW r \in Seq(Nat)
  PROVE  ParseBinaryDataPacket(Len(x), <<t>> \o (x \o r)) = Ok(r, Binary(t, x))
  <1>1. PICK y \in Seq(Nat) : y = x \o r
    BY Joined
  <1>2. PICK s : s = <<t>> \o y
    OBVIOUS
  <1>3. s # <<>> /\ Head(s) = t /\ Tail(s) = y
    <2>1. t \in Nat
      BY DEF PacketTypes
    <2> QED
      BY <1>2, <2>1, OneInFront
  <1>4. PICK d : d = Take(Len(x), y)
    OBVIOUS
  <1>5. d.status = "ok" /\ d.rest = r /\ d.value = x
    <2>1. d = Ok(r, x)
      BY <1>1, <1>4, TakeFirst
    <2> QED
      BY <2>1 DEF Ok
  <1>6. ParseBinaryDataPacket(Len(x), s) = Ok(r, Binary(t, x))
    BY <1>3, <1>4, <1>5, Zenon DEF ParseBinaryDataPacket
  <1> QED
    BY <1>1, <1>2, <1>6

\* An element that is no type.
LEMMA NoDataRead ==
  ASSUME NEW c \in Nat, c \notin PacketTypes, NEW y \in Seq(Nat), NEW n
  PROVE  ParseBinaryDataPacket(n, <<c>> \o y).status # "ok"
  <1>1. PICK s : s = <<c>> \o y
    OBVIOUS
  <1>2. s # <<>> /\ Head(s) = c /\ Tail(s) = y
    BY <1>1, OneInFront
  <1>3. PICK d : d = Take(n, y)
    OBVIOUS
  <1>4. ParseBinaryDataPacket(n, s) = IF d.status # "ok" THEN d ELSE Error
    BY <1>2, <1>3, Zenon DEF ParseBinaryDataPacket
  <1>5. ParseBinaryDataPacket(n, s).status # "ok"
    BY <1>4 DEF Error
  <1> QED
    BY <1>1, <1>5

\* The ASCII digit of a type.
LEMMA AsciiType ==
  ASSUME NEW t \in PacketTypes
  PROVE  /\ AsciiZero + t \in Nat /\ AsciiZero + t \in AsciiDigits /\ AsciiZero + t \notin PacketTypes
         /\ (AsciiZero + t) - AsciiZero = t
         /\ <<AsciiZero + t>> \in Seq(Nat) /\ Len(<<AsciiZero + t>>) = 1
         /\ <<AsciiZero + t>>[1] = AsciiZero + t
  BY DEF PacketTypes, AsciiDigits, AsciiZero

\* A text packet: the digit of the type and bytes that start with no digit.
LEMMA TextRead ==
  ASSUME NEW t \in PacketTypes, NEW data \in Seq(Characters), ~ StartsWithDigit(data),
         NEW x, x = Bytes(data), NEW r, KindFollows(r)
  PROVE  ParseStringDataPacket(Len(x), <<AsciiZero + t>> \o (x \o r)) = Ok(r, Binary(t, x))
  <1>1. PICK n \in Nat : n = Len(x) /\ n = Len(data)
    BY BytesOfText
  <1>2. x \in Seq(Nat) /\ r \in Seq(Nat)
    BY BytesOfText DEF KindFollows
  <1>3. PICK y : y = x \o r
    OBVIOUS
  <1>4. /\ y \in Seq(Nat) /\ Len(y) = n + Len(r)
        /\ \A i \in 1 .. n : y[i] = x[i]
        /\ \A i \in 1 .. Len(r) : y[n + i] = r[i]
    <2>1. /\ y \in Seq(Nat) /\ Len(y) = Len(x) + Len(r)
          /\ \A i \in 1 .. Len(x) : y[i] = x[i]
          /\ \A i \in 1 .. Len(r) : y[Len(x) + i] = r[i]
      BY <1>2, <1>3, Joined
    <2> QED
      BY <1>1, <2>1, Zenon
  <1>5. PICK k : k = <<AsciiZero + t>>
    OBVIOUS
  <1>6. k \in Seq(Nat) /\ Len(k) = 1 /\ k[1] = AsciiZero + t /\ AsciiZero + t \in AsciiDigits
    BY <1>5, AsciiType
  <1>7. Len(y) > 0 => y[1] \notin AsciiDigits
    <2>1. CASE n > 0
      <3>1. data[1] \notin Digits
        <4>1. data # <<>>
          BY <1>1, <2>1
        <4> QED
          BY <4>1 DEF StartsWithDigit
      <3>2. 1 \in 1 .. Len(data)
        BY <1>1, <2>1
      <3>3. x[1] \notin AsciiDigits
        BY <3>1, <3>2, BytesOfText
      <3>4. y[1] = x[1]
        BY <1>4, <2>1
      <3> QED
        BY <3>3, <3>4
    <2>2. CASE ~ (n > 0)
      <3>1. n = 0
        BY <2>2
      <3>2. Len(r) \in Nat /\ (Len(r) > 0 => r[1] \in {0, 1})
        BY <1>2 DEF KindFollows
      <3>3. Len(y) > 0 => y[1] \in {0, 1}
        BY <1>4, <3>1, <3>2
      <3> QED
        BY <3>3 DEF AsciiDigits, AsciiZero
    <2> QED
      BY <2>1, <2>2
  <1>8. PICK s : s = k \o y
    OBVIOUS
  <1>9. TakeWhile1(AsciiDigits, s) = Ok(y, k)
    <2>1. k \in Seq(Nat) /\ y \in Seq(Nat) /\ Len(k) >= 1 /\ \A i \in 1 .. Len(k) : k[i] \in AsciiDigits
      BY <1>4, <1>6
    <2> QED
      BY <1>7, <1>8, <2>1, RunTaken, Zenon
  <1>10. PICK u : u = TakeWhile1(AsciiDigits, s)
    OBVIOUS
  <1>11. u.status = "ok" /\ u.rest = y /\ u.value = k
    BY <1>9, <1>10 DEF Ok
  <1>12. PICK d : d = Take(n, y)
    OBVIOUS
  <1>13. d.status = "ok" /\ d.rest = r /\ d.value = x
    <2>1. d = Ok(r, x)
      BY <1>1, <1>2, <1>3, <1>12, TakeFirst
    <2> QED
      BY <2>1 DEF Ok
  <1>14. k[1] - AsciiZero = t
    BY <1>6, AsciiType
  <1>15. ~ \E i \in 1 .. n : x[i] > 127
    <2>1. \A i \in 1 .. n : x[i] \in Nat /\ x[i] <= 127
      BY <1>1, <1>2, BytesOfText
    <2> QED
      BY <2>1
  <1>16. ParseStringDataPacket(n, s) = Ok(r, Binary(t, x))
    BY <1>10, <1>11, <1>12, <1>13, <1>14, <1>15, Zenon DEF ParseStringDataPacket
  <1> QED
    BY <1>1, <1>3, <1>5, <1>8, <1>16

\* A digit at the start of the bytes is taken for one of the type.
LEMMA TextMistaken ==
  ASSUME NEW t \in PacketTypes, NEW data \in Seq(Characters), StartsWithDigit(data),
         NEW x, x = Bytes(data), NEW r \in Seq(Nat)
  PROVE  \/ ParseStringDataPacket(Len(x), <<AsciiZero + t>> \o (x \o r)).status # "ok"
         \/ ParseStringDataPacket(Len(x), <<AsciiZero + t>> \o (x \o r)).value # Binary(t, x)
  <1>1. PICK n \in Nat : n = Len(x) /\ n = Len(data) /\ n >= 1
    <2>1. Len(data) >= 1
      BY DEF StartsWithDigit
    <2> QED
      BY <2>1, BytesOfText
  <1>2. x \in Seq(Nat) /\ x[1] \in AsciiDigits
    <2>1. data[1] \in Digits /\ 1 \in 1 .. Len(data)
      BY <1>1 DEF StartsWithDigit
    <2> QED
      BY <2>1, BytesOfText
  <1>3. PICK y : y = x \o r
    OBVIOUS
  <1>4. y \in Seq(Nat) /\ Len(y) = n + Len(r) /\ Len(r) \in Nat /\ y[1] = x[1]
    <2>1. /\ y \in Seq(Nat) /\ Len(y) = Len(x) + Len(r)
          /\ \A i \in 1 .. Len(x) : y[i] = x[i]
      BY <1>2, <1>3, Joined
    <2>2. \A i \in 1 .. n : y[i] = x[i]
      BY <1>1, <2>1, Zenon
    <2>3. 1 \in 1 .. n /\ Len(r) \in Nat
      BY <1>1
    <2>4. y[1] = x[1]
      BY <2>2, <2>3, Zenon
    <2> QED
      BY <1>1, <2>1, <2>3, <2>4, Zenon
  <1>5. PICK c \in Nat : c = AsciiZero + t /\ c \in AsciiDigits
    BY AsciiType
  <1>6. PICK s : s = <<c>> \o y
    OBVIOUS
  <1>7. s \in Seq(Nat) /\ Len(s) = Len(y) + 1 /\ s[1] = c /\ Tail(s) = y
    BY <1>4, <1>6, OneInFront
  <1>8. s[2] = y[1] /\ Len(s) >= 2
    <2>1. Len(s) >= 2
      BY <1>1, <1>4, <1>7
    <2>2. Tail(s)[1] = s[2]
      BY <1>7, <2>1
    <2> QED
      BY <1>7, <2>1, <2>2
  <1>9. PICK k : /\ RunLength(AsciiDigits, s, k)
                 /\ TakeWhile1(AsciiDigits, s) = IF k = 0 THEN Error ELSE Take(k, s)
    BY <1>7, TakingWhile
  <1>10. k \in Nat /\ k >= 2 /\ k <= Len(s)
    <2>1. k \in 0 .. Len(s) /\ Len(s) \in Nat
      BY <1>7, <1>9 DEF RunLength
    <2>2. k # 0
      BY <1>5, <1>7, <1>8, <1>9 DEF RunLength
    <2>3. k # 1
      BY <1>2, <1>4, <1>8, <1>9 DEF RunLength
    <2> QED
      BY <2>1, <2>2, <2>3
  <1>11. PICK a, b : a = SubSeq(s, k + 1, Len(s)) /\ b = SubSeq(s, 1, k)
    OBVIOUS
  <1>12. TakeWhile1(AsciiDigits, s) = Ok(a, b)
    <2>1. Take(k, s) = Ok(a, b)
      BY <1>7, <1>10, <1>11, Taking
    <2> QED
      BY <1>9, <1>10, <2>1
  <1>13. a \in Seq(Nat) /\ Len(a) = Len(s) - k /\ (Len(a) >= 1 => a[1] = s[k + 1])
    BY <1>7, <1>10, <1>11, SMTT(60)
  <1>14. PICK u : u = TakeWhile1(AsciiDigits, s)
    OBVIOUS
  <1>15. u.status = "ok" /\ u.rest = a /\ u.value = b
    BY <1>12, <1>14 DEF Ok
  <1>16. PICK d : d = Take(n, a)
    OBVIOUS
  <1>17. d.status = "ok" => d.value # x
    <2> SUFFICES ASSUME d.status = "ok"
                 PROVE  d.value # x
      OBVIOUS
    <2>1. n <= Len(a)
      <3>1. n > Len(a) => Take(n, a) = Error
        BY <1>13, Taking
      <3>2. Take(n, a) # Error
        BY <1>16 DEF Error
      <3> QED
        BY <1>13, <3>1, <3>2
    <2>2. Take(n, a) = Ok(SubSeq(a, n + 1, Len(a)), SubSeq(a, 1, n))
      BY <1>13, <2>1, Taking
    <2>3. d.value = SubSeq(a, 1, n)
      BY <1>16, <2>2 DEF Ok
    <2>4. SubSeq(a, 1, n)[1] = a[1]
      BY <1>1, <1>13, <2>1
    <2>5. k < Len(s) /\ a[1] = s[k + 1]
      <3>1. PICK la \in Nat, ls \in Nat : la = Len(a) /\ ls = Len(s)
        BY <1>7, <1>13
      <3>2. la = ls - k /\ n <= la
        BY <1>13, <2>1, <3>1, Zenon
      <3>3. la >= 1 /\ k < ls
        BY <1>1, <1>10, <3>2
      <3> QED
        BY <1>13, <3>1, <3>3, Zenon
    <2>6. s[k + 1] \notin AsciiDigits
      BY <1>9, <2>5 DEF RunLength
    <2> QED
      BY <1>2, <2>3, <2>4, <2>5, <2>6
  <1>18. PICK result : result = ParseStringDataPacket(n, s)
    OBVIOUS
  <1>19. PICK w : w = b[1] - AsciiZero
    OBVIOUS
  <1>20. result = IF d.status # "ok" THEN d
                  ELSE IF w \notin PacketTypes THEN Error
                  ELSE IF \E i \in 1 .. n : d.value[i] > 127 THEN Failure
                  ELSE Ok(d.rest, Binary(w, d.value))
    BY <1>14, <1>15, <1>16, <1>18, <1>19, Zenon DEF ParseStringDataPacket
  <1>21. result.status # "ok" \/ result.value # Binary(t, x)
    BY <1>17, <1>20 DEF Error, Failure, Ok, Binary
  <1> QED
    BY <1>1, <1>3, <1>5, <1>6, <1>18, <1>21

\* One packet of a binary payload.
OneBinary(p) ==
  LET s == BinarySerializePacket(p)
      length == EncodePacketLength(Len(p.data) + 1)
  IN  CASE p.kind = "Text"   -> <<0>> \o length \o <<Separator>> \o s
        [] p.kind = "Binary" -> <<1>> \o length \o <<Separator>> \o s
        [] OTHER             -> <<1, AsciiZero, Separator>> \o s

\* A packet that is to come back.
BinaryFits(p) == p.kind # "Empty" /\ (p.kind = "Text" => ~ StartsWithDigit(p.data))

\* How a packet followed by r is parsed.
AsBytesParsed(p, r, result) ==
  /\ BinaryFits(p) => result = Ok(r, AsBytes(p))
  /\ ~ BinaryFits(p) => result.status # "ok" \/ result.value # AsBytes(p)

\* The first element is a kind, and there are three at least.
KindInFront(enc) == enc \in Seq(Nat) /\ Len(enc) >= 3 /\ enc[1] \in {0, 1}

\* The kind h, the length l, the separator, the type k and the bytes x, and r behind them.
IsHeader(h, l, k, x, r) ==
  /\ KindInFront(<<h>> \o l \o <<Separator>> \o (k \o x))
  /\ (<<h>> \o l \o <<Separator>> \o (k \o x)) \o r
     = <<h>> \o (l \o (<<Separator>> \o (k \o (x \o r))))

LEMMA HeaderInFront ==
  ASSUME NEW h \in {0, 1}, NEW l \in Seq(Nat), Len(l) >= 1, NEW k \in Seq(Nat),
         NEW x \in Seq(Nat), NEW r \in Seq(Nat)
  PROVE  IsHeader(h, l, k, x, r)
  <1>1. PICK a \in Seq(Nat) : a = <<h>> /\ Len(a) = 1 /\ a[1] = h
    <2>1. <<h>> \in Seq(Nat) /\ Len(<<h>>) = 1 /\ <<h>>[1] = h
      OBVIOUS
    <2> QED
      BY <2>1
  <1>2. PICK c \in Seq(Nat) : c = <<Separator>>
    <2>1. <<Separator>> \in Seq(Nat)
      BY DEF Separator
    <2> QED
      BY <2>1
  <1>3. PICK al \in Seq(Nat) : al = a \o l
    BY Joined
  <1>4. PICK s \in Seq(Nat) : s = k \o x
    BY Joined
  <1>5. PICK y \in Seq(Nat) : y = x \o r
    BY Joined
  <1>6. PICK z \in Seq(Nat) : z = k \o y
    BY Joined
  <1>7. PICK w \in Seq(Nat) : w = c \o z
    BY Joined
  <1>8. Cat(Cat(Cat(al, c), Cat(k, x)), r) = Cat(al, Cat(c, Cat(k, Cat(x, r))))
    BY RegroupedTwice, SMTT(60)
  <1>9. Cat(Cat(a, l), w) = Cat(a, Cat(l, w))
    BY Regrouped
  <1>10. (a \o l \o c \o (k \o x)) \o r = a \o (l \o (c \o (k \o (x \o r))))
    BY <1>3, <1>5, <1>6, <1>7, <1>8, <1>9 DEF Cat
  <1>11. KindInFront(a \o l \o c \o (k \o x))
    <2>1. PICK b \in Seq(Nat) : b = al \o c /\ Len(b) = Len(al) + Len(c) /\ \A i \in 1 .. Len(al) : b[i] = al[i]
      <3>1. /\ al \o c \in Seq(Nat) /\ Len(al \o c) = Len(al) + Len(c)
            /\ \A i \in 1 .. Len(al) : (al \o c)[i] = al[i]
        BY Joined
      <3> QED
        BY <3>1, Zenon
    <2>2. Len(al) = Len(a) + Len(l) /\ \A i \in 1 .. Len(a) : al[i] = a[i]
      BY <1>3, Joined
    <2>3. PICK e \in Seq(Nat) : e = b \o s /\ Len(e) = Len(b) + Len(s) /\ \A i \in 1 .. Len(b) : e[i] = b[i]
      <3>1. /\ b \o s \in Seq(Nat) /\ Len(b \o s) = Len(b) + Len(s)
            /\ \A i \in 1 .. Len(b) : (b \o s)[i] = b[i]
        BY Joined
      <3> QED
        BY <3>1, Zenon
    <2>4. /\ Len(a) \in Nat /\ Len(l) \in Nat /\ Len(c) \in Nat /\ Len(al) \in Nat /\ Len(b) \in Nat
          /\ Len(s) \in Nat
      OBVIOUS
    <2>5. Len(c) = 1
      BY <1>2
    <2>6. Len(al) >= 2 /\ Len(b) >= 3 /\ Len(e) >= 3
      <3>1. Len(al) >= 2
        BY <1>1, <2>2, <2>4
      <3>2. Len(b) >= 3
        BY <2>1, <2>4, <2>5, <3>1
      <3> QED
        BY <2>3, <2>4, <3>1, <3>2
    <2>7. e[1] = h
      <3>1. al[1] = h
        BY <1>1, <2>2
      <3>2. b[1] = h
        BY <2>1, <2>6, <3>1
      <3> QED
        BY <2>3, <2>6, <3>2
    <2>8. KindInFront(e)
      BY <2>3, <2>6, <2>7 DEF KindInFront
    <2> QED
      BY <1>3, <1>4, <2>1, <2>3, <2>8
  <1> QED
    BY <1>1, <1>2, <1>10, <1>11 DEF IsHeader

\* A text packet of a binary payload.
LEMMA TextInBinary ==
  ASSUME NEW p \in EnginePackets, p.kind = "Text", NEW r, KindFollows(r)
  PROVE  /\ AsBytesParsed(p, r, ParseBinaryPacketInPayload(OneBinary(p) \o r))
         /\ KindInFront(OneBinary(p))
  <1>1. PICK t \in PacketTypes : t = p.type
    BY PacketForm
  <1>2. PICK data \in Seq(Characters) : data = p.data
    BY PacketForm DEF IsText
  <1>3. p = Text(t, data) /\ Len(data) + 1 <= MaxU32
    BY <1>1, <1>2, PacketForm DEF IsText
  <1>4. PICK x \in Seq(Nat) : x = Bytes(data) /\ Len(x) = Len(data)
    BY BytesOfText
  <1>5. PICK m \in Nat : m = Len(data) + 1 /\ m >= 1 /\ m <= MaxU32 /\ m - 1 = Len(x)
    BY <1>3, <1>4
  <1>6. PICK l \in Seq(Nat) : l = EncodePacketLength(m) /\ Len(l) >= 1
    BY <1>5, LengthRead
  <1>7. PICK k \in Seq(Nat) : k = <<AsciiZero + t>> /\ Len(k) = 1
    BY AsciiType
  <1>8. r \in Seq(Nat)
    BY DEF KindFollows
  <1>9. OneBinary(p) = <<0>> \o l \o <<Separator>> \o (k \o x)
    <2>1. BinarySerializePacket(p) = k \o x
      BY <1>1, <1>2, <1>4, <1>7 DEF BinarySerializePacket
    <2> QED
      BY <1>2, <1>5, <1>6, <2>1 DEF OneBinary
  <1>10. PICK body \in Seq(Nat) : body = k \o (x \o r)
    <2>1. x \o r \in Seq(Nat)
      BY <1>8, Joined
    <2> QED
      BY <2>1, Joined
  <1>11. /\ KindInFront(<<0>> \o l \o <<Separator>> \o (k \o x))
         /\ (<<0>> \o l \o <<Separator>> \o (k \o x)) \o r
            = <<0>> \o (l \o (<<Separator>> \o (k \o (x \o r))))
    <2>1. PICK h \in {0, 1} : h = 0
      OBVIOUS
    <2>2. IsHeader(h, l, k, x, r)
      BY <1>6, <1>8, HeaderInFront
    <2> QED
      BY <2>1, <2>2, Zenon DEF IsHeader
  <1>12. PICK result : result = ParseBinaryPacketInPayload(OneBinary(p) \o r)
    OBVIOUS
  <1>13. result = ParseStringDataPacket(Len(x), <<AsciiZero + t>> \o (x \o r))
    <2>1. PICK h \in {0, 1} : h = 0
      OBVIOUS
    <2>2. ParseBinaryPacketInPayload(<<h>> \o (EncodePacketLength(m) \o (<<Separator>> \o body)))
          = IF h = 0 THEN ParseStringDataPacket(m - 1, body) ELSE ParseBinaryDataPacket(m - 1, body)
      BY <1>5, LengthRead
    <2> QED
      BY <1>5, <1>6, <1>7, <1>9, <1>10, <1>11, <1>12, <2>1, <2>2, Zenon
  <1>14. AsBytes(p) = Binary(t, x)
    BY <1>1, <1>2, <1>4 DEF AsBytes
  <1>15. BinaryFits(p) <=> ~ StartsWithDigit(data)
    BY <1>2 DEF BinaryFits
  <1>16. AsBytesParsed(p, r, result)
    <2>1. CASE StartsWithDigit(data)
      <3>1. result.status # "ok" \/ result.value # Binary(t, x)
        BY <1>4, <1>8, <1>13, <2>1, TextMistaken
      <3> QED
        BY <1>14, <1>15, <2>1, <3>1 DEF AsBytesParsed
    <2>2. CASE ~ StartsWithDigit(data)
      <3>1. result = Ok(r, Binary(t, x))
        BY <1>4, <1>13, <2>2, TextRead
      <3> QED
        BY <1>14, <1>15, <2>2, <3>1 DEF AsBytesParsed
    <2> QED
      BY <2>1, <2>2
  <1> QED
    BY <1>9, <1>11, <1>12, <1>16

\* A binary packet of a binary payload.
LEMMA BinaryInBinary ==
  ASSUME NEW p \in EnginePackets, p.kind = "Binary", NEW r, KindFollows(r)
  PROVE  /\ AsBytesParsed(p, r, ParseBinaryPacketInPayload(OneBinary(p) \o r))
         /\ KindInFront(OneBinary(p))
  <1>1. PICK t \in PacketTypes : t = p.type
    BY PacketForm
  <1>2. PICK x \in Seq(Nat) : x = p.data
    <2>1. p.data \in Seq(0 .. 255)
      BY PacketForm DEF IsBinary
    <2> QED
      BY <2>1, CharactersAreNumbers, Zenon
  <1>3. p = Binary(t, x) /\ Len(x) + 1 <= MaxU32
    BY <1>1, <1>2, PacketForm DEF IsBinary
  <1>4. PICK m \in Nat : m = Len(x) + 1 /\ m >= 1 /\ m <= MaxU32 /\ m - 1 = Len(x)
    BY <1>3
  <1>5. PICK l \in Seq(Nat) : l = EncodePacketLength(m) /\ Len(l) >= 1
    BY <1>4, LengthRead
  <1>6. PICK k \in Seq(Nat) : k = <<t>>
    <2>1. <<t>> \in Seq(Nat)
      BY DEF PacketTypes
    <2> QED
      BY <2>1
  <1>7. r \in Seq(Nat)
    BY DEF KindFollows
  <1>8. PICK h \in {0, 1} : h = 1
    OBVIOUS
  <1>9. OneBinary(p) = <<h>> \o l \o <<Separator>> \o (k \o x)
    <2>1. BinarySerializePacket(p) = k \o x
      BY <1>1, <1>2, <1>6 DEF BinarySerializePacket
    <2> QED
      BY <1>2, <1>4, <1>5, <1>8, <2>1 DEF OneBinary
  <1>10. PICK body \in Seq(Nat) : body = k \o (x \o r)
    <2>1. x \o r \in Seq(Nat)
      BY <1>7, Joined
    <2> QED
      BY <2>1, Joined
  <1>11. IsHeader(h, l, k, x, r)
    BY <1>5, <1>7, HeaderInFront
  <1>12. PICK result : result = ParseBinaryPacketInPayload(OneBinary(p) \o r)
    OBVIOUS
  <1>13. result = ParseBinaryDataPacket(Len(x), <<t>> \o (x \o r))
    <2>1. ParseBinaryPacketInPayload(<<h>> \o (EncodePacketLength(m) \o (<<Separator>> \o body)))
          = IF h = 0 THEN ParseStringDataPacket(m - 1, body) ELSE ParseBinaryDataPacket(m - 1, body)
      BY <1>4, LengthRead
    <2>2. h # 0
      BY <1>8
    <2> QED
      BY <1>4, <1>5, <1>6, <1>9, <1>10, <1>11, <1>12, <2>1, <2>2, Zenon DEF IsHeader
  <1>14. result = Ok(r, Binary(t, x))
    BY <1>7, <1>13, DataRead
  <1>15. AsBytes(p) = Binary(t, x) /\ BinaryFits(p)
    BY <1>3 DEF AsBytes, BinaryFits
  <1>16. AsBytesParsed(p, r, result)
    BY <1>14, <1>15 DEF AsBytesParsed
  <1> QED
    BY <1>9, <1>11, <1>12, <1>16 DEF IsHeader

\* A packet of kind Empty in a binary payload: its length is the digit itself.
LEMMA EmptyInBinary ==
  ASSUME NEW p \in EnginePackets, p.kind = "Empty", NEW r, KindFollows(r)
  PROVE  /\ AsBytesParsed(p, r, ParseBinaryPacketInPayload(OneBinary(p) \o r))
         /\ KindInFront(OneBinary(p))
  <1>1. PICK t \in PacketTypes : t = p.type
    BY PacketForm
  <1>2. PICK k \in Seq(Nat) : k = <<AsciiZero + t>>
    BY AsciiType
  <1>3. PICK l \in Seq(Nat) : l = <<AsciiZero>> /\ l \in Seq(0 .. 254) /\ Len(l) >= 1
    <2>1. <<AsciiZero>> \in Seq(Nat) /\ <<AsciiZero>> \in Seq(0 .. 254) /\ Len(<<AsciiZero>>) >= 1
      BY DEF AsciiZero
    <2> QED
      BY <2>1
  <1>4. PICK h \in {0, 1} : h = 1
    OBVIOUS
  <1>5. PICK x \in Seq(Nat) : x = <<>>
    <2>1. PICK none : none = <<>>
      OBVIOUS
    <2>2. none \in Seq(Nat)
      BY <2>1
    <2> QED
      BY <2>1, <2>2, Zenon
  <1>6. r \in Seq(Nat)
    BY DEF KindFollows
  <1>7. IsHeader(h, l, k, x, r)
    BY <1>3, <1>6, HeaderInFront
  <1>8. k \o x = k /\ x \o r = r
    <2>1. Monoid(Seq(Nat), <<>>)
      BY Concatenation
    <2> QED
      BY <1>5, <1>6, <2>1, Zenon DEF Monoid, Cat
  <1>9. OneBinary(p) = <<h>> \o l \o <<Separator>> \o (k \o x)
    <2>1. OneBinary(p) = <<1, AsciiZero, Separator>> \o k
      BY <1>1, <1>2 DEF OneBinary, BinarySerializePacket
    <2>2. <<1, AsciiZero, Separator>> = <<1>> \o <<AsciiZero>> \o <<Separator>>
      <3>1. 1 \in Nat /\ AsciiZero \in Nat /\ Separator \in Nat
        BY DEF AsciiZero, Separator
      <3> QED
        BY <3>1, ThreeElements
    <2> QED
      BY <1>3, <1>4, <1>8, <2>1, <2>2, Zenon
  <1>10. PICK body \in Seq(Nat) : body = k \o r
    BY <1>6, Joined
  <1>11. PICK result : result = ParseBinaryPacketInPayload(OneBinary(p) \o r)
    OBVIOUS
  <1>12. result = BehindLength(h, l, body)
    <2>1. ParseBinaryPacketInPayload(<<h>> \o (l \o (<<Separator>> \o body))) = BehindLength(h, l, body)
      BY <1>3, HeaderRead
    <2> QED
      BY <1>7, <1>8, <1>9, <1>10, <1>11, <2>1, Zenon DEF IsHeader
  <1>13. PICK v : v = Value(Reverse(l))
    OBVIOUS
  <1>14. ParseBinaryDataPacket(v - 1, body).status # "ok"
    <2>1. AsciiZero + t \in Nat /\ AsciiZero + t \notin PacketTypes
      BY AsciiType
    <2>2. ParseBinaryDataPacket(v - 1, <<AsciiZero + t>> \o r).status # "ok"
      BY <1>6, <2>1, NoDataRead
    <2> QED
      BY <1>2, <1>10, <2>2
  <1>15. result.status # "ok"
    <2>1. result \in {Overflow, Underflow, ParseBinaryDataPacket(v - 1, body)}
      <3>1. h # 0
        BY <1>4
      <3> QED
        BY <1>12, <1>13, <3>1, Zenon DEF BehindLength
    <2> QED
      BY <1>14, <2>1 DEF Overflow, Underflow
  <1>16. AsBytesParsed(p, r, result)
    BY <1>15 DEF AsBytesParsed, BinaryFits
  <1> QED
    BY <1>7, <1>9, <1>11, <1>16 DEF IsHeader

\* Every packet is parsed, as what the binary form makes of it or not.
LEMMA BinaryParsed ==
  ASSUME NEW p \in EnginePackets, NEW r, KindFollows(r)
  PROVE  /\ AsBytesParsed(p, r, ParseBinaryPacketInPayload(OneBinary(p) \o r))
         /\ KindInFront(OneBinary(p))
  <1>1. p.kind = "Text" \/ p.kind = "Binary" \/ p.kind = "Empty"
    BY PacketForm DEF Empty
  <1> QED
    BY <1>1, TextInBinary, BinaryInBinary, EmptyInBinary

\* The parser of a packet ends.
LEMMA BinaryParserEnds ==
  ASSUME NEW s
  PROVE  ParseBinaryPacketInPayload(s).status # "running"
  <1>1. ASSUME NEW set, NEW x
        PROVE  TakeWhile1(set, x).status \in {"ok", "error"}
    <2>1. \E n : TakeWhile1(set, x) = Error \/ TakeWhile1(set, x) = Take(n, x)
      BY Zenon DEF TakeWhile1
    <2> QED
      BY <2>1, TakeStatus DEF Error
  <1>2. ASSUME NEW x
        PROVE  ParsePacketLength(x).status # "running"
    <2>1. PICK r : r = TakeWhile1(0 .. 254, x)
      OBVIOUS
    <2>2. PICK result : result = ParsePacketLength(x)
      OBVIOUS
    <2>3. result \in {r, Overflow, Ok(r.rest, Value(Reverse(r.value)))}
      BY <2>1, <2>2, ZenonT(60) DEF ParsePacketLength
    <2>4. r.status # "running"
      BY <1>1, <2>1
    <2> QED
      BY <2>2, <2>3, <2>4 DEF Overflow, Ok
  <1>3. ASSUME NEW n, NEW x
        PROVE  ParseStringDataPacket(n, x).status # "running"
    <2>1. PICK u : u = TakeWhile1(AsciiDigits, x)
      OBVIOUS
    <2>2. PICK d : d = Take(n, u.rest)
      OBVIOUS
    <2>3. PICK result : result = ParseStringDataPacket(n, x)
      OBVIOUS
    <2>4. PICK w : w = Ok(d.rest, Binary(u.value[1] - AsciiZero, d.value))
      OBVIOUS
    <2>5. result \in {u, d, Error, Failure, w}
      BY <2>1, <2>2, <2>3, <2>4, Zenon DEF ParseStringDataPacket
    <2>6. u.status # "running" /\ d.status # "running"
      BY <1>1, <2>1, <2>2, TakeStatus
    <2> QED
      BY <2>3, <2>4, <2>5, <2>6 DEF Error, Failure, Ok
  <1>4. ASSUME NEW n, NEW x
        PROVE  ParseBinaryDataPacket(n, x).status # "running"
    <2>1. PICK d : d = Take(n, Tail(x))
      OBVIOUS
    <2>2. PICK result : result = ParseBinaryDataPacket(n, x)
      OBVIOUS
    <2>3. result \in {d, Error, Ok(d.rest, Binary(Head(x), d.value))}
      BY <2>1, <2>2, Zenon DEF ParseBinaryDataPacket
    <2>4. d.status # "running"
      BY <2>1, TakeStatus
    <2> QED
      BY <2>2, <2>3, <2>4 DEF Error, Ok
  <1>5. PICK len : len = ParsePacketLength(Tail(s))
    OBVIOUS
  <1>6. PICK text, data : /\ text = ParseStringDataPacket(len.value - 1, Tail(len.rest))
                          /\ data = ParseBinaryDataPacket(len.value - 1, Tail(len.rest))
    OBVIOUS
  <1>7. ParseBinaryPacketInPayload(s) \in {Error, Failure, Underflow, len, text, data}
    BY <1>5, <1>6, Zenon DEF ParseBinaryPacketInPayload
  <1>8. len.status # "running" /\ text.status # "running" /\ data.status # "running"
    BY <1>2, <1>3, <1>4, <1>5, <1>6
  <1> QED
    BY <1>7, <1>8 DEF Error, Failure, Underflow

\* The parser of a packet gives binary data, for text too.
LEMMA BinaryParserKind ==
  ASSUME NEW s, ParseBinaryPacketInPayload(s).status = "ok"
  PROVE  ParseBinaryPacketInPayload(s).value.kind = "Binary"
  <1>1. ASSUME NEW n, NEW x, ParseStringDataPacket(n, x).status = "ok"
        PROVE  ParseStringDataPacket(n, x).value.kind = "Binary"
    <2>1. PICK u : u = TakeWhile1(AsciiDigits, x)
      OBVIOUS
    <2>2. PICK d : d = Take(n, u.rest)
      OBVIOUS
    <2>3. PICK result : result = ParseStringDataPacket(n, x)
      OBVIOUS
    <2>4. PICK w : w = Ok(d.rest, Binary(u.value[1] - AsciiZero, d.value))
      OBVIOUS
    <2>5. result = w \/ (result = u /\ u.status # "ok") \/ (result = d /\ d.status # "ok")
            \/ result \in {Error, Failure}
      BY <2>1, <2>2, <2>3, <2>4, Zenon DEF ParseStringDataPacket
    <2> QED
      BY <1>1, <2>3, <2>4, <2>5 DEF Error, Failure, Ok, Binary
  <1>2. ASSUME NEW n, NEW x, ParseBinaryDataPacket(n, x).status = "ok"
        PROVE  ParseBinaryDataPacket(n, x).value.kind = "Binary"
    <2>1. PICK d : d = Take(n, Tail(x))
      OBVIOUS
    <2>2. PICK result : result = ParseBinaryDataPacket(n, x)
      OBVIOUS
    <2>3. result = Ok(d.rest, Binary(Head(x), d.value)) \/ result = Error
            \/ (result = d /\ d.status # "ok")
      BY <2>1, <2>2, Zenon DEF ParseBinaryDataPacket
    <2> QED
      BY <1>2, <2>2, <2>3 DEF Error, Ok, Binary
  <1>3. PICK len : len = ParsePacketLength(Tail(s))
    OBVIOUS
  <1>4. PICK text, data : /\ text = ParseStringDataPacket(len.value - 1, Tail(len.rest))
                          /\ data = ParseBinaryDataPacket(len.value - 1, Tail(len.rest))
    OBVIOUS
  <1>5. ParseBinaryPacketInPayload(s) \in {Error, Failure, Underflow, text, data}
          \/ (ParseBinaryPacketInPayload(s) = len /\ len.status # "ok")
    BY <1>3, <1>4, Zenon DEF ParseBinaryPacketInPayload
  <1>6. /\ text.status = "ok" => text.value.kind = "Binary"
        /\ data.status = "ok" => data.value.kind = "Binary"
    BY <1>1, <1>2, <1>4
  <1> QED
    BY <1>5, <1>6 DEF Error, Failure, Underflow

\* Nothing is no packet.
LEMMA NothingInBinary ==
  ParseBinaryPacketInPayload(<<>>) = Error
  BY Zenon DEF ParseBinaryPacketInPayload

-----------------------------------------------------------------------------
(* Binary payloads *)

Binaried(ps) == [i \in 1 .. Len(ps) |-> OneBinary(ps[i])]

\* BinarySerializePayload puts the packets one after the other.
LEMMA BinaryPayload ==
  \A ps : BinarySerializePayload(ps) = FlattenSeq(Binaried(ps))
  BY DEF BinarySerializePayload, Binaried, OneBinary

\* Packets of kind Binary are what AsBytes makes of them.
LEMMA BinaryContents ==
  ASSUME NEW S, \A p \in S : p.kind = "Binary", NEW items \in Seq(S)
  PROVE  Contents(items) = items
  <1>1. \A i \in 1 .. Len(items) : items[i] \in S
    OBVIOUS
  <1>2. \A i \in 1 .. Len(items) : AsBytes(items[i]) = items[i]
    BY <1>1 DEF AsBytes
  <1>3. Contents(items) = [i \in 1 .. Len(items) |-> items[i]]
    BY <1>2 DEF Contents
  <1>4. items = [i \in 1 .. Len(items) |-> items[i]]
    OBVIOUS
  <1> QED
    BY <1>3, <1>4

\* The packets are decoded exactly when each of them is to come back.
LEMMA BinaryDecoded ==
  ASSUME NEW ps \in Seq(EnginePackets), NEW d, d = BinaryDecodePayload(FlattenSeq(Binaried(ps)))
  PROVE  (d.status = "ok" /\ Contents(d.items) = Contents(ps))
         <=> \A k \in 1 .. Len(ps) : BinaryFits(ps[k])
  <1>1. PICK n \in Nat : n = Len(ps)
    OBVIOUS
  <1>2. PICK enc : enc = Binaried(ps)
    OBVIOUS
  <1>3. PICK P : P = {AsBytes(p) : p \in EnginePackets}
    OBVIOUS
  <1>4. PICK q \in Seq(P) : q = Contents(ps) /\ n = Len(q)
    <2>1. Contents(ps) = [i \in 1 .. n |-> AsBytes(ps[i])]
      BY <1>1 DEF Contents
    <2>2. \A i \in 1 .. n : AsBytes(ps[i]) \in P
      <3> TAKE i \in 1 .. n
      <3>1. ps[i] \in EnginePackets
        BY <1>1
      <3> QED
        BY <1>3, <3>1
    <2>3. Contents(ps) \in Seq(P) /\ Len(Contents(ps)) = n
      BY <2>1, <2>2
    <2> QED
      BY <2>3
  <1>5. ASSUME NEW k \in 1 .. n
        PROVE  ps[k] \in EnginePackets /\ enc[k] = OneBinary(ps[k]) /\ q[k] = AsBytes(ps[k])
    BY <1>1, <1>2, <1>4 DEF Binaried, Contents
  <1>6. \A k \in 1 .. n : KindInFront(enc[k])
    <2> TAKE k \in 1 .. n
    <2>1. PICK r : r = <<>>
      OBVIOUS
    <2>2. KindFollows(r)
      BY <2>1 DEF KindFollows
    <2> QED
      BY <1>5, <2>2, BinaryParsed
  <1>7. \A k \in 1 .. n : enc[k] \in Seq(Nat) /\ Len(enc[k]) >= 3 /\ enc[k][1] \in {0, 1}
    BY <1>6 DEF KindInFront
  <1>8. enc \in [1 .. n -> Seq(Nat)]
    <2>1. enc = [k \in 1 .. n |-> OneBinary(ps[k])]
      BY <1>1, <1>2 DEF Binaried
    <2>2. \A k \in 1 .. n : OneBinary(ps[k]) \in Seq(Nat)
      BY <1>5, <1>7
    <2> QED
      BY <2>1, <2>2, Zenon
  <1>9. PICK suf : Remainders(n, enc, suf) /\ FlattenSeq(enc) = suf[0]
    BY <1>8, SuffixesExist
  <1>10. PICK L \in Nat : IsLimit(L, suf[0]) /\ n + 1 <= L
    <2>1. \A k \in 1 .. n : enc[k] \in Seq(Nat) /\ Len(enc[k]) >= 3
      BY <1>7
    <2> QED
      BY <1>9, <2>1, Enough
  <1>11. PICK parsed : parsed = [k \in 0 .. n |-> ParseBinaryPacketInPayload(suf[k])]
    OBVIOUS
  <1>12. PICK f, results :
          /\ Folding(L, n, suf, parsed, f, results) /\ BinaryDecodePayload(suf[0]) = f[L]
          /\ \A i \in 1 .. L : \E s : results[i] = ParseBinaryPacketInPayload(s)
    <2>1. IsLimit(L, suf[0])
      BY <1>10
    <2>2. \E f, results : BinaryFolding(L, n, suf, parsed, f, results)
      BY <1>11, <2>1, BinaryFold, Zenon
    <2> QED
      BY <2>2 DEF BinaryFolding
  <1>13. d = f[L]
    BY <1>2, <1>9, <1>12
  <1>14. ASSUME NEW k \in 0 .. n
         PROVE  KindFollows(suf[k])
    <2>1. CASE k = n
      <3>1. suf[k] = <<>>
        BY <1>9, <2>1 DEF Remainders
      <3> QED
        BY <3>1 DEF KindFollows
    <2>2. CASE k # n
      <3>1. PICK j \in 1 .. n : j = k + 1 /\ j - 1 = k /\ j \in 0 .. n
        BY <2>2
      <3>2. PICK b \in Seq(Nat) : b = suf[j]
        BY <1>9, <3>1 DEF Remainders
      <3>3. PICK a \in Seq(Nat) : a = enc[j] /\ Len(a) >= 3 /\ a[1] \in {0, 1}
        BY <1>7, <3>1
      <3>4. PICK s : s = suf[k]
        OBVIOUS
      <3>5. s = a \o b
        <4>1. suf[j - 1] = enc[j] \o suf[j]
          BY <1>9, <3>1 DEF Remainders
        <4> QED
          BY <3>1, <3>2, <3>3, <3>4, <4>1
      <3>6. s \in Seq(Nat) /\ \A i \in 1 .. Len(a) : s[i] = a[i]
        BY <3>5, Joined
      <3>7. s[1] = a[1]
        BY <3>3, <3>6
      <3> QED
        BY <3>3, <3>4, <3>6, <3>7 DEF KindFollows
    <2> QED
      BY <2>1, <2>2
  <1>15. ASSUME NEW k \in 1 .. n
         PROVE  AsBytesParsed(ps[k], suf[k], parsed[k - 1])
    <2>1. k \in 0 .. n /\ k - 1 \in 0 .. n
      OBVIOUS
    <2>2. KindFollows(suf[k])
      BY <1>14, <2>1
    <2>3. suf[k - 1] = OneBinary(ps[k]) \o suf[k]
      BY <1>5, <1>9 DEF Remainders
    <2>4. parsed[k - 1] = ParseBinaryPacketInPayload(OneBinary(ps[k]) \o suf[k])
      BY <1>11, <2>1, <2>3
    <2> QED
      BY <1>5, <2>2, <2>4, BinaryParsed
  <1>16. \A k \in 1 .. n : parsed[k - 1] = Ok(suf[k], q[k]) <=> BinaryFits(ps[k])
    BY <1>5, <1>15 DEF AsBytesParsed, Ok
  <1>17. \A k \in 1 .. n : \/ parsed[k - 1] = Ok(suf[k], q[k])
                           \/ parsed[k - 1].status # "ok"
                           \/ parsed[k - 1].value # q[k]
    BY <1>5, <1>15 DEF AsBytesParsed
  <1>18. \A k \in 0 .. n : parsed[k].status # "running"
    BY <1>11, BinaryParserEnds
  <1>19. parsed[n].status = "error"
    <2>1. suf[n] = <<>>
      BY <1>9 DEF Remainders
    <2>2. parsed[n] = Error
      BY <1>11, <2>1, NothingInBinary
    <2> QED
      BY <2>2 DEF Error
  <1>20. (f[L].status = "ok" /\ f[L].items = q)
         <=> \A k \in 1 .. n : parsed[k - 1] = Ok(suf[k], q[k])
    <2>1. n = Len(q) /\ n + 1 <= L /\ Folding(L, n, suf, parsed, f, results)
      BY <1>4, <1>10, <1>12
    <2> QED
      BY <1>17, <1>18, <1>19, <2>1, FoldRoundTrip, SMTT(60)
  <1>21. Contents(d.items) = d.items
    <2>1. PICK S : S = {results[i].value : i \in {j \in 1 .. L : results[j].status = "ok"}}
      OBVIOUS
    <2>2. ValuesIn(S, L, results)
      BY <2>1 DEF ValuesIn
    <2>3. \A p \in S : p.kind = "Binary"
      <3> SUFFICES ASSUME NEW i \in 1 .. L, results[i].status = "ok"
                   PROVE  results[i].value.kind = "Binary"
        BY <2>1
      <3>1. PICK s : results[i] = ParseBinaryPacketInPayload(s)
        BY <1>12
      <3> QED
        BY <3>1, BinaryParserKind
    <2>4. Growing(S, L, f)
      BY <1>12, <2>2, ItemsGrow, Zenon
    <2>5. L \in 0 .. L
      OBVIOUS
    <2>6. d.items \in Seq(S)
      BY <1>13, <2>4, <2>5 DEF Growing
    <2> QED
      BY <2>3, <2>6, BinaryContents
  <1> QED
    BY <1>1, <1>4, <1>13, <1>16, <1>20, <1>21

-----------------------------------------------------------------------------
(* A packet of its own *)

\* Nothing is a sequence, and nothing follows it or precedes it.
LEMMA Nothing ==
  \E none \in Seq(Nat) :
    /\ none = <<>> /\ ~ (Len(none) > 0) /\ Len(none) = 0
    /\ \A s \in Seq(Nat) : s \o none = s
  <1>1. PICK none : none = <<>>
    OBVIOUS
  <1>2. none \in Seq(Nat) /\ ~ (Len(none) > 0) /\ Len(none) = 0
    BY <1>1
  <1>3. \A s \in Seq(Nat) : s \o none = s
    <2>1. Monoid(Seq(Nat), <<>>)
      BY Concatenation
    <2> QED
      BY <1>1, <2>1, Zenon DEF Monoid, Cat
  <1> QED
    BY <1>1, <1>2, <1>3

\* A plain packet is text.
LEMMA PlainIsText ==
  ASSUME NEW n, NEW s, ParsePlaintext(n, s).status = "ok"
  PROVE  ParsePlaintext(n, s).value.kind = "Text"
  <1>1. PICK u : u = TakeU8(s)
    OBVIOUS
  <1>2. PICK d : d = Take(n, u.rest)
    OBVIOUS
  <1>3. PICK p : p = ParsePlaintext(n, s)
    OBVIOUS
  <1>4. p = IF u.status # "ok" THEN u
            ELSE IF d.status # "ok" THEN d
            ELSE IF u.value \notin PacketTypes THEN Error
            ELSE Ok(d.rest, Text(u.value, d.value))
    BY <1>1, <1>2, <1>3 DEF ParsePlaintext
  <1>5. p.status = "ok"
    BY <1>3
  <1>6. p.value = Text(u.value, d.value)
    BY <1>4, <1>5 DEF Ok, Error
  <1> QED
    BY <1>3, <1>6 DEF Text

\* Text that starts with no digit comes back.
LEMMA TextAlone ==
  ASSUME NEW t \in PacketTypes, NEW x \in Seq(Nat), ~ StartsWithDigit(x)
  PROVE  \E r : StringDecodePacket(<<t>> \o x) = Ok(r, Text(t, x))
  <1>1. PICK none \in Seq(Nat) : Len(none) = 0 /\ x \o none = x
    BY Nothing
  <1>2. Suits(x, none)
    <2>1. Len(x) > 0 => x # <<>>
      OBVIOUS
    <2> QED
      BY <1>1, <2>1 DEF Suits, StartsWithDigit
  <1>3. PICK s : s = <<t>> \o x
    OBVIOUS
  <1>4. TakeU8(s) = Ok(x, t)
    <2>1. TakeU8(<<t>> \o (x \o none)) = Ok(x \o none, t)
      BY <1>2, TypeTaken
    <2> QED
      BY <1>1, <1>3, <2>1
  <1>5. ParsePlaintext(Len(x), s) = Ok(none, Text(t, x))
    <2>1. ParsePlaintext(Len(x), <<t>> \o (x \o none)) = Ok(none, Text(t, x))
      BY <1>2, PlainParsed
    <2> QED
      BY <1>1, <1>3, <2>1
  <1>6. PICK u : u = TakeU8(s)
    OBVIOUS
  <1>7. u.status = "ok" /\ u.rest = x
    BY <1>4, <1>6 DEF Ok
  <1>8. StringDecodePacket(s) = Ok(none, Text(t, x))
    BY <1>5, <1>6, <1>7, Zenon DEF StringDecodePacket
  <1> QED
    BY <1>3, <1>8

\* Text that starts with a digit comes back shorter, or not at all.
LEMMA TextAloneMistaken ==
  ASSUME NEW t \in PacketTypes, NEW x \in Seq(Nat), StartsWithDigit(x)
  PROVE  \/ StringDecodePacket(<<t>> \o x).status # "ok"
         \/ StringDecodePacket(<<t>> \o x).value # Text(t, x)
  <1>1. PICK n \in Nat : n = Len(x) /\ n >= 1
    BY DEF StartsWithDigit
  <1>2. t \in Nat /\ t \in Digits
    BY DEF PacketTypes, Digits
  <1>3. PICK s \in Seq(Nat) : s = <<t>> \o x
    BY <1>2, OneInFront
  <1>4. Len(s) = n + 1 /\ s[1] = t /\ Tail(s) = x
    BY <1>1, <1>2, <1>3, OneInFront
  <1>5. s[2] = x[1]
    <2>1. Len(s) >= 2
      BY <1>1, <1>4
    <2>2. Tail(s)[1] = s[2]
      BY <2>1
    <2> QED
      BY <1>4, <2>2
  <1>6. PICK k : RunLength(Digits, s, k)
    BY TakingWhile
  <1>7. k \in Nat /\ k >= 2 /\ k <= Len(s)
    <2>1. k \in 0 .. Len(s) /\ Len(s) \in Nat
      BY <1>6 DEF RunLength
    <2>2. x[1] \in Digits
      BY DEF StartsWithDigit
    <2>3. k # 0
      BY <1>1, <1>2, <1>4, <1>6 DEF RunLength
    <2>4. k # 1
      BY <1>1, <1>4, <1>5, <1>6, <2>2 DEF RunLength
    <2> QED
      BY <2>1, <2>3, <2>4
  <1>8. PICK a, v : a = SubSeq(s, k + 1, Len(s)) /\ v = Value(SubSeq(s, 1, k))
    OBVIOUS
  <1>9. a \in Seq(Nat) /\ Len(a) = Len(s) - k
    BY <1>7, <1>8
  <1>10. TakeU8(s) = IF v > 255 THEN Failure ELSE Ok(a, v)
    <2>1. k >= 1
      BY <1>7
    <2> QED
      BY <1>6, <1>7, <1>8, <2>1, TakingU8
  <1>11. CASE v > 255
    <2>1. TakeU8(s) = Failure
      BY <1>10, <1>11
    <2>2. TakeU8(s).status # "ok"
      BY <2>1 DEF Failure
    <2>3. StringDecodePacket(s) = TakeU8(s)
      BY <2>2, Zenon DEF StringDecodePacket
    <2> QED
      BY <1>3, <2>2, <2>3
  <1>12. CASE ~ (v > 255)
    <2>1. PICK u : u = TakeU8(s)
      OBVIOUS
    <2>2. u.status = "ok" /\ u.rest = a
      BY <1>10, <1>12, <2>1 DEF Ok
    <2>3. PICK m \in Nat : m = Len(a) /\ m < n
      <3>1. Len(a) \in Nat
        BY <1>9
      <3> QED
        BY <1>4, <1>7, <1>9, <3>1
    <2>4. PICK p : p = ParsePlaintext(m, s)
      OBVIOUS
    <2>5. StringDecodePacket(s) = p
      BY <2>1, <2>2, <2>3, <2>4 DEF StringDecodePacket
    <2>6. PICK d : d = Take(m, a)
      OBVIOUS
    <2>7. d = Ok(SubSeq(a, m + 1, Len(a)), SubSeq(a, 1, m))
      <3>1. m <= Len(a)
        BY <2>3
      <3> QED
        BY <1>9, <2>6, <3>1, Taking
    <2>8. p = IF u.value \notin PacketTypes THEN Error ELSE Ok(d.rest, Text(u.value, d.value))
      <3>1. d.status = "ok"
        BY <2>7 DEF Ok
      <3> QED
        BY <2>1, <2>2, <2>4, <2>6, <3>1 DEF ParsePlaintext
    <2>9. d.value # x
      <3>1. Len(SubSeq(a, 1, m)) = m
        BY <1>9, <2>3
      <3>2. d.value = SubSeq(a, 1, m)
        BY <2>7 DEF Ok
      <3>3. m # n
        BY <2>3
      <3> QED
        BY <1>1, <3>1, <3>2, <3>3
    <2>10. p.status # "ok" \/ p.value # Text(t, x)
      BY <2>8, <2>9 DEF Error, Ok, Text
    <2> QED
      BY <1>3, <2>5, <2>10
  <1> QED
    BY <1>11, <1>12

\* What comes back from the string form of a packet is text.
LEMMA OnlyText ==
  ASSUME NEW s, StringDecodePacket(s).status = "ok"
  PROVE  StringDecodePacket(s).value.kind = "Text"
  <1>1. PICK u : u = TakeU8(s)
    OBVIOUS
  <1>2. PICK n : n = Len(u.rest)
    OBVIOUS
  <1>3. StringDecodePacket(s) = IF u.status # "ok" THEN u ELSE ParsePlaintext(n, s)
    BY <1>1, <1>2, Zenon DEF StringDecodePacket
  <1>4. StringDecodePacket(s) = ParsePlaintext(n, s)
    BY <1>3
  <1>5. ParsePlaintext(n, s).status = "ok"
    BY <1>4
  <1> QED
    BY <1>4, <1>5, PlainIsText

\* The string form of a packet gives it back.
StringGivesBack(p) ==
  LET text == StringDecodePacket(StringSerializePacket(p))
  IN  text.status = "ok" /\ text.value = p

\* So does the binary form.
BinaryGivesBack(p) ==
  LET binary == BinaryDecodePacket(BinarySerializePacket(p))
  IN  binary.status = "ok" /\ binary.value = p

\* Text that starts with no digit comes back from the string form, and
\* nothing else.
LEMMA StringAlone ==
  ASSUME NEW p \in EnginePackets
  PROVE  StringGivesBack(p) <=> (p.kind = "Text" /\ ~ StartsWithDigit(p.data))
  <1>1. PICK d : d = StringDecodePacket(StringSerializePacket(p))
    OBVIOUS
  <1>2. StringGivesBack(p) <=> (d.status = "ok" /\ d.value = p)
    BY <1>1, Zenon DEF StringGivesBack
  <1>3. CASE p.kind = "Text"
    <2>1. PICK t \in PacketTypes : t = p.type
      BY PacketForm
    <2>2. p = Text(t, p.data) /\ p.data \in Seq(Characters)
      BY <1>3, <2>1, PacketForm DEF IsText
    <2>3. PICK x \in Seq(Nat) : x = p.data
      BY <2>2, CharactersAreNumbers, Zenon
    <2>4. StringSerializePacket(p) = <<t>> \o x
      <3>1. p.kind # "Binary"
        BY <1>3
      <3> QED
        BY <2>1, <2>3, <3>1, Zenon DEF StringSerializePacket
    <2>5. d = StringDecodePacket(<<t>> \o x) /\ p = Text(t, x)
      BY <1>1, <2>2, <2>3, <2>4
    <2>6. CASE StartsWithDigit(x)
      <3>1. d.status # "ok" \/ d.value # p
        BY <2>5, <2>6, TextAloneMistaken
      <3> QED
        BY <1>2, <2>3, <2>6, <3>1
    <2>7. CASE ~ StartsWithDigit(x)
      <3>1. PICK r : d = Ok(r, p)
        BY <2>5, <2>7, TextAlone
      <3> QED
        BY <1>2, <1>3, <2>3, <2>7, <3>1 DEF Ok
    <2> QED
      BY <2>6, <2>7
  <1>4. CASE p.kind # "Text"
    <2>1. d.status = "ok" => d.value.kind = "Text"
      BY <1>1, OnlyText
    <2> QED
      BY <1>2, <1>4, <2>1
  <1> QED
    BY <1>3, <1>4

\* Binary data comes back from the binary form, and nothing else.
LEMMA BinaryAlone ==
  ASSUME NEW p \in EnginePackets
  PROVE  BinaryGivesBack(p) <=> p.kind = "Binary"
  <1>1. PICK s : s = BinarySerializePacket(p)
    OBVIOUS
  <1>2. PICK d : d = ParseBinaryDataPacket(Len(s) - 1, s)
    OBVIOUS
  <1>3. BinaryGivesBack(p) <=> (d.status = "ok" /\ d.value = p)
    BY <1>1, <1>2, Zenon DEF BinaryGivesBack, BinaryDecodePacket
  <1>4. PICK t \in PacketTypes : t = p.type
    BY PacketForm
  <1>5. PICK none \in Seq(Nat) : none = <<>> /\ \A q \in Seq(Nat) : q \o none = q
    BY Nothing
  <1>6. CASE p.kind = "Binary"
    <2>1. p = Binary(t, p.data) /\ p.data \in Seq(0 .. 255)
      BY <1>4, <1>6, PacketForm DEF IsBinary
    <2>2. PICK x \in Seq(Nat) : x = p.data
      <3>1. p.data \in Seq(Nat)
        BY <2>1, CharactersAreNumbers, Zenon
      <3> QED
        BY <3>1
    <2>3. s = <<t>> \o x
      <3>1. p.kind # "Text"
        BY <1>6
      <3> QED
        BY <1>1, <1>4, <1>6, <2>2, <3>1 DEF BinarySerializePacket
    <2>4. Len(s) - 1 = Len(x)
      <3>1. t \in Nat
        BY DEF PacketTypes
      <3>2. Len(s) = Len(x) + 1
        BY <2>3, <3>1, OneInFront
      <3> QED
        BY <3>2
    <2>5. ParseBinaryDataPacket(Len(x), <<t>> \o (x \o none)) = Ok(none, Binary(t, x))
      BY DataRead
    <2>6. x \o none = x
      BY <1>5
    <2>7. d = Ok(none, p)
      BY <1>2, <2>1, <2>2, <2>3, <2>4, <2>5, <2>6
    <2> QED
      BY <1>3, <1>6, <2>7 DEF Ok
  <1>7. CASE p.kind # "Binary"
    <2>1. PICK y \in Seq(Nat) : s = <<AsciiZero + t>> \o y
      <3>1. CASE p.kind = "Text"
        <4>1. p.data \in Seq(Characters)
          BY <3>1, PacketForm DEF IsText
        <4>2. Bytes(p.data) \in Seq(Nat)
          BY <4>1, BytesOfText
        <4>3. s = <<AsciiZero + t>> \o Bytes(p.data)
          BY <1>1, <1>4, <3>1 DEF BinarySerializePacket
        <4> QED
          BY <4>2, <4>3
      <3>2. CASE p.kind # "Text"
        <4>1. s = <<AsciiZero + t>>
          BY <1>1, <1>4, <1>7, <3>2 DEF BinarySerializePacket
        <4>2. <<AsciiZero + t>> \in Seq(Nat)
          BY AsciiType
        <4>3. s = s \o none
          BY <1>5, <4>1, <4>2
        <4> QED
          BY <4>1, <4>3
      <3> QED
        BY <3>1, <3>2
    <2>2. d.status # "ok"
      <3>1. AsciiZero + t \in Nat /\ AsciiZero + t \notin PacketTypes
        BY AsciiType
      <3> QED
        BY <1>2, <2>1, <3>1, NoDataRead
    <2> QED
      BY <1>3, <1>7, <2>2
  <1> QED
    BY <1>6, <1>7

-----------------------------------------------------------------------------
(* The theorems *)

\* A payload is a sequence of packets.
TypeInv == payload \in Seq(EnginePackets)

\* The payload stays a sequence of packets, of any length the bound allows.
LEMMA TypeCorrect == Spec => []TypeInv
  <1>1. Init => TypeInv
    BY DEF Init, TypeInv
  <1>2. ASSUME TypeInv, [Next]_payload
        PROVE  TypeInv'
    <2>1. CASE AddPacket
      <3>1. PICK p \in EnginePackets : payload' = Append(payload, p)
        BY <2>1 DEF AddPacket
      <3> QED
        BY <1>2, <3>1 DEF TypeInv
    <2>2. CASE Restart
      BY <2>2 DEF Restart, TypeInv
    <2>3. CASE UNCHANGED payload
      BY <1>2, <2>3 DEF TypeInv
    <2> QED
      BY <1>2, <2>1, <2>2, <2>3 DEF Next
  <1> QED
    BY <1>1, <1>2, PTL DEF Spec

\* A payload of strings gives back its packets with data exactly when no
\* text and no base64 starts with a digit and only the last is of no
\* characters, whatever the packets are and however many.
THEOREM StringRoundTrip == Spec => []StringPayloadRoundTrip
  <1>1. TypeInv => StringPayloadRoundTrip
    <2> SUFFICES ASSUME TypeInv
                 PROVE  StringPayloadRoundTrip
      OBVIOUS
    <2>1. PICK ps \in Seq(EnginePackets) : ps = payload
      BY DEF TypeInv
    <2>2. KeepsStrings(ps)
      BY <2>1, AllKept
    <2>3. PICK q \in Seq(Full) : q = Kept(ps)
      BY <2>2 DEF KeepsStrings
    <2>4. StringSerializePayload(ps) = FlattenSeq(Strings(q))
      <3>1. StringSerializePayload(ps) = FlattenSeq(Strings(ps))
        BY StringPayload
      <3> QED
        BY <2>2, <2>3, <3>1 DEF KeepsStrings
    <2>5. PICK d : d = StringDecodePayload(FlattenSeq(Strings(q)))
      OBVIOUS
    <2>6. (d.status = "ok" /\ d.items = q) <=> \A i \in 1 .. Len(q) : StringFits(q, i)
      BY <2>5, StringsDecoded
    <2>7. d = StringDecodePayload(StringSerializePayload(payload)) /\ q = Kept(payload)
      BY <2>1, <2>3, <2>4, <2>5
    <2> QED
      BY <2>6, <2>7, Zenon DEF StringPayloadRoundTrip, StringFits
  <1> QED
    BY <1>1, TypeCorrect, PTL

\* A binary payload gives back the types and contents of its packets, be they
\* text or bytes, exactly when all have data and no text starts with a digit,
\* whatever the packets are and however many.
THEOREM BinaryRoundTrip == Spec => []BinaryPayloadRoundTrip
  <1>1. TypeInv => BinaryPayloadRoundTrip
    <2> SUFFICES ASSUME TypeInv
                 PROVE  BinaryPayloadRoundTrip
      OBVIOUS
    <2>1. PICK ps \in Seq(EnginePackets) : ps = payload
      BY DEF TypeInv
    <2>2. BinarySerializePayload(ps) = FlattenSeq(Binaried(ps))
      BY BinaryPayload
    <2>3. PICK d : d = BinaryDecodePayload(FlattenSeq(Binaried(ps)))
      OBVIOUS
    <2>4. (d.status = "ok" /\ Contents(d.items) = Contents(ps))
            <=> \A i \in 1 .. Len(ps) : BinaryFits(ps[i])
      BY <2>3, BinaryDecoded
    <2>5. d = BinaryDecodePayload(BinarySerializePayload(payload))
      BY <2>1, <2>2, <2>3
    <2> QED
      BY <2>1, <2>4, <2>5, Zenon DEF BinaryPayloadRoundTrip, BinaryFits
  <1> QED
    BY <1>1, TypeCorrect, PTL

\* Alone, the string form gives back text that starts with no digit and the
\* binary form gives back binary data, each nothing else.
THEOREM PacketsRoundTrip == Spec => []PacketRoundTrip
  <1>1. TypeInv => PacketRoundTrip
    <2> SUFFICES ASSUME TypeInv, Len(payload) = 1
                 PROVE  /\ StringGivesBack(payload[1])
                           <=> (payload[1].kind = "Text" /\ ~ StartsWithDigit(payload[1].data))
                        /\ BinaryGivesBack(payload[1]) <=> payload[1].kind = "Binary"
      BY Zenon DEF PacketRoundTrip, StringGivesBack, BinaryGivesBack
    <2>1. payload[1] \in EnginePackets
      BY DEF TypeInv
    <2> QED
      BY <2>1, StringAlone, BinaryAlone
  <1> QED
    BY <1>1, TypeCorrect, PTL
=============================================================================
