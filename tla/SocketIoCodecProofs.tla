------------------------- MODULE SocketIoCodecProofs -------------------------
(***************************************************************************)
(* Theorems about SocketIoCodec, for every data without objects that look  *)
(* like placeholders, every id and every namespace, and packets of any     *)
(* size.                                                                   *)
(***************************************************************************)
EXTENDS SocketIoCodec, RecursionLemmas

-----------------------------------------------------------------------------
(* Attachments taken out *)

\* The leaves of a JSON text, and of data that has no placeholders.
JsonLeaves == [kind : {"String", "Null", "Binary", "Array", "Object", "Placeholder"}, n : Nat]
DataLeaves == [kind : {"String", "Null", "Binary", "Array", "Object"}, n : Nat]

Deconstructed == [json : Seq(JsonLeaves), attachments : Seq(Nat)]
Nothing == [json |-> <<>>, attachments |-> <<>>]

\* An object that becomes an array stays a leaf.
LEMMA ArrayLeaf ==
  ASSUME NEW leaf \in JsonLeaves
  PROVE  /\ AsArray(leaf) \in JsonLeaves
         /\ leaf.kind \in {"Binary", "Placeholder"} => AsArray(leaf) = leaf
         /\ AsArray(leaf).kind = "Placeholder" => leaf.kind = "Placeholder"
         /\ AsArray(leaf) = leaf <=> leaf.kind # "Object"
  BY DEF AsArray, Leaf, JsonLeaves

\* One leaf more.
LEMMA ReplaceOne ==
  ASSUME NEW d \in Deconstructed, NEW leaf \in JsonLeaves
  PROVE  /\ Replace(d, leaf) \in Deconstructed
         /\ Len(Replace(d, leaf).json) = Len(d.json) + 1
         /\ \A k \in 1 .. Len(d.json) : Replace(d, leaf).json[k] = d.json[k]
         /\ \A k \in 1 .. Len(d.attachments) : Replace(d, leaf).attachments[k] = d.attachments[k]
         /\ IF leaf.kind = "Binary"
            THEN /\ Len(Replace(d, leaf).attachments) = Len(d.attachments) + 1
                 /\ Replace(d, leaf).attachments[Len(d.attachments) + 1] = leaf.n
                 /\ Replace(d, leaf).json[Len(d.json) + 1]
                    = Leaf("Placeholder", Len(d.attachments))
            ELSE /\ Len(Replace(d, leaf).attachments) = Len(d.attachments)
                 /\ Replace(d, leaf).json[Len(d.json) + 1] = AsArray(leaf)
  <1>1. d.json \in Seq(JsonLeaves) /\ d.attachments \in Seq(Nat)
    BY DEF Deconstructed
  <1>2. CASE leaf.kind = "Binary"
    <2>1. PICK p \in JsonLeaves : p = Leaf("Placeholder", Len(d.attachments))
      <3>1. PICK n \in Nat : n = Len(d.attachments)
        BY <1>1
      <3>2. Leaf("Placeholder", n) \in JsonLeaves
        BY DEF JsonLeaves, Leaf
      <3> QED
        BY <3>1, <3>2
    <2>2. /\ Append(d.json, p) \in Seq(JsonLeaves)
          /\ Append(d.attachments, leaf.n) \in Seq(Nat)
      BY <1>1 DEF JsonLeaves
    <2>3. Replace(d, leaf) = [json |-> Append(d.json, p), attachments |-> Append(d.attachments, leaf.n)]
      BY <1>2, <2>1 DEF Replace
    <2>4. Replace(d, leaf) \in Deconstructed
      BY <2>2, <2>3 DEF Deconstructed
    <2> QED
      BY <1>1, <1>2, <2>1, <2>3, <2>4
  <1>3. CASE leaf.kind # "Binary"
    <2>1. PICK a \in JsonLeaves : a = AsArray(leaf)
      BY ArrayLeaf
    <2>2. Replace(d, leaf) = [json |-> Append(d.json, a), attachments |-> d.attachments]
      BY <1>3, <2>1 DEF Replace, Deconstructed
    <2>3. Append(d.json, a) \in Seq(JsonLeaves)
      BY <1>1
    <2>4. Replace(d, leaf) \in Deconstructed
      BY <1>1, <2>2, <2>3 DEF Deconstructed
    <2> QED
      BY <1>1, <1>3, <2>1, <2>2, <2>4
  <1> QED
    BY <1>2, <1>3

\* Deconstruct, leaf by leaf.
IsDone(ls, done) ==
  /\ done \in [0 .. Len(ls) -> Deconstructed]
  /\ done[0] = Nothing
  /\ \A i \in 1 .. Len(ls) : done[i] = Replace(done[i - 1], ls[i])

\* It goes through the leaves of the data.
LEMMA Deconstruction ==
  ASSUME NEW v, v.leaves \in Seq(JsonLeaves)
  PROVE  \E done : IsDone(v.leaves, done) /\ Deconstruct(v) = done[Len(v.leaves)]
  <1>1. PICK ls \in Seq(JsonLeaves) : ls = v.leaves
    OBVIOUS
  <1>2. PICK N \in Nat : N = Len(ls)
    OBVIOUS
  <1> DEFINE step == [i \in 1 .. N |-> [d \in Deconstructed |-> Replace(d, ls[i])]]
             Rec(f) == f = [i \in 0 .. N |-> IF i = 0 THEN Nothing ELSE Replace(f[i - 1], ls[i])]
  <1>3. \A i \in 1 .. N : ls[i] \in JsonLeaves
    BY <1>2
  <1>4. Steps(N, Deconstructed, step)
    BY <1>3, ReplaceOne DEF Steps
  <1>5. \A i \in 1 .. N, d \in Deconstructed : step[i][d] = Replace(d, ls[i])
    OBVIOUS
  <1>6. Nothing \in Deconstructed
    BY DEF Nothing, Deconstructed
  <1>7. PICK f : IsAccumulation(N, Deconstructed, Nothing, step, f)
    <2> HIDE DEF step
    <2> QED
      BY <1>4, <1>6, Accumulation, Zenon
  <1>8. \A i \in 1 .. N : f[i] = Replace(f[i - 1], ls[i])
    <2> HIDE DEF step
    <2>1. \A i \in 1 .. N : f[i - 1] \in Deconstructed /\ f[i] = step[i][f[i - 1]]
      BY <1>7 DEF IsAccumulation
    <2> QED
      BY <1>5, <2>1
  <1>9. Rec(f)
    <2>1. f[0] = Nothing /\ \A i \in 0 .. N : i = 0 \/ i \in 1 .. N
      BY <1>7 DEF IsAccumulation
    <2>2. \A i \in 0 .. N : f[i] = IF i = 0 THEN Nothing ELSE Replace(f[i - 1], ls[i])
      BY <1>8, <2>1
    <2>3. f = [i \in 0 .. N |-> f[i]]
      BY <1>7 DEF IsAccumulation
    <2> QED
      BY <2>2, <2>3
  <1>10. PICK h : h = (CHOOSE x : Rec(x))
    OBVIOUS
  <1>11. Rec(h)
    <2> HIDE DEF Rec
    <2> QED
      BY <1>9, <1>10
  <1>12. \A i \in 0 .. N : h[i] \in Deconstructed
    <2> DEFINE S == {i \in 0 .. N : h[i] \in Deconstructed}
    <2>1. 0 \in S
      BY <1>6, <1>11
    <2>2. ASSUME NEW n \in 0 .. N - 1, n \in S
          PROVE  n + 1 \in S
      <3>1. h[n + 1] = Replace(h[n], ls[n + 1])
        BY <1>11
      <3>2. ls[n + 1] \in JsonLeaves /\ h[n] \in Deconstructed
        BY <1>3, <2>2
      <3>3. Replace(h[n], ls[n + 1]) \in Deconstructed
        BY <3>2, ReplaceOne
      <3> QED
        BY <3>1, <3>3
    <2>3. \A n \in 0 .. N : n \in S
      <3> HIDE DEF S
      <3> QED
        BY <2>1, <2>2, BoundedInduction
    <2> QED
      BY <2>3
  <1>13. IsDone(ls, h)
    BY <1>2, <1>11, <1>12, SMTT(60) DEF IsDone
  <1>14. Deconstruct(v) = h[N]
    BY <1>1, <1>2, <1>10 DEF Deconstruct, Nothing
  <1> QED
    BY <1>1, <1>2, <1>13, <1>14

\* What is taken out of the first leaves stays when the others follow.
Extended(d, e) ==
  /\ \A k \in 1 .. Len(d.json) : k <= Len(e.json) /\ e.json[k] = d.json[k]
  /\ Len(d.attachments) <= Len(e.attachments)
  /\ \A k \in 1 .. Len(d.attachments) : e.attachments[k] = d.attachments[k]

\* Every leaf extends what was taken out before it.
LEMMA Extending ==
  ASSUME NEW ls \in Seq(JsonLeaves), NEW done, IsDone(ls, done)
  PROVE  /\ \A i \in 0 .. Len(ls) : Len(done[i].json) = i
         /\ \A i \in 0 .. Len(ls) : Extended(done[i], done[Len(ls)])
  <1>1. PICK N \in Nat : N = Len(ls)
    OBVIOUS
  <1>2. \A i \in 0 .. N : /\ done[i] \in Deconstructed
                          /\ done[i].json \in Seq(JsonLeaves)
                          /\ done[i].attachments \in Seq(Nat)
    BY <1>1 DEF IsDone, Deconstructed
  <1>3. ASSUME NEW i \in 0 .. N - 1
        PROVE  /\ Len(done[i + 1].json) = Len(done[i].json) + 1
               /\ Extended(done[i], done[i + 1])
    <2>1. i + 1 \in 1 .. N /\ done[i] \in Deconstructed /\ ls[i + 1] \in JsonLeaves
      BY <1>1, <1>2
    <2>2. done[i + 1] = Replace(done[i], ls[i + 1])
      BY <1>1, <2>1 DEF IsDone
    <2>3. PICK d \in Deconstructed, leaf \in JsonLeaves : d = done[i] /\ leaf = ls[i + 1]
      BY <2>1
    <2>4. PICK m \in Nat, n \in Nat : m = Len(d.json) /\ n = Len(d.attachments)
      BY <1>2, <2>3
    <2>5. /\ Len(Replace(d, leaf).json) = m + 1
          /\ n <= Len(Replace(d, leaf).attachments)
      <3>1. CASE leaf.kind = "Binary"
        BY <2>4, <3>1, ReplaceOne
      <3>2. CASE leaf.kind # "Binary"
        BY <2>4, <3>2, ReplaceOne
      <3> QED
        BY <3>1, <3>2
    <2>6. Extended(d, Replace(d, leaf))
      BY <2>4, <2>5, ReplaceOne DEF Extended
    <2> QED
      BY <2>2, <2>3, <2>4, <2>5, <2>6
  <1>4. \A i \in 0 .. N : Len(done[i].json) = i
    <2> DEFINE S == {i \in 0 .. N : Len(done[i].json) = i}
    <2>1. 0 \in S
      BY DEF IsDone, Nothing
    <2>2. \A n \in 0 .. N - 1 : n \in S => n + 1 \in S
      BY <1>3
    <2>3. \A n \in 0 .. N : n \in S
      <3> HIDE DEF S
      <3> QED
        BY <2>1, <2>2, BoundedInduction
    <2> QED
      BY <2>3
  <1>5. \A i \in 0 .. N : Extended(done[i], done[N])
    <2> DEFINE S == {i \in 0 .. N : Extended(done[i], done[N])}
    <2>1. N \in S
      <3>1. /\ Len(done[N].json) = N /\ done[N].attachments \in Seq(Nat)
        BY <1>2, <1>4
      <3> QED
        BY <3>1 DEF Extended
    <2>2. ASSUME NEW n \in 0 .. N - 1, n + 1 \in S
          PROVE  n \in S
      <3>1. PICK a, b, c : a = done[n] /\ b = done[n + 1] /\ c = done[N]
        OBVIOUS
      <3>2. Extended(a, b) /\ Extended(b, c)
        BY <1>3, <2>2, <3>1
      <3>3. /\ Len(a.json) = n /\ Len(b.json) = n + 1 /\ Len(c.json) = N
            /\ Len(a.attachments) \in Nat /\ Len(b.attachments) \in Nat /\ Len(c.attachments) \in Nat
        BY <1>2, <1>4, <3>1, SMTT(60)
      <3>4. Extended(a, c)
        BY <3>2, <3>3, SMTT(60) DEF Extended
      <3> QED
        BY <3>1, <3>4
    <2>3. \A n \in 0 .. N : n \in S
      <3> HIDE DEF S
      <3> QED
        BY <2>1, <2>2, DownwardInduction
    <2> QED
      BY <2>3
  <1> QED
    BY <1>1, <1>4, <1>5

\* Where leaf i + 1 is found when c attachments were taken out before it.
Found(ls, done, N, i, c) ==
  IF ls[i + 1].kind = "Binary"
  THEN /\ done[N].json[i + 1] = Leaf("Placeholder", c)
       /\ c < Len(done[N].attachments)
       /\ done[N].attachments[c + 1] = ls[i + 1].n
       /\ Len(done[i + 1].attachments) = c + 1
  ELSE done[N].json[i + 1] = AsArray(ls[i + 1]) /\ Len(done[i + 1].attachments) = c

\* Every leaf is found there.
LEMMA WhereItIs ==
  ASSUME NEW ls \in Seq(JsonLeaves), NEW done, IsDone(ls, done),
         NEW N \in Nat, N = Len(ls), NEW i \in 0 .. N - 1, NEW c \in Nat,
         c = Len(done[i].attachments)
  PROVE  Found(ls, done, N, i, c)
  <1>1. /\ i + 1 \in 1 .. N /\ done[i] \in Deconstructed /\ ls[i + 1] \in JsonLeaves
        /\ Len(done[N].attachments) \in Nat
    BY SMTT(60) DEF IsDone, Deconstructed
  <1>2. PICK d \in Deconstructed, leaf \in JsonLeaves : d = done[i] /\ leaf = ls[i + 1]
    BY <1>1
  <1>3. PICK e : e = done[i + 1]
    OBVIOUS
  <1>4. e = Replace(d, leaf) /\ Len(d.json) = i /\ c = Len(d.attachments)
    <2>1. \A k \in 0 .. Len(ls) : Len(done[k].json) = k
      BY Extending
    <2>2. done[i + 1] = Replace(done[i], ls[i + 1])
      BY <1>1 DEF IsDone
    <2> QED
      BY <1>2, <1>3, <2>1, <2>2
  <1>5. Len(e.json) = i + 1 /\ Extended(e, done[N])
    BY <1>1, <1>3, Extending
  <1>6. done[N].json[i + 1] = e.json[i + 1]
    BY <1>5 DEF Extended
  <1>7. IF leaf.kind = "Binary"
        THEN /\ Len(e.attachments) = c + 1
             /\ e.attachments[c + 1] = leaf.n
             /\ e.json[i + 1] = Leaf("Placeholder", c)
        ELSE /\ Len(e.attachments) = c
             /\ e.json[i + 1] = AsArray(leaf)
    <2>1. CASE leaf.kind = "Binary"
      <3>1. /\ Len(Replace(d, leaf).attachments) = Len(d.attachments) + 1
            /\ Replace(d, leaf).attachments[Len(d.attachments) + 1] = leaf.n
            /\ Replace(d, leaf).json[Len(d.json) + 1] = Leaf("Placeholder", Len(d.attachments))
        BY <2>1, ReplaceOne
      <3> QED
        BY <1>4, <2>1, <3>1
    <2>2. CASE leaf.kind # "Binary"
      BY <1>4, <2>2, ReplaceOne
    <2> QED
      BY <2>1, <2>2
  <1>8. CASE leaf.kind = "Binary"
    <2>1. c + 1 \in 1 .. Len(e.attachments)
      BY <1>7, <1>8
    <2>2. done[N].attachments[c + 1] = e.attachments[c + 1]
      BY <1>5, <2>1 DEF Extended
    <2>3. c + 1 <= Len(done[N].attachments)
      BY <1>5, <1>7, <1>8 DEF Extended
    <2> QED
      BY <1>1, <1>2, <1>3, <1>6, <1>7, <1>8, <2>2, <2>3 DEF Found
  <1> QED
    BY <1>2, <1>3, <1>6, <1>7, <1>8 DEF Found

-----------------------------------------------------------------------------
(* Attachments put back *)

\* Data without placeholders can be JSON.
LEMMA DataIsJson ==
  ASSUME NEW ls \in Seq(DataLeaves)
  PROVE  ls \in Seq(JsonLeaves)
  <1>1. DataLeaves \subseteq JsonLeaves
    BY DEF JsonLeaves, DataLeaves
  <1> QED
    BY <1>1

\* One element more.
LEMMA NextOne ==
  ASSUME NEW X, NEW s \in Seq(X), NEW i \in 0 .. Len(s) - 1
  PROVE  SubSeq(s, 1, i + 1) = Append(SubSeq(s, 1, i), s[i + 1])
  OBVIOUS

\* All the elements.
LEMMA Whole ==
  ASSUME NEW X, NEW s \in Seq(X)
  PROVE  SubSeq(s, 1, Len(s)) = s
  OBVIOUS

\* Leaves that came through the encoder.
Arrays(ls) == [i \in 1 .. Len(ls) |-> AsArray(ls[i])]

\* What PutBack makes of the first i placeholders and other leaves, if it
\* gives back the leaves ls.
Back(ls, done, i) ==
  [leaves |-> SubSeq(Arrays(ls), 1, i),
   left |-> Len(done[i].attachments) .. Len(done[Len(ls)].attachments) - 1]

\* One leaf more.
LEMMA PutBackOne ==
  ASSUME NEW ls \in Seq(DataLeaves), NEW done, IsDone(ls, done),
         NEW N \in Nat, N = Len(ls), NEW i \in 0 .. N - 1
  PROVE  PutBack(done[N].attachments, Back(ls, done, i), done[N].json[i + 1])
         = Back(ls, done, i + 1)
  <1>1. /\ ls \in Seq(JsonLeaves) /\ ls[i + 1] \in DataLeaves
        /\ done[i] \in Deconstructed /\ done[N] \in Deconstructed
    BY DataIsJson DEF IsDone
  <1>2. PICK c \in Nat, M \in Nat : c = Len(done[i].attachments) /\ M = Len(done[N].attachments)
    <2>1. PICK a, b : a = done[i].attachments /\ b = done[N].attachments
      OBVIOUS
    <2>2. a \in Seq(Nat) /\ b \in Seq(Nat)
      BY <1>1, <2>1, Zenon DEF Deconstructed
    <2>3. Len(a) \in Nat /\ Len(b) \in Nat
      BY <2>2
    <2> QED
      BY <2>1, <2>3
  <1>3. PICK leaf \in DataLeaves : leaf = ls[i + 1]
    BY <1>1
  <1>4. SubSeq(Arrays(ls), 1, i + 1) = Append(SubSeq(Arrays(ls), 1, i), AsArray(leaf))
    <2>1. PICK as : as = Arrays(ls)
      OBVIOUS
    <2>2. as \in Seq(JsonLeaves) /\ Len(as) = N /\ as[i + 1] = AsArray(leaf)
      <3>1. \A k \in 1 .. N : AsArray(ls[k]) \in JsonLeaves
        BY <1>1, ArrayLeaf
      <3> QED
        BY <1>3, <2>1, <3>1 DEF Arrays
    <2>3. SubSeq(as, 1, i + 1) = Append(SubSeq(as, 1, i), as[i + 1])
      <3>1. i \in 0 .. Len(as) - 1
        BY <2>2
      <3> QED
        BY <2>2, <3>1, NextOne, Zenon
    <2> QED
      BY <2>1, <2>2, <2>3
  <1>5. Found(ls, done, N, i, c)
    BY <1>1, <1>2, WhereItIs, Zenon
  <1>6. CASE leaf.kind = "Binary"
    <2>1. /\ done[N].json[i + 1] = Leaf("Placeholder", c)
          /\ c < M
          /\ done[N].attachments[c + 1] = leaf.n
          /\ Len(done[i + 1].attachments) = c + 1
      BY <1>2, <1>3, <1>6, <1>5 DEF Found
    <2>2. AsArray(leaf) = Leaf("Binary", done[N].attachments[c + 1])
      BY <1>6, <2>1 DEF AsArray, Leaf, DataLeaves
    <2>3. (c .. M - 1) \ {c} = c + 1 .. M - 1 /\ c \in c .. M - 1
      BY <2>1
    <2>4. PutBack(done[N].attachments, Back(ls, done, i), Leaf("Placeholder", c))
          = [leaves |-> Append(SubSeq(Arrays(ls), 1, i), AsArray(leaf)),
             left |-> (c .. M - 1) \ {c}]
      BY <1>2, <2>2, <2>3 DEF PutBack, Back, Leaf
    <2> QED
      BY <1>2, <1>4, <2>1, <2>3, <2>4 DEF Back
  <1>7. CASE leaf.kind # "Binary"
    <2>1. /\ done[N].json[i + 1] = AsArray(leaf)
          /\ Len(done[i + 1].attachments) = c
      BY <1>2, <1>3, <1>7, <1>5 DEF Found
    <2>2. AsArray(leaf).kind # "Placeholder"
      BY DEF AsArray, Leaf, DataLeaves
    <2>3. PutBack(done[N].attachments, Back(ls, done, i), AsArray(leaf))
          = [leaves |-> Append(SubSeq(Arrays(ls), 1, i), AsArray(leaf)), left |-> c .. M - 1]
      BY <1>2, <2>2 DEF PutBack, Back
    <2> QED
      BY <1>2, <1>4, <2>1, <2>3 DEF Back
  <1> QED
    BY <1>6, <1>7

\* Reconstruct gives back the leaves that Deconstruct went through.
LEMMA Restoration ==
  ASSUME NEW v, v.leaves \in Seq(DataLeaves),
         NEW header, header.leaves = Deconstruct(v).json
  PROVE  Reconstruct(header, Deconstruct(v).attachments) = Data(header.shape, Arrays(v.leaves))
  <1>1. PICK ls \in Seq(DataLeaves) : ls = v.leaves
    OBVIOUS
  <1>2. ls \in Seq(JsonLeaves)
    BY DataIsJson
  <1>3. PICK done : IsDone(ls, done) /\ Deconstruct(v) = done[Len(ls)]
    BY <1>1, <1>2, Deconstruction
  <1>4. PICK N \in Nat : N = Len(ls)
    OBVIOUS
  <1>5. PICK att, json : att = done[N].attachments /\ json = done[N].json
    OBVIOUS
  <1>6. Len(json) = N
    BY <1>2, <1>3, <1>4, <1>5, Extending
  <1> DEFINE first == [leaves |-> <<>>, left |-> 0 .. Len(att) - 1]
             Rec(f) == f = [i \in 0 .. N |-> IF i = 0 THEN first ELSE PutBack(att, f[i - 1], json[i])]
             back == [i \in 0 .. N |-> Back(ls, done, i)]
  <1>7. first = Back(ls, done, 0)
    <2>1. Len(done[0].attachments) = 0 /\ SubSeq(Arrays(ls), 1, 0) = <<>>
      BY <1>3 DEF IsDone, Nothing
    <2> QED
      BY <1>4, <1>5, <2>1 DEF Back
  <1>8. \A i \in 0 .. N - 1 : PutBack(att, back[i], json[i + 1]) = back[i + 1]
    <2>1. \A i \in 0 .. N - 1 :
             PutBack(att, Back(ls, done, i), json[i + 1]) = Back(ls, done, i + 1)
      BY <1>3, <1>4, <1>5, PutBackOne
    <2>2. \A i \in 0 .. N - 1 : back[i] = Back(ls, done, i) /\ back[i + 1] = Back(ls, done, i + 1)
      OBVIOUS
    <2> HIDE DEF back
    <2> QED
      BY <2>1, <2>2
  <1>9. Rec(back)
    <2>1. back = [i \in 0 .. N |-> back[i]] /\ back[0] = first
      BY <1>7
    <2> HIDE DEF back, first
    <2>2. \A i \in 0 .. N : back[i] = IF i = 0 THEN first ELSE PutBack(att, back[i - 1], json[i])
      <3>1. ASSUME NEW i \in 0 .. N, i # 0
            PROVE  back[i] = PutBack(att, back[i - 1], json[i])
        <4>1. i - 1 \in 0 .. N - 1 /\ (i - 1) + 1 = i
          BY <3>1
        <4> QED
          BY <1>8, <4>1
      <3> QED
        BY <2>1, <3>1
    <2> QED
      BY <2>1, <2>2
  <1>10. PICK h : h = (CHOOSE x : Rec(x))
    OBVIOUS
  <1>11. Rec(h)
    <2> HIDE DEF Rec
    <2> QED
      BY <1>9, <1>10
  <1>12. \A i \in 0 .. N : h[i] = back[i]
    <2> DEFINE S == {i \in 0 .. N : h[i] = back[i]}
    <2>1. 0 \in S
      <3>1. h[0] = first
        BY <1>11
      <3>2. back[0] = first
        BY <1>7
      <3> HIDE DEF back, first
      <3> QED
        BY <3>1, <3>2
    <2>2. ASSUME NEW n \in 0 .. N - 1, n \in S
          PROVE  n + 1 \in S
      <3>1. h[n + 1] = PutBack(att, h[n], json[n + 1])
        BY <1>11
      <3> HIDE DEF back
      <3> QED
        BY <1>8, <2>2, <3>1
    <2>3. \A n \in 0 .. N : n \in S
      <3> HIDE DEF S
      <3> QED
        BY <2>1, <2>2, BoundedInduction
    <2> QED
      BY <2>3
  <1>13. Reconstruct(header, att) = Data(header.shape, h[N].leaves)
    BY <1>3, <1>4, <1>5, <1>6, <1>10 DEF Reconstruct
  <1>14. h[N].leaves = Arrays(ls)
    <2>1. h[N] = Back(ls, done, N)
      BY <1>12
    <2>2. SubSeq(Arrays(ls), 1, N) = Arrays(ls)
      <3>1. PICK as : as = Arrays(ls)
        OBVIOUS
      <3>2. as \in Seq(JsonLeaves) /\ Len(as) = N
        <4>1. \A k \in 1 .. N : AsArray(ls[k]) \in JsonLeaves
          BY <1>2, <1>4, ArrayLeaf
        <4> QED
          BY <1>4, <3>1, <4>1 DEF Arrays
      <3>3. SubSeq(as, 1, N) = as
        BY <3>2, Whole, Zenon
      <3> QED
        BY <3>1, <3>3
    <2> QED
      BY <2>1, <2>2 DEF Back
  <1> QED
    BY <1>1, <1>3, <1>4, <1>5, <1>13, <1>14

-----------------------------------------------------------------------------
(* Attachments *)

\* The data of packets.
DataValues ==
  {Null, Data("String", <<StringLeaf>>)} \cup [shape : {"Array", "Object"}, leaves : Seq(Leaves)]

Packets == [type : ProtoTypes, id : Options(Ids), nsp : Namespaces, data : DataValues]

\* The packets that are encoded: SocketIoCodec builds no others.
TypeInv == packet \in Packets

\* An array or an object without leaves is data.
LEMMA NoLeaves ==
  \A shape \in {"Array", "Object"} : Data(shape, <<>>) \in DataValues
  <1>1. <<>> \in Seq(Leaves)
    OBVIOUS
  <1> QED
    BY <1>1, Zenon DEF DataValues, Data

\* So is what a packet starts with.
LEMMA FreshData ==
  ASSUME NEW v \in Fresh
  PROVE  v \in DataValues
  <1>1. CASE v = Data("Array", <<>>) \/ v = Data("Object", <<>>)
    BY <1>1, NoLeaves
  <1>2. CASE v = Null \/ v = Data("String", <<StringLeaf>>)
    BY <1>2 DEF DataValues
  <1> QED
    BY <1>1, <1>2 DEF Fresh

\* The packets the model builds are packets of packet.rs with data of one of
\* its shapes.
LEMMA TypeCorrect == PacketSpec => []TypeInv
  <1>1. PacketInit => TypeInv
    BY FreshData DEF PacketInit, TypeInv, Packets, Packet
  <1>2. ASSUME TypeInv, [PacketNext]_packet
        PROVE  TypeInv'
    <2>1. CASE AddLeaf
      <3>1. PICK leaf \in Leaves : packet' = [packet EXCEPT !.data.leaves = Append(@, leaf)]
        BY <2>1 DEF AddLeaf
      <3>2. PICK v : v = packet.data
        OBVIOUS
      <3>3. v \in [shape : {"Array", "Object"}, leaves : Seq(Leaves)]
        BY <1>2, <2>1, <3>2 DEF TypeInv, Packets, AddLeaf, DataValues, Null, Data
      <3>4. [v EXCEPT !.leaves = Append(@, leaf)] \in DataValues
        BY <3>3, SMTT(60) DEF DataValues
      <3>5. packet' = [packet EXCEPT !.data = [v EXCEPT !.leaves = Append(@, leaf)]]
        BY <3>1, <3>2
      <3> QED
        BY <1>2, <3>4, <3>5 DEF TypeInv, Packets
    <2>2. CASE AnotherPacket
      BY <1>2, <2>2, FreshData DEF AnotherPacket, TypeInv, Packets
    <2>3. CASE UNCHANGED packet
      BY <1>2, <2>3 DEF TypeInv
    <2> QED
      BY <1>2, <2>1, <2>2, <2>3 DEF PacketNext
  <1> QED
    BY <1>1, <1>2, PTL DEF PacketSpec

\* No leaf of data is a placeholder.
LEMMA LeavesOfData ==
  ASSUME NEW v \in DataValues
  PROVE  v.leaves \in Seq(DataLeaves)
  <1>1. Leaves \subseteq DataLeaves
    BY DataAssumption DEF DataLeaves
  <1>2. CASE v = Null
    BY <1>2 DEF Null, Data
  <1>3. CASE v = Data("String", <<StringLeaf>>)
    <2>1. StringLeaf \in DataLeaves
      BY DEF StringLeaf, Leaf, DataLeaves
    <2> QED
      BY <1>3, <2>1 DEF Data
  <1>4. CASE v \in [shape : {"Array", "Object"}, leaves : Seq(Leaves)]
    <2>1. v.leaves \in Seq(Leaves)
      BY <1>4
    <2> QED
      BY <1>1, <2>1
  <1> QED
    BY <1>2, <1>3, <1>4 DEF DataValues

\* Attachments that reconstruct puts back by their placeholders give the data
\* from which deconstruct took them, with arrays for objects, whatever the
\* data.
THEOREM Restored == PacketSpec => []AttachmentsRestored
  <1>1. TypeInv => AttachmentsRestored
    <2> SUFFICES ASSUME TypeInv
                 PROVE  AttachmentsRestored
      OBVIOUS
    <2>1. PICK v : v = packet.data
      OBVIOUS
    <2>2. v.leaves \in Seq(DataLeaves)
      BY <2>1, LeavesOfData DEF TypeInv, Packets
    <2>3. HeaderData(v).leaves = Deconstruct(v).json
      BY DEF HeaderData, Data
    <2>4. Reconstruct(HeaderData(v), Deconstruct(v).attachments)
          = Data(HeaderData(v).shape, Arrays(v.leaves))
      BY <2>2, <2>3, Restoration
    <2>5. Arrays(v.leaves) = [i \in DOMAIN v.leaves |-> AsArray(v.leaves[i])]
      BY <2>2 DEF Arrays
    <2> QED
      BY <2>1, <2>4, <2>5 DEF AttachmentsRestored
  <1> QED
    BY <1>1, TypeCorrect, PTL

-----------------------------------------------------------------------------
(* Tokens *)

\* The leading digits end at the first token that is none.
LEMMA LeadingFacts ==
  ASSUME NEW X, NEW s \in Seq(X)
  PROVE  /\ LeadingDigits(s) \in 0 .. Len(s)
         /\ \A i \in 1 .. LeadingDigits(s) : s[i].token = "digit"
         /\ LeadingDigits(s) < Len(s) => s[LeadingDigits(s) + 1].token # "digit"
  <1> DEFINE I == {i \in 1 .. Len(s) : s[i].token # "digit"}
  <1>1. CASE I = {}
    <2>1. LeadingDigits(s) = Len(s)
      BY <1>1 DEF LeadingDigits, SelectInSeq
    <2> QED
      BY <1>1, <2>1
  <1>2. CASE I # {}
    <2>1. PICK k \in I : \A i \in I : k <= i
      <3>1. I \in SUBSET Nat
        OBVIOUS
      <3> HIDE DEF I
      <3> QED
        BY <1>2, <3>1, LeastElement
    <2>2. Min(I) \in I /\ \A i \in I : Min(I) <= i
      <3> HIDE DEF I
      <3> QED
        BY <2>1 DEF Min
    <2>3. Min(I) = k
      BY <2>1, <2>2
    <2>4. LeadingDigits(s) = k - 1
      BY <1>2, <2>3 DEF LeadingDigits, SelectInSeq
    <2> QED
      BY <2>1, <2>4
  <1> QED
    BY <1>1, <1>2

\* Behind the leading digits there are tokens.
LEMMA AfterDigitsTokens ==
  ASSUME NEW X, NEW s \in Seq(X)
  PROVE  AfterDigits(s) \in Seq(X)
  <1>1. PICK n \in Nat : n = LeadingDigits(s) /\ n <= Len(s)
    BY LeadingFacts
  <1>2. SubSeq(s, n + 1, Len(s)) \in Seq(X)
    BY <1>1
  <1> QED
    BY <1>1, <1>2 DEF AfterDigits

\* A run of digits and what follows it.
LEMMA Run ==
  ASSUME NEW X, NEW ds \in Seq(X), NEW r \in Seq(X), NEW s, s = ds \o r,
         \A i \in 1 .. Len(ds) : ds[i].token = "digit",
         Len(r) > 0 => r[1].token # "digit"
  PROVE  /\ LeadingDigits(s) = Len(ds)
         /\ AfterDigits(s) = r
         /\ DigitsOf(s) = [i \in 1 .. Len(ds) |-> ds[i].digit]
  <1>1. PICK k \in Nat, m \in Nat : k = Len(ds) /\ m = Len(r)
    OBVIOUS
  <1>2. /\ s \in Seq(X) /\ Len(s) = k + m
        /\ \A i \in 1 .. k : s[i] = ds[i]
        /\ m > 0 => s[k + 1] = r[1]
    BY <1>1
  <1>3. PICK n : n = LeadingDigits(s)
    OBVIOUS
  <1>4. /\ n \in 0 .. k + m
        /\ \A i \in 1 .. n : s[i].token = "digit"
        /\ n < k + m => s[n + 1].token # "digit"
    BY <1>2, <1>3, LeadingFacts
  <1>5. n = k
    <2>1. ~ (n < k)
      <3> SUFFICES ASSUME n < k
                   PROVE  FALSE
        OBVIOUS
      <3>1. n + 1 \in 1 .. k /\ n < k + m
        BY <1>4
      <3> QED
        BY <1>1, <1>2, <1>4, <3>1
    <2>2. ~ (n > k)
      <3> SUFFICES ASSUME n > k
                   PROVE  FALSE
        OBVIOUS
      <3>1. k + 1 \in 1 .. n /\ m > 0
        BY <1>4
      <3> QED
        BY <1>1, <1>2, <1>4, <3>1
    <2> QED
      BY <1>4, <2>1, <2>2
  <1>6. SubSeq(s, k + 1, Len(s)) = r
    BY <1>1, BehindFirst
  <1>7. [i \in 1 .. k |-> s[i].digit] = [i \in 1 .. k |-> ds[i].digit]
    BY <1>2
  <1> QED
    BY <1>1, <1>3, <1>5, <1>6, <1>7 DEF AfterDigits, DigitsOf

\* The first comma.
LEMMA FirstComma ==
  ASSUME NEW X, NEW s \in Seq(X), NEW k \in 1 .. Len(s), s[k].token = "comma",
         \A i \in 1 .. k - 1 : s[i].token # "comma"
  PROVE  SelectInSeq(s, LAMBDA x : x.token = "comma") = k
  <1> DEFINE I == {i \in 1 .. Len(s) : s[i].token = "comma"}
  <1>1. k \in I /\ \A i \in I : k <= i
    OBVIOUS
  <1>2. Min(I) \in I /\ \A i \in I : Min(I) <= i
    <2> HIDE DEF I
    <2> QED
      BY <1>1 DEF Min
  <1>3. Min(I) = k
    BY <1>1, <1>2
  <1> QED
    BY <1>1, <1>3 DEF SelectInSeq

\* There is a comma, and it is the first one, or there is none.
LEMMA SomeComma ==
  ASSUME NEW X, NEW s \in Seq(X)
  PROVE  \/ SelectInSeq(s, LAMBDA x : x.token = "comma") = 0
         \/ \E k \in 1 .. Len(s) :
                /\ SelectInSeq(s, LAMBDA x : x.token = "comma") = k
                /\ \A i \in 1 .. k - 1 : s[i].token # "comma"
                /\ s[k].token = "comma"
  <1> DEFINE I == {i \in 1 .. Len(s) : s[i].token = "comma"}
  <1>1. CASE I = {}
    BY <1>1 DEF SelectInSeq
  <1>2. CASE I # {}
    <2>1. PICK k \in I : \A i \in I : k <= i
      <3>1. I \in SUBSET Nat
        OBVIOUS
      <3> HIDE DEF I
      <3> QED
        BY <1>2, <3>1, LeastElement
    <2>2. k \in 1 .. Len(s) /\ s[k].token = "comma" /\ \A i \in 1 .. k - 1 : s[i].token # "comma"
      BY <2>1
    <2> QED
      BY <2>2, FirstComma
  <1> QED
    BY <1>1, <1>2

\* The tokens are told apart.
LEMMA TokenFields ==
  /\ \A d : Digit(d).token = "digit" /\ Digit(d).digit = d
  /\ Dash.token = "dash"
  /\ Slash.token = "slash"
  /\ Comma.token = "comma"
  /\ \A v : Json(v).token = "json" /\ Json(v).json = v
  BY DEF Digit, Dash, Slash, Comma, Json

\* A number is encoded as at least one token, and all of them are digits.
LEMMA NumberTokens ==
  ASSUME NEW n \in Nat, NEW X, \A d \in Digits : Digit(d) \in X
  PROVE  /\ Number(n) \in Seq(X)
         /\ Len(Number(n)) >= 1
         /\ \A i \in 1 .. Len(Number(n)) : /\ Number(n)[i].token = "digit"
                                           /\ Number(n)[i].digit \in Digits
  <1>1. PICK ds \in Seq(Digits) : ds = Decimal[n]
    BY DecimalDigits
  <1>2. PICK k \in Nat : k = Len(ds)
    OBVIOUS
  <1>3. PICK s : s = [i \in 1 .. k |-> Digit(ds[i])]
    OBVIOUS
  <1>4. \A i \in 1 .. k : ds[i] \in Digits
    BY <1>2
  <1>5. s \in Seq(X) /\ Len(s) = k
    BY <1>3, <1>4
  <1>6. \A i \in 1 .. k : s[i].token = "digit" /\ s[i].digit \in Digits
    BY <1>3, <1>4, TokenFields
  <1>7. Number(n) = s
    BY <1>1, <1>2, <1>3 DEF Number
  <1>8. k >= 1
    BY <1>1, <1>2, FirstDigit
  <1> QED
    BY <1>5, <1>6, <1>7, <1>8

-----------------------------------------------------------------------------
(* Decoding what was encoded *)

\* Two digits in front, the first of them five or more, are no packet type.
LEMMA NoSuchType ==
  ASSUME NEW X, NEW s \in Seq(X), Len(s) >= 2,
         \A i \in 1 .. Len(s) : s[i].token = "digit" => s[i].digit \in Nat,
         s[1].token = "digit", s[1].digit >= 5, s[2].token = "digit"
  PROVE  DecodeProtoPacket(s).status = "failed"
  <1>1. PICK k : k = LeadingDigits(s)
    OBVIOUS
  <1>2. /\ k \in 0 .. Len(s)
        /\ \A i \in 1 .. k : s[i].token = "digit"
        /\ k < Len(s) => s[k + 1].token # "digit"
    BY <1>1, LeadingFacts
  <1>3. k >= 2
    <2>1. k # 0 /\ k # 1
      BY <1>2
    <2> QED
      BY <1>2, <2>1
  <1>4. PICK ds : ds = DigitsOf(s)
    OBVIOUS
  <1>5. /\ ds \in Seq(Nat) /\ Len(ds) = k
        /\ ds[1] = s[1].digit /\ ds[2] = s[2].digit
    <2>1. ds = [i \in 1 .. k |-> s[i].digit]
      BY <1>1, <1>4 DEF DigitsOf
    <2>2. \A i \in 1 .. k : s[i].digit \in Nat
      BY <1>2
    <2> QED
      BY <1>2, <1>3, <2>1, <2>2
  <1>6. Value(ds) \in Nat /\ Value(ds) >= 50
    <2>1. PICK a \in Nat, b \in Nat : a = ds[1] /\ b = ds[2]
      BY <1>3, <1>5
    <2>2. Value(ds) \in Nat /\ Value(ds) >= 10 * a + b
      BY <1>3, <1>5, <2>1, ValueOfTwo
    <2>3. a >= 5
      BY <1>5, <2>1
    <2> QED
      BY <2>2, <2>3
  <1>7. TakeCode(s) = IF Value(ds) > 255 THEN Failed ELSE Parsed(AfterDigits(s), Value(ds))
    BY <1>1, <1>3, <1>4 DEF TakeCode
  <1>8. TakeCode(s).status # "ok" \/ TakeCode(s).value \notin 0 .. 6
    BY <1>6, <1>7 DEF Failed, Parsed
  <1> QED
    BY <1>8 DEF DecodeProtoPacket, Failed

\* One digit in front is taken for the type.
LEMMA OneDigit ==
  ASSUME NEW X, NEW d \in Digits, Digit(d) \in X, NEW r \in Seq(X),
         Len(r) > 0 => r[1].token # "digit"
  PROVE  TakeCode(<<Digit(d)>> \o r) = Parsed(r, d)
  <1>1. PICK ds : ds = <<Digit(d)>>
    OBVIOUS
  <1>2. ds \in Seq(X) /\ Len(ds) = 1 /\ ds[1] = Digit(d)
    BY <1>1
  <1>3. \A i \in 1 .. Len(ds) : ds[i].token = "digit"
    BY <1>2, TokenFields
  <1>4. PICK s : s = ds \o r
    OBVIOUS
  <1>5. /\ LeadingDigits(s) = Len(ds)
        /\ AfterDigits(s) = r
        /\ DigitsOf(s) = [i \in 1 .. Len(ds) |-> ds[i].digit]
    <2>1. ds \in Seq(X)
      BY <1>2
    <2> QED
      BY <2>1, <1>3, <1>4, Run, ZenonT(60)
  <1>6. DigitsOf(s) = <<d>>
    <2>1. ds[1].digit = d
      BY <1>2, TokenFields
    <2> QED
      BY <1>2, <1>5, <2>1
  <1>7. Value(DigitsOf(s)) = d /\ d <= 255
    BY <1>6, ValueOfOne DEF Digits
  <1> QED
    BY <1>1, <1>2, <1>4, <1>5, <1>7 DEF TakeCode, Digits

\* The rest of a packet whose type and count are parsed.
DecodeRest(type, rest) ==
  LET nsp == ParseNamespace(rest)
      id == ParseId(nsp.rest)
      data == ParseJson(id.rest)
  IN  IF nsp.status # "ok" \/ id.status # "ok" \/ ~IsPayloadValid(type, data) THEN Failed
      ELSE [status |-> "plain", packet |-> Packet(type, id.value, nsp.value, data), count |-> 0]

\* A type that is not binary, without a digit behind it.
LEMMA DecodePlain ==
  ASSUME NEW t \in ProtoTypes \ BinaryTypes, NEW X, Digit(Code[t]) \in X, NEW r \in Seq(X),
         Len(r) > 0 => r[1].token # "digit"
  PROVE  DecodeProtoPacket(<<Digit(Code[t])>> \o r) = DecodeRest(t, r)
  <1>1. PICK s : s = <<Digit(Code[t])>> \o r
    OBVIOUS
  <1>2. Code[t] \in 0 .. 6 /\ Code[t] \in Digits
    BY DEF Code, ProtoTypes, BinaryTypes, Digits
  <1>3. TakeCode(s) = Parsed(r, Code[t])
    BY <1>1, <1>2, OneDigit
  <1>4. (CHOOSE u \in ProtoTypes : Code[u] = Code[t]) = t
    <2>1. \A u \in ProtoTypes : Code[u] = Code[t] => u = t
      BY DEF Code, ProtoTypes, BinaryTypes
    <2> QED
      BY <2>1
  <1>5. /\ TakeCode(s).status = "ok" /\ TakeCode(s).rest = r /\ TakeCode(s).value = Code[t]
        /\ Parsed(r, 0).status = "ok" /\ Parsed(r, 0).rest = r /\ Parsed(r, 0).value = 0
    BY <1>3 DEF Parsed
  <1>6. t \notin BinaryTypes
    OBVIOUS
  <1>7. DecodeProtoPacket(s) = DecodeRest(t, r)
    <2>1. PICK code, count : /\ code = TakeCode(s) /\ count = Parsed(r, 0)
                             /\ code.status = "ok" /\ code.rest = r /\ code.value = Code[t]
                             /\ count.status = "ok" /\ count.rest = r /\ count.value = 0
      BY <1>5
    <2>2. (IF t \in BinaryTypes THEN TakeCount(r) ELSE count) = count
      BY <1>6
    <2>3. ~ (count.value > 0)
      BY <2>1
    <2>4. (CHOOSE u \in ProtoTypes : Code[u] = code.value) = t
      BY <1>4, <2>1
    <2>5. code.value \in 0 .. 6
      BY <1>2, <2>1
    <2>6. DecodeProtoPacket(s)
          = LET nsp == ParseNamespace(r)
                id == ParseId(nsp.rest)
                data == ParseJson(id.rest)
            IN  IF nsp.status # "ok" THEN Failed
                ELSE IF id.status # "ok" THEN Failed
                ELSE IF ~IsPayloadValid(t, data) THEN Failed
                ELSE [status |-> "plain", packet |-> Packet(t, id.value, nsp.value, data),
                      count |-> 0]
      BY <2>1, <2>2, <2>3, <2>4, <2>5 DEF DecodeProtoPacket
    <2> QED
      BY <2>6 DEF DecodeRest
  <1> QED
    BY <1>1, <1>7

\* A namespace with a slash in front and no comma in it is taken.
LEMMA NamespaceParsed ==
  ASSUME NEW X, Comma \in X, NEW n \in Seq(X), Separable(n), NEW r \in Seq(X)
  PROVE  /\ ParseNamespace(Append(n, Comma) \o r) = Parsed(r, n)
         /\ Append(n, Comma) \o r \in Seq(X)
         /\ Len(Append(n, Comma) \o r) > 0
         /\ (Append(n, Comma) \o r)[1].token = "slash"
  <1>1. PICK k \in Nat : k = Len(n)
    OBVIOUS
  <1>2. PICK m : m = Append(n, Comma)
    OBVIOUS
  <1>3. /\ m \in Seq(X) /\ Len(m) = k + 1 /\ m[k + 1] = Comma
        /\ \A i \in 1 .. k : m[i] = n[i]
    BY <1>1, <1>2
  <1>4. PICK s : s = m \o r
    OBVIOUS
  <1>5. s \in Seq(X) /\ Len(s) = k + 1 + Len(r) /\ \A i \in 1 .. k + 1 : s[i] = m[i]
    <2>1. /\ s \in Seq(X) /\ Len(s) = Len(m) + Len(r)
          /\ \A i \in 1 .. Len(m) : s[i] = m[i]
      <3>1. m \in Seq(X)
        BY <1>3
      <3> QED
        BY <1>4, <3>1, Joined
    <2> QED
      BY <1>3, <2>1
  <1>6. /\ k >= 1 /\ n[1].token = "slash"
        /\ \A i \in 1 .. k : n[i].token # "comma"
    <2>1. n # <<>> => Len(n) >= 1 /\ Head(n) = n[1] /\ DOMAIN n = 1 .. Len(n)
      OBVIOUS
    <2> QED
      BY <1>1, <2>1 DEF Separable, Starts
  <1>7. Len(s) >= 1 /\ s[1].token = "slash" /\ Starts(s, "slash")
    <2>1. Len(s) >= 1 /\ s[1] = n[1]
      BY <1>3, <1>5, <1>6
    <2>2. s # <<>> /\ Head(s) = s[1]
      BY <1>5, <2>1
    <2> QED
      BY <1>6, <2>1, <2>2 DEF Starts
  <1>8. SelectInSeq(s, LAMBDA x : x.token = "comma") = k + 1
    <2>1. k + 1 \in 1 .. Len(s) /\ s[k + 1].token = "comma"
      BY <1>3, <1>5, TokenFields
    <2>2. \A i \in 1 .. (k + 1) - 1 : s[i].token # "comma"
      BY <1>3, <1>5, <1>6
    <2> QED
      BY <1>5, <2>1, <2>2, FirstComma
  <1>9. SubSeq(s, (k + 1) + 1, Len(s)) = r
    BY <1>3, <1>4, BehindFirst
  <1>10. SubSeq(s, 1, (k + 1) - 1) = n
    <2>1. PICK v : v = SubSeq(s, 1, k)
      OBVIOUS
    <2>2. v \in Seq(X) /\ Len(v) = k /\ \A i \in 1 .. k : v[i] = s[i]
      BY <1>5, <2>1
    <2>3. v = n
      BY <1>1, <1>3, <1>5, <2>2, SameSequence
    <2> QED
      BY <2>1, <2>3
  <1>11. ParseNamespace(s) = Parsed(r, n)
    <2>1. PICK comma \in Nat : comma = k + 1
      OBVIOUS
    <2>2. SelectInSeq(s, LAMBDA x : x.token = "comma") = comma /\ comma # 0
      BY <1>8, <2>1
    <2>3. SubSeq(s, comma + 1, Len(s)) = r /\ SubSeq(s, 1, comma - 1) = n
      BY <1>9, <1>10, <2>1
    <2> QED
      BY <1>7, <2>2, <2>3, Zenon DEF ParseNamespace
  <1> QED
    BY <1>2, <1>4, <1>5, <1>7, <1>11

\* A namespace that is decoded has a slash in front and no comma in it.
LEMMA NamespaceDecoded ==
  ASSUME NEW X, NEW s \in Seq(X), ParseNamespace(s).status = "ok"
  PROVE  Separable(ParseNamespace(s).value)
  <1>1. CASE ~Starts(s, "slash")
    <2>1. ParseNamespace(s).value = Root
      BY <1>1 DEF ParseNamespace, Parsed
    <2>2. Separable(<<Slash>>)
      BY DEF Separable, Starts, Slash
    <2> QED
      BY <2>1, <2>2 DEF Root
  <1>2. CASE Starts(s, "slash")
    <2>1. PICK k : k = SelectInSeq(s, LAMBDA x : x.token = "comma")
      OBVIOUS
    <2>2. k # 0
      BY <1>2, <2>1 DEF ParseNamespace, Failed
    <2>3. /\ k \in 1 .. Len(s) /\ s[k].token = "comma"
          /\ \A i \in 1 .. k - 1 : s[i].token # "comma"
      BY <2>1, <2>2, SomeComma
    <2>4. s[1].token = "slash"
      <3>1. Head(s) = s[1]
        OBVIOUS
      <3> QED
        BY <1>2, <3>1 DEF Starts
    <2>5. PICK m \in Nat : m = k - 1 /\ m >= 1
      BY <2>3, <2>4
    <2>6. PICK v : v = SubSeq(s, 1, m)
      OBVIOUS
    <2>7. v \in Seq(X) /\ Len(v) = m /\ \A i \in 1 .. m : v[i] = s[i]
      BY <2>3, <2>5, <2>6
    <2>8. v # <<>> /\ Head(v) = v[1] /\ DOMAIN v = 1 .. m
      BY <2>5, <2>7
    <2>9. Separable(v)
      BY <2>3, <2>4, <2>5, <2>7, <2>8 DEF Separable, Starts
    <2>10. ParseNamespace(s).value = v
      BY <1>2, <2>1, <2>2, <2>5, <2>6 DEF ParseNamespace, Parsed
    <2> QED
      BY <2>9, <2>10
  <1> QED
    BY <1>1, <1>2

\* So has the namespace of every packet that is decoded.
LEMMA PacketDecoded ==
  ASSUME NEW X, NEW s \in Seq(X), DecodeProtoPacket(s).status = "plain"
  PROVE  Separable(DecodeProtoPacket(s).packet.nsp)
  <1>1. PICK code : code = TakeCode(s)
    OBVIOUS
  <1>2. PICK type : type = CHOOSE t \in ProtoTypes : Code[t] = code.value
    OBVIOUS
  <1>3. PICK count : count = IF type \in BinaryTypes THEN TakeCount(code.rest)
                             ELSE Parsed(code.rest, 0)
    OBVIOUS
  <1>4. PICK nsp : nsp = ParseNamespace(count.rest)
    OBVIOUS
  <1>5. PICK id : id = ParseId(nsp.rest)
    OBVIOUS
  <1>6. /\ code.status = "ok" /\ count.status = "ok" /\ nsp.status = "ok"
        /\ DecodeProtoPacket(s)
           = [status |-> IF count.value > 0 THEN "multipart" ELSE "plain",
              packet |-> Packet(type, id.value, nsp.value, ParseJson(id.rest)),
              count |-> count.value]
    BY <1>1, <1>2, <1>3, <1>4, <1>5, SMTT(60) DEF DecodeProtoPacket, Failed
  <1>7. code.rest \in Seq(X)
    <2>1. code.rest = AfterDigits(s)
      BY <1>1, <1>6 DEF TakeCode, Parsed, Failed
    <2>2. AfterDigits(s) \in Seq(X)
      BY AfterDigitsTokens
    <2> QED
      BY <2>1, <2>2
  <1>8. count.rest \in Seq(X)
    <2>1. CASE type \in BinaryTypes
      <3>1. PICK a : a = AfterDigits(code.rest)
        OBVIOUS
      <3>2. a \in Seq(X)
        BY <1>7, <3>1, AfterDigitsTokens
      <3>3. count.rest = Tail(a) /\ a # <<>>
        BY <1>3, <1>6, <2>1, <3>1 DEF TakeCount, Parsed, Failed, Starts
      <3> QED
        BY <3>2, <3>3
    <2>2. CASE type \notin BinaryTypes
      BY <1>3, <1>7, <2>2 DEF Parsed
    <2> QED
      BY <2>1, <2>2
  <1>9. Separable(nsp.value)
    BY <1>4, <1>6, <1>8, NamespaceDecoded
  <1> QED
    BY <1>6, <1>9 DEF Packet

\* A token of another kind is not.
LEMMA OtherToken ==
  ASSUME NEW X, NEW r \in Seq(X), NEW token, Len(r) > 0 => r[1].token # token
  PROVE  ~ Starts(r, token)
  <1>1. r # <<>> => Len(r) > 0 /\ Head(r) = r[1]
    OBVIOUS
  <1> QED
    BY <1>1 DEF Starts

\* Without digits in front there is no id.
LEMMA NoDigit ==
  ASSUME NEW X, NEW r \in Seq(X), Len(r) > 0 => r[1].token # "digit"
  PROVE  LeadingDigits(r) = 0 /\ ParseId(r) = Parsed(r, <<>>) /\ TakeCount(r) = Failed
  <1>1. LeadingDigits(r) = 0
    <2>1. PICK k : k = LeadingDigits(r)
      OBVIOUS
    <2>2. k \in 0 .. Len(r) /\ \A i \in 1 .. k : r[i].token = "digit"
      BY <2>1, LeadingFacts
    <2>3. ~ (k >= 1)
      BY <2>2
    <2> QED
      BY <2>1, <2>2, <2>3
  <1> QED
    BY <1>1 DEF ParseId, TakeCount

\* Digits without a dash behind them are no id.
LEMMA NoDash ==
  ASSUME NEW X, NEW ds \in Seq(X), NEW r \in Seq(X), Len(ds) >= 1,
         \A i \in 1 .. Len(ds) : ds[i].token = "digit",
         Len(r) > 0 => r[1].token \notin {"digit", "dash"}
  PROVE  ParseId(ds \o r) = Failed
  <1>1. PICK s : s = ds \o r
    OBVIOUS
  <1>2. LeadingDigits(s) = Len(ds) /\ AfterDigits(s) = r
    BY <1>1, Run
  <1>3. ~ Starts(r, "dash")
    BY OtherToken
  <1>4. TakeCount(s) = Failed
    BY <1>2, <1>3 DEF TakeCount
  <1>5. LeadingDigits(s) # 0
    BY <1>2
  <1>6. ParseId(s) = Failed
    BY <1>4, <1>5 DEF ParseId, Failed
  <1> QED
    BY <1>1, <1>6

\* When digits are all there is before the JSON text, no id is decoded.
LEMMA IdSwallowed ==
  ASSUME NEW X, NEW ds \in Seq(X), NEW r \in Seq(X),
         \A i \in 1 .. Len(ds) : ds[i].token = "digit",
         Len(r) > 0 => r[1].token \notin {"digit", "slash"}
  PROVE  LET decoded == DecodeProtoPacket(ds \o r)
         IN  decoded.status = "plain" => decoded.packet.id = <<>>
  <1>1. PICK s : s = ds \o r
    OBVIOUS
  <1>2. AfterDigits(s) = r
    BY <1>1, Run
  <1>3. PICK code : code = TakeCode(s)
    OBVIOUS
  <1>4. code.status = "ok" => code.rest = r
    BY <1>2, <1>3 DEF TakeCode, Parsed, Failed
  <1>5. PICK type : type = CHOOSE t \in ProtoTypes : Code[t] = code.value
    OBVIOUS
  <1>6. PICK count : count = IF type \in BinaryTypes THEN TakeCount(r) ELSE Parsed(r, 0)
    OBVIOUS
  <1>7. count.status = "ok" => count.rest = r
    BY <1>6, NoDigit DEF Parsed, Failed
  <1>8. PICK nsp : nsp = ParseNamespace(r)
    OBVIOUS
  <1>9. nsp.rest = r
    BY <1>8, OtherToken DEF ParseNamespace, Parsed
  <1>10. PICK id : id = ParseId(r)
    OBVIOUS
  <1>11. id.value = <<>>
    BY <1>10, NoDigit DEF Parsed
  <1>12. PICK decoded : decoded = DecodeProtoPacket(s)
    OBVIOUS
  <1>13. CASE code.status = "ok" /\ count.status = "ok"
    <2>1. \/ decoded = Failed
          \/ decoded = [status |-> IF count.value > 0 THEN "multipart" ELSE "plain",
                        packet |-> Packet(type, id.value, nsp.value, ParseJson(id.rest)),
                        count |-> count.value]
      BY <1>3, <1>4, <1>5, <1>6, <1>7, <1>8, <1>9, <1>10, <1>12, <1>13 DEF DecodeProtoPacket
    <2>2. decoded.status = "plain" => decoded.packet.id = <<>>
      BY <1>11, <2>1 DEF Failed, Packet
    <2> QED
      BY <1>1, <1>12, <2>2, SMTT(60)
  <1>14. CASE ~ (code.status = "ok" /\ count.status = "ok")
    <2>1. decoded = Failed
      BY <1>3, <1>4, <1>5, <1>6, <1>12, <1>14 DEF DecodeProtoPacket
    <2> QED
      BY <1>1, <1>12, <2>1, SMTT(60) DEF Failed
  <1> QED
    BY <1>13, <1>14

-----------------------------------------------------------------------------
(* What is encoded *)

\* The parts of an encoded packet.
TypePart(p) == <<Digit(Code[p.type])>>
CountPart(p) ==
  IF p.type \in BinaryTypes
  THEN Append(Number(Len(Deconstruct(p.data).attachments)), Dash) ELSE <<>>
NspPart(p) == IF p.nsp # Root THEN Append(p.nsp, Comma) ELSE <<>>
IdPart(p) == IF p.id # <<>> THEN Number(p.id[1]) ELSE <<>>
JsonPart(p) == IF HeaderData(p.data) # Null THEN <<Json(HeaderData(p.data))>> ELSE <<>>

\* The tokens of which they are made.
Tokens(p) == NameTokens \cup {Json(HeaderData(p.data))}

\* The tokens that are digits have a number.
LEMMA DigitTokens ==
  ASSUME NEW p, NEW x \in Tokens(p), x.token = "digit"
  PROVE  x.digit \in Nat
  <1>1. PICK d \in Digits : x = Digit(d)
    BY TokenFields DEF Tokens, NameTokens, NameChar
  <1> QED
    BY <1>1, TokenFields DEF Digits

\* The data is taken apart into leaves and attachments.
LEMMA DataTakenApart ==
  ASSUME NEW v \in DataValues
  PROVE  Deconstruct(v).json \in Seq(JsonLeaves) /\ Len(Deconstruct(v).attachments) \in Nat
  <1>1. v.leaves \in Seq(JsonLeaves)
    BY LeavesOfData, DataIsJson
  <1>2. PICK done : IsDone(v.leaves, done) /\ Deconstruct(v) = done[Len(v.leaves)]
    BY <1>1, Deconstruction
  <1>3. Len(v.leaves) \in Nat
    BY <1>1
  <1>4. Deconstruct(v) \in Deconstructed
    BY <1>2, <1>3 DEF IsDone
  <1> QED
    BY <1>4 DEF Deconstructed

\* One token, and none.
LEMMA FewTokens ==
  ASSUME NEW X, NEW x \in X
  PROVE  <<x>> \in Seq(X) /\ Len(<<x>>) = 1 /\ <<x>>[1] = x
  OBVIOUS

\* An encoded packet is its parts, one behind the other.
LEMMA Encoding ==
  ASSUME NEW p
  PROVE  EncodePacket(p)
         = Cat(Cat(Cat(Cat(TypePart(p), CountPart(p)), NspPart(p)), IdPart(p)), JsonPart(p))
  BY DEF EncodePacket, Cat, TypePart, CountPart, NspPart, IdPart, JsonPart

\* Each part is made of tokens.
LEMMA PartsOfPacket ==
  ASSUME NEW p \in Packets
  PROVE  /\ TypePart(p) \in Seq(Tokens(p)) /\ CountPart(p) \in Seq(Tokens(p))
         /\ NspPart(p) \in Seq(Tokens(p)) /\ IdPart(p) \in Seq(Tokens(p))
         /\ JsonPart(p) \in Seq(Tokens(p))
  <1>1. PICK X : X = Tokens(p)
    OBVIOUS
  <1>2. /\ \A d \in Digits : Digit(d) \in X
        /\ Dash \in X /\ Comma \in X /\ Json(HeaderData(p.data)) \in X
        /\ p.nsp \in Seq(X)
    <2>1. NameTokens \subseteq X
      BY <1>1 DEF Tokens
    <2>2. p.nsp \in Seq(NameTokens)
      BY DataAssumption DEF Packets
    <2>3. p.nsp \in Seq(X)
      BY <2>1, <2>2
    <2> QED
      BY <1>1, <2>1, <2>3 DEF Tokens, NameTokens
  <1>3. <<>> \in Seq(X)
    OBVIOUS
  <1>4. TypePart(p) \in Seq(X)
    <2>1. Code[p.type] \in Digits
      BY DEF Packets, Code, ProtoTypes, Digits
    <2> QED
      BY <1>2, <2>1 DEF TypePart
  <1>5. CountPart(p) \in Seq(X)
    <2>1. CASE p.type \in BinaryTypes
      <3>1. PICK c \in Nat : c = Len(Deconstruct(p.data).attachments)
        BY DataTakenApart DEF Packets
      <3>2. Number(c) \in Seq(X)
        BY <1>2, NumberTokens
      <3>3. Append(Number(c), Dash) \in Seq(X)
        BY <1>2, <3>2
      <3>4. CountPart(p) = Append(Number(c), Dash)
        BY <2>1, <3>1 DEF CountPart
      <3> QED
        BY <3>3, <3>4
    <2>2. CASE p.type \notin BinaryTypes
      <3>1. CountPart(p) = <<>>
        BY <2>2 DEF CountPart
      <3> QED
        BY <1>3, <3>1, Zenon
    <2> QED
      BY <2>1, <2>2
  <1>6. NspPart(p) \in Seq(X)
    <2>1. Append(p.nsp, Comma) \in Seq(X)
      BY <1>2
    <2> QED
      BY <1>3, <2>1, Zenon DEF NspPart
  <1>7. IdPart(p) \in Seq(X)
    <2>1. CASE p.id = <<>>
      BY <1>3, <2>1, Zenon DEF IdPart
    <2>2. CASE p.id # <<>>
      <3>1. PICK n \in Nat : p.id[1] = n
        BY <2>2, DataAssumption DEF Packets, Options
      <3>2. Number(n) \in Seq(X)
        BY <1>2, NumberTokens
      <3> QED
        BY <2>2, <3>1, <3>2 DEF IdPart
    <2> QED
      BY <2>1, <2>2
  <1>8. JsonPart(p) \in Seq(X)
    <2>1. <<Json(HeaderData(p.data))>> \in Seq(X)
      BY <1>2
    <2> QED
      BY <1>3, <2>1, Zenon DEF JsonPart
  <1> QED
    BY <1>1, <1>4, <1>5, <1>6, <1>7, <1>8

\* A namespace and the packet's type are made of tokens, and the comma is one.
LEMMA NameIsTokens ==
  ASSUME NEW p \in Packets
  PROVE  /\ p.nsp \in Seq(Tokens(p)) /\ Comma \in Tokens(p)
         /\ Digit(Code[p.type]) \in Tokens(p)
         /\ \A d \in Digits : Digit(d) \in Tokens(p)
  <1>1. NameTokens \subseteq Tokens(p)
    BY DEF Tokens
  <1>2. p.nsp \in Seq(NameTokens)
    BY DataAssumption DEF Packets
  <1>3. p.nsp \in Seq(Tokens(p))
    BY <1>1, <1>2
  <1>4. Code[p.type] \in Digits
    BY DEF Packets, Code, ProtoTypes, Digits
  <1> QED
    BY <1>1, <1>3, <1>4 DEF NameTokens

\* So is the whole.
LEMMA EncodedTokens ==
  ASSUME NEW p \in Packets
  PROVE  EncodePacket(p) \in Seq(Tokens(p))
  <1>1. PICK V : V = Seq(Tokens(p))
    OBVIOUS
  <1>2. \A a, b \in V : Cat(a, b) \in V
    BY <1>1, Concatenation DEF Monoid
  <1>3. PICK t, c, n, i, j : /\ t = TypePart(p) /\ c = CountPart(p) /\ n = NspPart(p)
                             /\ i = IdPart(p) /\ j = JsonPart(p)
    OBVIOUS
  <1>4. t \in V /\ c \in V /\ n \in V /\ i \in V /\ j \in V
    BY <1>1, <1>3, PartsOfPacket
  <1>5. Cat(Cat(Cat(Cat(t, c), n), i), j) \in V
    BY <1>2, <1>4
  <1> QED
    BY <1>1, <1>3, <1>5, Encoding

\* The JSON text is one token or nothing, and the decoder reads it.
LEMMA JsonRead ==
  ASSUME NEW p \in Packets
  PROVE  /\ Len(JsonPart(p)) > 0 => JsonPart(p)[1].token = "json"
         /\ ParseJson(JsonPart(p)) = HeaderData(p.data)
  <1>1. PICK j : j = JsonPart(p)
    OBVIOUS
  <1>2. CASE HeaderData(p.data) = Null
    <2>1. j = <<>>
      BY <1>1, <1>2 DEF JsonPart
    <2>2. Len(j) = 0
      BY <2>1
    <2> QED
      BY <1>1, <1>2, <2>2 DEF ParseJson
  <1>3. CASE HeaderData(p.data) # Null
    <2>1. j = <<Json(HeaderData(p.data))>>
      BY <1>1, <1>3 DEF JsonPart
    <2>2. Len(j) = 1 /\ j[1] = Json(HeaderData(p.data)) /\ j # <<>> /\ Head(j) = j[1]
      BY <2>1
    <2> QED
      BY <1>1, <2>2, TokenFields DEF ParseJson, Starts
  <1> QED
    BY <1>2, <1>3

\* Data comes back as it was exactly when it is no object and has no
\* attachment.
LEMMA HeaderIsData ==
  ASSUME NEW v \in DataValues
  PROVE  (HeaderData(v) = v)
         <=> /\ v.shape # "Object"
             /\ \A i \in 1 .. Len(v.leaves) : v.leaves[i].kind \notin {"Binary", "Object"}
  <1>1. PICK ls \in Seq(JsonLeaves) : ls = v.leaves
    BY LeavesOfData, DataIsJson
  <1>2. PICK N \in Nat : N = Len(ls)
    OBVIOUS
  <1>3. PICK done : IsDone(ls, done) /\ Deconstruct(v) = done[N]
    BY <1>1, <1>2, Deconstruction
  <1>4. PICK json \in Seq(JsonLeaves) : json = Deconstruct(v).json
    BY DataTakenApart
  <1>5. Len(json) = N
    BY <1>2, <1>3, <1>4, Extending
  <1>6. ASSUME NEW i \in 1 .. N
        PROVE  json[i] = ls[i] <=> ls[i].kind \notin {"Binary", "Object"}
    <2>1. PICK k \in 0 .. N - 1 : k + 1 = i
      <3>1. i - 1 \in 0 .. N - 1 /\ (i - 1) + 1 = i
        OBVIOUS
      <3> QED
        BY <3>1
    <2>2. PICK c \in Nat : c = Len(done[k].attachments)
      <3>1. done[k] \in Deconstructed
        <4>1. k \in 0 .. Len(ls)
          BY <1>2
        <4> QED
          BY <1>3, <4>1 DEF IsDone
      <3>2. PICK a \in Seq(Nat) : a = done[k].attachments
        BY <3>1, Zenon DEF Deconstructed
      <3>3. Len(a) \in Nat
        OBVIOUS
      <3> QED
        BY <3>2, <3>3
    <2>3. Found(ls, done, N, k, c)
      BY <1>2, <1>3, <2>2, WhereItIs, Zenon
    <2>4. IF ls[i].kind = "Binary" THEN json[i] = Leaf("Placeholder", c)
          ELSE json[i] = AsArray(ls[i])
      BY <1>3, <1>4, <2>1, <2>3 DEF Found
    <2>5. ls[i] \in JsonLeaves
      BY <1>2
    <2>6. AsArray(ls[i]) = ls[i] <=> ls[i].kind # "Object"
      BY <2>5, ArrayLeaf
    <2> QED
      BY <2>4, <2>6 DEF Leaf
  <1>7. json = ls <=> \A i \in 1 .. N : ls[i].kind \notin {"Binary", "Object"}
    <2>1. json = ls <=> \A i \in 1 .. N : json[i] = ls[i]
      BY <1>2, <1>5, SameSequence
    <2> QED
      BY <1>6, <2>1
  <1>8. HeaderData(v) = Data(IF v.shape = "Object" THEN "Array" ELSE v.shape, json)
    BY <1>4 DEF HeaderData
  <1>9. v = Data(v.shape, ls)
    BY <1>1 DEF DataValues, Null, Data
  <1>10. HeaderData(v) = v <=> v.shape # "Object" /\ json = ls
    BY <1>8, <1>9 DEF Data
  <1> QED
    BY <1>1, <1>2, <1>7, <1>10

\* Without a count, the type is in front of the other parts.
LEMMA PlainEncoding ==
  ASSUME NEW p \in Packets, p.type \notin BinaryTypes
  PROVE  EncodePacket(p) = Cat(TypePart(p), Cat(NspPart(p), Cat(IdPart(p), JsonPart(p))))
  <1>1. PICK V, e : V = Seq(Tokens(p)) /\ e = <<>>
    OBVIOUS
  <1>2. Monoid(V, e)
    BY <1>1, Concatenation
  <1>3. PICK t, c, n, i, j : /\ t = TypePart(p) /\ c = CountPart(p) /\ n = NspPart(p)
                             /\ i = IdPart(p) /\ j = JsonPart(p)
    OBVIOUS
  <1>4. t \in V /\ n \in V /\ i \in V /\ j \in V
    BY <1>1, <1>3, PartsOfPacket
  <1>5. c = e
    BY <1>1, <1>3 DEF CountPart
  <1>6. Cat(Cat(Cat(Cat(t, c), n), i), j) = Cat(t, Cat(n, Cat(i, j)))
    <2>1. Cat(t, c) = t
      BY <1>2, <1>4, <1>5 DEF Monoid
    <2>2. /\ Cat(Cat(t, n), i) = Cat(t, Cat(n, i))
          /\ Cat(n, i) \in V
          /\ Cat(Cat(n, i), j) = Cat(n, Cat(i, j))
      BY <1>2, <1>4 DEF Monoid
    <2>3. Cat(Cat(t, Cat(n, i)), j) = Cat(t, Cat(Cat(n, i), j))
      BY <1>2, <1>4, <2>2 DEF Monoid
    <2> QED
      BY <2>1, <2>2, <2>3
  <1> QED
    BY <1>3, <1>6, Encoding

\* Without a namespace or without an id, that part is left out.
LEMMA PartsLeftOut ==
  ASSUME NEW p \in Packets
  PROVE  /\ p.nsp = Root => Cat(NspPart(p), Cat(IdPart(p), JsonPart(p))) = Cat(IdPart(p), JsonPart(p))
         /\ p.id = <<>> => Cat(IdPart(p), JsonPart(p)) = JsonPart(p)
  <1>1. PICK V, e : V = Seq(Tokens(p)) /\ e = <<>>
    OBVIOUS
  <1>2. Monoid(V, e)
    BY <1>1, Concatenation
  <1>3. PICK n, i, j : n = NspPart(p) /\ i = IdPart(p) /\ j = JsonPart(p)
    OBVIOUS
  <1>4. n \in V /\ i \in V /\ j \in V
    BY <1>1, <1>3, PartsOfPacket
  <1>5. (p.nsp = Root => n = e) /\ (p.id = <<>> => i = e)
    BY <1>1, <1>3 DEF NspPart, IdPart
  <1>6. (n = e => Cat(n, Cat(i, j)) = Cat(i, j)) /\ (i = e => Cat(i, j) = j)
    BY <1>2, <1>4 DEF Monoid
  <1> QED
    BY <1>3, <1>5, <1>6

\* What follows does not change the first two tokens.
LEMMA FirstTwo ==
  ASSUME NEW X, NEW s \in Seq(X), NEW t \in Seq(X), Len(s) >= 2
  PROVE  /\ Cat(s, t) \in Seq(X) /\ Len(Cat(s, t)) >= 2
         /\ Cat(s, t)[1] = s[1] /\ Cat(s, t)[2] = s[2]
  <1>1. PICK u : u = s \o t
    OBVIOUS
  <1>2. /\ u \in Seq(X) /\ Len(u) = Len(s) + Len(t)
        /\ \A i \in 1 .. Len(s) : u[i] = s[i]
    BY <1>1, Joined
  <1> QED
    BY <1>1, <1>2 DEF Cat

\* A binary packet is not decoded: the digits of its count follow its type.
LEMMA BinaryPacketFails ==
  ASSUME NEW p \in Packets, p.type \in BinaryTypes
  PROVE  DecodeProtoPacket(EncodePacket(p)).status = "failed"
  <1>1. PICK X, t, c, n, i, j : /\ X = Tokens(p) /\ t = TypePart(p) /\ c = CountPart(p)
                                /\ n = NspPart(p) /\ i = IdPart(p) /\ j = JsonPart(p)
    OBVIOUS
  <1>2. /\ t \in Seq(X) /\ c \in Seq(X) /\ n \in Seq(X) /\ i \in Seq(X) /\ j \in Seq(X)
    BY <1>1, PartsOfPacket
  <1>3. Len(t) = 1 /\ t[1] = Digit(Code[p.type])
    BY <1>1 DEF TypePart
  <1>4. Len(c) >= 1 /\ c[1].token = "digit"
    <2>1. PICK k \in Nat : k = Len(Deconstruct(p.data).attachments)
      BY DataTakenApart DEF Packets
    <2>2. PICK m : m = Number(k)
      OBVIOUS
    <2>3. \A d \in Digits : Digit(d) \in X
      BY <1>1 DEF Tokens, NameTokens
    <2>4. m \in Seq(X) /\ Len(m) >= 1 /\ \A e \in 1 .. Len(m) : m[e].token = "digit"
      BY <2>2, <2>3, NumberTokens
    <2>5. m[1].token = "digit"
      BY <2>4
    <2>6. c = Append(m, Dash)
      BY <1>1, <2>1, <2>2 DEF CountPart
    <2>7. Len(c) >= 1 /\ c[1] = m[1]
      BY <2>4, <2>6
    <2> QED
      BY <2>5, <2>7
  <1>5. PICK u : u = Cat(t, c)
    OBVIOUS
  <1>6. u \in Seq(X) /\ Len(u) >= 2 /\ u[1] = t[1] /\ u[2] = c[1]
    <2>1. PICK w : w = t \o c
      OBVIOUS
    <2>2. /\ w \in Seq(X) /\ Len(w) = Len(t) + Len(c)
          /\ \A k \in 1 .. Len(t) : w[k] = t[k]
          /\ \A k \in 1 .. Len(c) : w[Len(t) + k] = c[k]
      BY <1>2, <2>1, Joined
    <2>3. w[2] = c[1] /\ w[1] = t[1] /\ Len(w) >= 2
      <3>1. 1 \in 1 .. Len(c) /\ 1 \in 1 .. Len(t) /\ Len(c) \in Nat
        BY <1>2, <1>3, <1>4
      <3> QED
        BY <1>3, <1>4, <2>2, <3>1
    <2> QED
      BY <1>5, <2>1, <2>2, <2>3 DEF Cat
  <1>7. PICK s : s = Cat(Cat(Cat(u, n), i), j)
    OBVIOUS
  <1>8. s \in Seq(X) /\ Len(s) >= 2 /\ s[1] = t[1] /\ s[2] = c[1]
    <2>1. PICK v, w : v = Cat(u, n) /\ w = Cat(v, i)
      OBVIOUS
    <2>2. v \in Seq(X) /\ Len(v) >= 2 /\ v[1] = u[1] /\ v[2] = u[2]
      BY <1>2, <1>6, <2>1, FirstTwo
    <2>3. w \in Seq(X) /\ Len(w) >= 2 /\ w[1] = v[1] /\ w[2] = v[2]
      BY <1>2, <2>1, <2>2, FirstTwo
    <2>4. s = Cat(w, j)
      BY <1>7, <2>1
    <2> QED
      BY <1>2, <1>6, <2>2, <2>3, <2>4, FirstTwo
  <1>9. \A k \in 1 .. Len(s) : s[k].token = "digit" => s[k].digit \in Nat
    <2>1. \A k \in 1 .. Len(s) : s[k] \in Tokens(p)
      BY <1>1, <1>8
    <2> QED
      BY <2>1, DigitTokens
  <1>10. s[1].token = "digit" /\ s[1].digit >= 5 /\ s[2].token = "digit"
    <2>1. Code[p.type] >= 5
      BY DEF BinaryTypes, Code
    <2> QED
      BY <1>3, <1>4, <1>8, <2>1, TokenFields
  <1>11. DecodeProtoPacket(s).status = "failed"
    BY <1>8, <1>9, <1>10, NoSuchType
  <1> QED
    BY <1>1, <1>5, <1>7, <1>11, Encoding

\* A packet without id and count is decoded if its data suits its type.
LEMMA WithoutId ==
  ASSUME NEW p \in Packets, p.type \notin BinaryTypes, p.id = <<>>, Separable(p.nsp)
  PROVE  DecodeProtoPacket(EncodePacket(p))
         = IF IsPayloadValid(p.type, HeaderData(p.data))
           THEN [status |-> "plain", packet |-> Packet(p.type, <<>>, p.nsp, HeaderData(p.data)),
                 count |-> 0]
           ELSE Failed
  <1>1. PICK X, r, j : /\ X = Tokens(p) /\ j = JsonPart(p)
                       /\ r = Cat(NspPart(p), Cat(IdPart(p), JsonPart(p)))
    OBVIOUS
  <1>2. j \in Seq(X) /\ p.nsp \in Seq(X) /\ Comma \in X /\ Digit(Code[p.type]) \in X
    BY <1>1, PartsOfPacket, NameIsTokens
  <1>3. Len(j) > 0 => j[1].token = "json"
    BY <1>1, JsonRead
  <1>4. r = Cat(NspPart(p), j)
    BY <1>1, PartsLeftOut
  <1>5. /\ r \in Seq(X)
        /\ Len(r) > 0 => r[1].token # "digit"
        /\ ParseNamespace(r) = Parsed(j, p.nsp)
    <2>1. CASE p.nsp = Root
      <3>1. r = j
        BY <1>1, <2>1, PartsLeftOut
      <3>2. ~ Starts(j, "slash")
        BY <1>2, <1>3, OtherToken
      <3> QED
        BY <1>2, <1>3, <2>1, <3>1, <3>2 DEF ParseNamespace
    <2>2. CASE p.nsp # Root
      <3>1. r = Append(p.nsp, Comma) \o j
        BY <1>4, <2>2 DEF NspPart, Cat
      <3> QED
        BY <1>2, <3>1, NamespaceParsed
    <2> QED
      BY <2>1, <2>2
  <1>6. DecodeProtoPacket(<<Digit(Code[p.type])>> \o r) = DecodeRest(p.type, r)
    <2>1. p.type \in ProtoTypes \ BinaryTypes
      BY DEF Packets
    <2> QED
      BY <1>2, <1>5, <2>1, DecodePlain
  <1>7. EncodePacket(p) = <<Digit(Code[p.type])>> \o r
    BY <1>1, PlainEncoding DEF Cat, TypePart
  <1>8. ParseId(j) = Parsed(j, <<>>) /\ ParseJson(j) = HeaderData(p.data)
    BY <1>1, <1>2, <1>3, NoDigit, JsonRead
  <1>9. DecodeRest(p.type, r)
        = IF IsPayloadValid(p.type, HeaderData(p.data))
          THEN [status |-> "plain", packet |-> Packet(p.type, <<>>, p.nsp, HeaderData(p.data)),
                count |-> 0]
          ELSE Failed
    BY <1>5, <1>8 DEF DecodeRest, Parsed
  <1> QED
    BY <1>6, <1>7, <1>9

\* With a namespace, an id is not decoded: no dash follows it.
LEMMA WithNamespaceAndId ==
  ASSUME NEW p \in Packets, p.type \notin BinaryTypes, p.id # <<>>, p.nsp # Root,
         Separable(p.nsp)
  PROVE  DecodeProtoPacket(EncodePacket(p)).status = "failed"
  <1>1. PICK X, r, i, j : /\ X = Tokens(p) /\ i = IdPart(p) /\ j = JsonPart(p)
                          /\ r = Cat(NspPart(p), Cat(IdPart(p), JsonPart(p)))
    OBVIOUS
  <1>2. /\ i \in Seq(X) /\ j \in Seq(X) /\ p.nsp \in Seq(X) /\ Comma \in X
        /\ Digit(Code[p.type]) \in X /\ \A d \in Digits : Digit(d) \in X
    BY <1>1, PartsOfPacket, NameIsTokens
  <1>3. Len(j) > 0 => j[1].token \notin {"digit", "dash"}
    BY <1>1, JsonRead
  <1>4. Len(i) >= 1 /\ \A k \in 1 .. Len(i) : i[k].token = "digit"
    <2>1. PICK n \in Nat : p.id[1] = n
      BY DataAssumption DEF Packets, Options
    <2>2. i = Number(n)
      BY <1>1, <2>1 DEF IdPart
    <2> QED
      BY <1>2, <2>2, NumberTokens
  <1>5. PICK x : x = i \o j
    OBVIOUS
  <1>6. x \in Seq(X) /\ ParseId(x) = Failed
    BY <1>2, <1>3, <1>4, <1>5, Joined, NoDash
  <1>7. r = Append(p.nsp, Comma) \o x
    BY <1>1, <1>5 DEF Cat, NspPart
  <1>8. r \in Seq(X) /\ r[1].token # "digit" /\ ParseNamespace(r) = Parsed(x, p.nsp)
    BY <1>2, <1>6, <1>7, NamespaceParsed
  <1>9. DecodeProtoPacket(<<Digit(Code[p.type])>> \o r) = DecodeRest(p.type, r)
    <2>1. p.type \in ProtoTypes \ BinaryTypes
      BY DEF Packets
    <2> QED
      BY <1>2, <1>8, <2>1, DecodePlain
  <1>10. EncodePacket(p) = <<Digit(Code[p.type])>> \o r
    BY <1>1, PlainEncoding DEF Cat, TypePart
  <1>11. DecodeRest(p.type, r) = Failed
    BY <1>6, <1>8 DEF DecodeRest, Parsed, Failed
  <1> QED
    BY <1>9, <1>10, <1>11 DEF Failed

\* Without a namespace, an id is taken for more digits of the type.
LEMMA WithId ==
  ASSUME NEW p \in Packets, p.type \notin BinaryTypes, p.id # <<>>, p.nsp = Root
  PROVE  LET decoded == DecodeProtoPacket(EncodePacket(p))
         IN  decoded.status = "plain" => decoded.packet.id = <<>>
  <1>1. PICK X, t, i, j : X = Tokens(p) /\ t = TypePart(p) /\ i = IdPart(p) /\ j = JsonPart(p)
    OBVIOUS
  <1>2. /\ t \in Seq(X) /\ i \in Seq(X) /\ j \in Seq(X) /\ \A d \in Digits : Digit(d) \in X
    BY <1>1, PartsOfPacket, NameIsTokens
  <1>3. Len(j) > 0 => j[1].token \notin {"digit", "slash"}
    BY <1>1, JsonRead
  <1>4. \A k \in 1 .. Len(i) : i[k].token = "digit"
    <2>1. PICK n \in Nat : p.id[1] = n
      BY DataAssumption DEF Packets, Options
    <2>2. i = Number(n)
      BY <1>1, <2>1 DEF IdPart
    <2> QED
      BY <1>2, <2>2, NumberTokens
  <1>5. Len(t) = 1 /\ t[1].token = "digit"
    BY <1>1, TokenFields DEF TypePart
  <1>6. PICK ds : ds = t \o i
    OBVIOUS
  <1>7. ds \in Seq(X) /\ \A k \in 1 .. Len(ds) : ds[k].token = "digit"
    <2>1. /\ ds \in Seq(X) /\ Len(ds) = Len(t) + Len(i)
          /\ \A k \in 1 .. Len(t) : ds[k] = t[k]
          /\ \A k \in 1 .. Len(i) : ds[Len(t) + k] = i[k]
      BY <1>2, <1>6, Joined
    <2>2. ASSUME NEW k \in 1 .. Len(ds)
          PROVE  ds[k].token = "digit"
      <3>1. CASE k = 1
        BY <1>5, <2>1, <3>1
      <3>2. CASE k > 1
        <4>1. k - 1 \in 1 .. Len(i) /\ 1 + (k - 1) = k
          BY <1>2, <1>5, <2>1, <3>2
        <4>2. ds[k] = i[k - 1]
          BY <1>5, <2>1, <4>1
        <4> QED
          BY <1>4, <4>1, <4>2
      <3> QED
        BY <3>1, <3>2
    <2> QED
      BY <2>1, <2>2
  <1>8. EncodePacket(p) = ds \o j
    <2>1. EncodePacket(p) = Cat(t, Cat(i, j))
      BY <1>1, PlainEncoding, PartsLeftOut
    <2>2. Cat(t, Cat(i, j)) = Cat(Cat(t, i), j)
      BY <1>2, Concatenation DEF Monoid
    <2> QED
      BY <1>6, <2>1, <2>2 DEF Cat
  <1> QED
    BY <1>2, <1>3, <1>7, <1>8, IdSwallowed

\* The decoder gives back an encoded packet exactly when it has no id, no
\* object and no attachment, is not binary, its namespace starts with a slash
\* and has no comma in it, and its data suits its type, whatever its id, its
\* namespace and its data.
THEOREM RoundTrip == PacketSpec => []ProtoRoundTrip
  <1>1. TypeInv => ProtoRoundTrip
    <2> SUFFICES ASSUME TypeInv
                 PROVE  ProtoRoundTrip
      OBVIOUS
    <2>1. PICK p \in Packets : p = packet
      BY DEF TypeInv
    <2>2. PICK decoded : decoded = DecodeProtoPacket(EncodePacket(p))
      OBVIOUS
    <2> DEFINE good == /\ p.id = <<>>
                       /\ p.type \notin BinaryTypes
                       /\ p.data.shape # "Object"
                       /\ Separable(p.nsp)
                       /\ \A i \in 1 .. Len(p.data.leaves) :
                             p.data.leaves[i].kind \notin {"Binary", "Object"}
                       /\ IsPayloadValid(p.type, p.data)
    <2>3. CASE p.type \in BinaryTypes
      <3>1. decoded.status = "failed"
        BY <2>2, <2>3, BinaryPacketFails
      <3> QED
        BY <2>1, <2>2, <2>3, <3>1 DEF ProtoRoundTrip
    <2>4. CASE p.type \notin BinaryTypes /\ p.id # <<>> /\ Separable(p.nsp)
      <3>1. ~ (decoded.status = "plain" /\ decoded.packet = p)
        <4>1. CASE p.nsp # Root
          BY <2>2, <2>4, <4>1, WithNamespaceAndId
        <4>2. CASE p.nsp = Root
          BY <2>2, <2>4, <4>2, WithId
        <4> QED
          BY <4>1, <4>2
      <3> QED
        BY <2>1, <2>2, <2>4, <3>1 DEF ProtoRoundTrip
    <2>5. CASE p.type \notin BinaryTypes /\ p.id = <<>> /\ Separable(p.nsp)
      <3>1. PICK h : h = HeaderData(p.data)
        OBVIOUS
      <3>2. decoded = IF IsPayloadValid(p.type, h)
                      THEN [status |-> "plain", packet |-> Packet(p.type, <<>>, p.nsp, h), count |-> 0]
                      ELSE Failed
        BY <2>2, <2>5, <3>1, WithoutId
      <3>3. (h = p.data)
            <=> /\ p.data.shape # "Object"
                /\ \A i \in 1 .. Len(p.data.leaves) :
                      p.data.leaves[i].kind \notin {"Binary", "Object"}
        BY <3>1, HeaderIsData DEF Packets
      <3>4. p = Packet(p.type, p.id, p.nsp, p.data)
        BY DEF Packets, Packet
      <3>5. Packet(p.type, <<>>, p.nsp, h) = p <=> h = p.data
        BY <2>5, <3>4 DEF Packet
      <3>6. (decoded.status = "plain" /\ decoded.packet = p)
            <=> IsPayloadValid(p.type, h) /\ h = p.data
        BY <3>2, <3>5 DEF Failed
      <3>7. (decoded.status = "plain" /\ decoded.packet = p) <=> good
        BY <2>5, <3>3, <3>6
      <3> QED
        BY <2>1, <2>2, <3>7 DEF ProtoRoundTrip
    <2>6. CASE ~Separable(p.nsp)
      <3>1. EncodePacket(p) \in Seq(Tokens(p))
        BY EncodedTokens
      <3>2. ~ (decoded.status = "plain" /\ decoded.packet = p)
        BY <2>2, <2>6, <3>1, PacketDecoded
      <3> QED
        BY <2>1, <2>2, <2>6, <3>2 DEF ProtoRoundTrip
    <2> QED
      BY <2>3, <2>4, <2>5, <2>6
  <1> QED
    BY <1>1, TypeCorrect, PTL
=============================================================================
