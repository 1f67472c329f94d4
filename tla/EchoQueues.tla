----------------------------- MODULE EchoQueues -----------------------------
(***************************************************************************)
(* Lemmas about the queues of the echo servers: what it does to a line of  *)
(* queues when units join it, leave it, move on or are lost. The line of   *)
(* a client is what EchoService calls pending.                             *)
(***************************************************************************)
EXTENDS SequenceTheorems, TLAPS

\* A queue and the one behind it.
Then(p, q) == p \o q

\* A queue and the one behind it are a queue.
LEMMA ThenJoins ==
  ASSUME NEW S, NEW p \in Seq(S), NEW q \in Seq(S)
  PROVE  /\ Then(p, q) \in Seq(S) /\ Len(Then(p, q)) = Len(p) + Len(q)
         /\ \A i \in 1..(Len(p) + Len(q)) :
              Then(p, q)[i] = IF i <= Len(p) THEN p[i] ELSE q[i - Len(p)]
BY ConcatProperties DEF Then

\* Where three queues are joined does not matter.
LEMMA ThenAssociates ==
  ASSUME NEW S, NEW p \in Seq(S), NEW q \in Seq(S), NEW r \in Seq(S)
  PROVE  Then(Then(p, q), r) = Then(p, Then(q, r))
BY ConcatAssociative DEF Then

\* An empty queue does not count.
LEMMA ThenNothing ==
  ASSUME NEW S, NEW p \in Seq(S)
  PROVE  Then(p, << >>) = p /\ Then(<< >>, p) = p
BY ConcatEmptySeq DEF Then

\* The first unit of a queue is the first of the line that starts with it.
LEMMA ThenHead ==
  ASSUME NEW S, NEW p \in Seq(S), NEW q \in Seq(S), p # << >>
  PROVE  /\ Then(p, q) # << >> /\ Head(Then(p, q)) = Head(p)
         /\ Tail(Then(p, q)) = Then(Tail(p), q)
<1>1. PICK r \in Seq(S), w \in Seq(S), k \in Nat, l \in Nat :
        r = Then(p, q) /\ w = Tail(p) /\ k = Len(p) /\ l = Len(q)
  BY HeadTailProperties, LenProperties, ThenJoins
<1>2. /\ Len(r) = k + l /\ k # 0
      /\ \A i \in 1..(k + l) : r[i] = IF i <= k THEN p[i] ELSE q[i - k]
  BY <1>1, EmptySeq, ThenJoins
<1>3. r # << >>
  BY <1>2, EmptySeq
<1>4. Len(w) = k - 1 /\ \A i \in 1..(k - 1) : w[i] = p[i + 1]
  BY <1>1, HeadTailProperties
<1>5. PICK g \in Seq(S) : g = Then(w, q)
  BY ThenJoins
<1>6. /\ Len(g) = k - 1 + l
      /\ \A i \in 1..(k - 1 + l) : g[i] = IF i <= k - 1 THEN w[i] ELSE q[i - (k - 1)]
  <2>1. /\ Len(g) = Len(w) + Len(q)
        /\ \A i \in 1..(Len(w) + Len(q)) : g[i] = IF i <= Len(w) THEN w[i] ELSE q[i - Len(w)]
    BY <1>5, ThenJoins
  <2>2. Len(w) = k - 1 /\ Len(q) = l
    BY <1>1, <1>4
  <2>3. QED BY <2>1, <2>2
<1>7. PICK f \in Seq(S) : /\ f = Tail(r) /\ Len(f) = k + l - 1
                             /\ \A i \in 1..(k + l - 1) : f[i] = r[i + 1]
  <2>1. /\ Tail(r) \in Seq(S) /\ Len(Tail(r)) = Len(r) - 1
        /\ \A i \in 1..Len(Tail(r)) : Tail(r)[i] = r[i + 1]
    BY <1>3, HeadTailProperties
  <2>2. Len(Tail(r)) = k + l - 1
    BY <1>2, <2>1
  <2>3. \A i \in 1..(k + l - 1) : Tail(r)[i] = r[i + 1]
    BY <2>1, <2>2
  <2>4. QED BY <2>1, <2>2, <2>3
<1>8. Head(r) = Head(p)
  <2>1. Head(r) = r[1] /\ Head(p) = p[1]
    BY <1>3
  <2>2. QED BY <1>2, <2>1
<1>9. ASSUME NEW i \in 1..(k + l - 1) PROVE f[i] = g[i]
  <2>1. f[i] = IF i + 1 <= k THEN p[i + 1] ELSE q[i + 1 - k]
    BY <1>2, <1>7
  <2>2. g[i] = IF i <= k - 1 THEN p[i + 1] ELSE q[i - (k - 1)]
    BY <1>4, <1>6
  <2>3. i - (k - 1) = i + 1 - k /\ (i <= k - 1 <=> i + 1 <= k)
    OBVIOUS
  <2>4. QED BY <2>1, <2>2, <2>3
<1>10. f = g
  BY <1>6, <1>7, <1>9, SeqEqual
<1>11. QED BY <1>1, <1>3, <1>5, <1>7, <1>8, <1>10

\* What joins the last queue joins the line.
LEMMA ThenAppend ==
  ASSUME NEW S, NEW p \in Seq(S), NEW q \in Seq(S), NEW x \in S
  PROVE  Then(p, Append(q, x)) = Append(Then(p, q), x)
<1>1. PICK y \in Seq(S) : y = <<x>>
  <2>1. <<x>> \in Seq(S)
    OBVIOUS
  <2>2. QED BY <2>1
<1>2. ASSUME NEW r \in Seq(S) PROVE Append(r, x) = Then(r, y)
  BY <1>1, AppendIsConcat DEF Then
<1>3. Then(p, q) \in Seq(S)
  BY ThenJoins
<1>4. Append(Then(p, q), x) = Then(Then(p, q), y)
  BY <1>2, <1>3
<1>5. Append(q, x) = Then(q, y)
  BY <1>2
<1>6. QED BY <1>4, <1>5, ThenAssociates

\* A queue without the n units that follow its first i (EchoService!Without).
Gap(q, i, n) == Then(SubSeq(q, 1, i), SubSeq(q, i + n + 1, Len(q)))

\* A queue between two others is taken out.
LEMMA LineLoses ==
  ASSUME NEW S, NEW a \in Seq(S), NEW x \in Seq(S), NEW b \in Seq(S)
  PROVE  /\ Gap(Then(Then(a, x), b), Len(a), Len(x)) = Then(a, b)
         /\ Len(Then(Then(a, x), b)) = Len(a) + Len(x) + Len(b)
<1> DEFINE p == Then(a, x)
           q == Then(p, b)
           k == Len(a)
           l == Len(x)
           m == Len(b)
           f == SubSeq(q, 1, k)
           g == SubSeq(q, k + l + 1, k + l + m)
<1>1. k \in Nat /\ l \in Nat /\ m \in Nat
  BY LenProperties
<1>2. /\ p \in Seq(S) /\ Len(p) = k + l
      /\ \A i \in 1..(k + l) : p[i] = IF i <= k THEN a[i] ELSE x[i - k]
  BY ThenJoins
<1> HIDE DEF p
<1>3. /\ q \in Seq(S) /\ Len(q) = k + l + m
      /\ \A i \in 1..(k + l + m) : q[i] = IF i <= k + l THEN p[i] ELSE b[i - (k + l)]
  <2>1. /\ q \in Seq(S) /\ Len(q) = Len(p) + Len(b)
        /\ \A i \in 1..(Len(p) + Len(b)) : q[i] = IF i <= Len(p) THEN p[i] ELSE b[i - Len(p)]
    <3> HIDE DEF k, l, m, f, g
    <3>1. p \in Seq(S)
      BY <1>2
    <3>2. QED BY <3>1, ThenJoins
  <2>2. Len(p) = k + l /\ Len(b) = m
    BY <1>2
  <2> HIDE DEF q, k, l, m
  <2>3. QED BY <2>1, <2>2
<1> HIDE DEF q, k, l, m
<1>4. \A i \in 1..(k + l + m) : q[i] \in S
  BY <1>3, ElementOfSeq
<1>5. f = a
  <2>1. /\ f \in Seq(S) /\ Len(f) = k /\ \A i \in 1..k : f[i] = q[i]
    <3>1. \A i \in 1..k : q[i] \in S
      BY <1>1, <1>4
    <3>2. /\ f \in Seq(S) /\ Len(f) = (IF 1 <= k THEN k - 1 + 1 ELSE 0)
          /\ \A i \in 1..(k - 1 + 1) : f[i] = q[1 + i - 1]
      BY <1>1, <3>1, SubSeqProperties
    <3>3. QED BY <1>1, <3>2
  <2>2. \A i \in 1..k : f[i] = a[i]
    BY <1>1, <1>2, <1>3, <2>1
  <2> HIDE DEF f
  <2>3. QED BY <2>1, <2>2, SeqEqual DEF k
<1>6. g = b
  <2>1. /\ g \in Seq(S) /\ Len(g) = m /\ \A i \in 1..m : g[i] = q[k + l + i]
    <3>1. \A i \in (k + l + 1)..(k + l + m) : q[i] \in S
      BY <1>1, <1>4
    <3>2. /\ g \in Seq(S)
          /\ Len(g) = (IF k + l + 1 <= k + l + m THEN k + l + m - (k + l + 1) + 1 ELSE 0)
          /\ \A i \in 1..(k + l + m - (k + l + 1) + 1) : g[i] = q[(k + l + 1) + i - 1]
      BY <1>1, <3>1, SubSeqProperties
    <3>3. \A i \in 1..m : (k + l + 1) + i - 1 = k + l + i
      BY <1>1
    <3>4. k + l + m - (k + l + 1) + 1 = m /\ (k + l + 1 <= k + l + m <=> 1 <= m)
      BY <1>1
    <3> HIDE DEF g
    <3>5. Len(g) = m
      BY <1>1, <3>2, <3>4
    <3>6. QED BY <3>2, <3>3, <3>4, <3>5
  <2> HIDE DEF g
  <2>2. \A i \in 1..m : g[i] = b[i]
    <3>1. \A i \in 1..m : /\ k + l + i \in 1..(k + l + m) /\ ~(k + l + i <= k + l)
                         /\ (k + l + i) - (k + l) = i
      BY <1>1
    <3>2. QED BY <1>3, <2>1, <3>1
  <2>3. QED BY <2>1, <2>2, SeqEqual DEF m
<1>7. Gap(q, k, l) = Then(f, g)
  BY <1>3 DEF Gap
<1> HIDE DEF f, g
<1>8. QED BY <1>3, <1>5, <1>6, <1>7 DEF p, q, k, l, m

\* A queue is its first units and its other ones.
LEMMA LineSplits ==
  ASSUME NEW S, NEW q \in Seq(S), NEW n \in 1..Len(q)
  PROVE  Then(SubSeq(q, 1, n), SubSeq(q, n + 1, Len(q))) = q
<1>1. Len(q) \in Nat
  BY LenProperties
<1>2. /\ 1 \in 1..(Len(q) + 1) /\ n \in (1 - 1)..Len(q) /\ Len(q) \in n..Len(q)
  BY <1>1
<1>3. SubSeq(q, 1, n) \o SubSeq(q, n + 1, Len(q)) = SubSeq(q, 1, Len(q))
  BY <1>2, ConcatAdjacentSubSeq
<1>4. QED BY <1>3, SubSeqFull DEF Then
=============================================================================
