------------------------------ MODULE EpollProofs ------------------------------
(***************************************************************************)
(* The epoll echo server keeps its promises for any number of clients, any *)
(* amount of data, any buffer size and any room in the kernel, with short  *)
(* sends or without. Every step treats the data of one client in one of    *)
(* six ways (Flow); the promises about the data follow from these, those   *)
(* about the process from the stage its one thread is at. The same six ways*)
(* show that the server implements the echo service (EchoService).         *)
(***************************************************************************)
EXTENDS EpollEcho, EchoQueues

\* A sequence with growing numbers, its units, and units that all come before others.
Rising(q) == \A i, j \in 1..Len(q) : i < j => q[i].no < q[j].no
Items(q) == {q[i] : i \in 1..Len(q)}
Below(A, B) == \A x \in A, y \in B : x.no < y.no
-------------------------------------------------------------------------------
\* A unit joins a queue.
LEMMA Joined ==
  ASSUME NEW q \in Seq(Unit), NEW x \in Unit
  PROVE  /\ Append(q, x) \in Seq(Unit) /\ Len(Append(q, x)) = Len(q) + 1
         /\ Items(Append(q, x)) = Items(q) \cup {x}
         /\ Rising(q) /\ Below(Items(q), {x}) => Rising(Append(q, x))
<1> DEFINE r == Append(q, x)
<1>1. /\ r \in Seq(Unit) /\ Len(r) = Len(q) + 1
      /\ \A i \in 1..Len(q) : r[i] = q[i]
      /\ r[Len(q) + 1] = x
  BY AppendProperties
<1>2. Len(q) \in Nat
  BY LenProperties
<1> DEFINE n == Len(q)
<1> HIDE DEF r, n
<1>3. \A i \in 1..Len(r) : \/ i \in 1..n /\ r[i] = q[i]
                           \/ i = n + 1 /\ r[i] = x
  BY <1>1, <1>2 DEF n
<1>4. Items(r) \subseteq Items(q) \cup {x}
  BY <1>3 DEF Items, n
<1>5. (\A i \in 1..n : i \in 1..Len(r)) /\ n + 1 \in 1..Len(r)
  BY <1>1, <1>2 DEF n
<1>6. Items(q) \cup {x} \subseteq Items(r)
  BY <1>1, <1>5 DEF Items, n
<1>7. ASSUME Rising(q), Below(Items(q), {x}), NEW i \in 1..Len(r), NEW j \in 1..Len(r), i < j
      PROVE  r[i].no < r[j].no
  <2>1. i \in 1..n /\ r[i] = q[i]
    BY <1>1, <1>2, <1>3, <1>7 DEF n
  <2>2. CASE j \in 1..n /\ r[j] = q[j]
    BY <1>7, <2>1, <2>2 DEF Rising, n
  <2>3. CASE j = n + 1 /\ r[j] = x
    BY <1>7, <2>1, <2>3 DEF Below, Items, n
  <2>4. QED BY <1>3, <2>2, <2>3
<1>8. Rising(q) /\ Below(Items(q), {x}) => Rising(r)
  BY <1>7 DEF Rising
<1>9. QED BY <1>1, <1>4, <1>6, <1>8 DEF r

\* The first unit leaves a queue.
LEMMA Left ==
  ASSUME NEW q \in Seq(Unit), q # << >>
  PROVE  /\ Head(q) \in Unit /\ Head(q) \in Items(q)
         /\ Tail(q) \in Seq(Unit) /\ Len(Tail(q)) = Len(q) - 1
         /\ Items(Tail(q)) \subseteq Items(q)
         /\ Rising(q) => Rising(Tail(q)) /\ Below({Head(q)}, Items(Tail(q)))
<1> DEFINE r == Tail(q)
           n == Len(q)
<1>1. /\ r \in Seq(Unit) /\ Len(r) = n - 1 /\ Head(q) \in Unit
      /\ \A i \in 1..Len(r) : r[i] = q[i + 1]
  BY HeadTailProperties
<1>2. n \in Nat \ {0}
  BY EmptySeq
<1>3. Head(q) = q[1]
  OBVIOUS
<1> HIDE DEF r, n
<1>4. /\ 1 \in 1..n
      /\ \A i \in 1..Len(r) : i + 1 \in 1..n /\ i \in Int /\ 1 < i + 1
  BY <1>1, <1>2
<1>5. Head(q) \in Items(q)
  BY <1>3, <1>4 DEF Items, n
<1>6. Items(r) \subseteq Items(q)
  BY <1>1, <1>4 DEF Items, n
<1>7. Rising(q) => Rising(r)
  BY <1>1, <1>4 DEF Rising, n
<1>8. Rising(q) => Below({Head(q)}, Items(r))
  BY <1>1, <1>3, <1>4 DEF Rising, Items, Below, n
<1>9. QED BY <1>1, <1>5, <1>6, <1>7, <1>8 DEF r, n

\* A queue is cut after n units.
LEMMA Cut ==
  ASSUME NEW q \in Seq(Unit), NEW n \in 1..Len(q)
  PROVE  LET a == SubSeq(q, 1, n)
             b == SubSeq(q, n + 1, Len(q))
         IN  /\ a \in Seq(Unit) /\ Len(a) = n /\ Items(a) \subseteq Items(q)
             /\ b \in Seq(Unit) /\ Len(b) = Len(q) - n /\ Items(b) \subseteq Items(q)
             /\ Rising(q) => Rising(a) /\ Rising(b) /\ Below(Items(a), Items(b))
<1> DEFINE a == SubSeq(q, 1, n)
           b == SubSeq(q, n + 1, Len(q))
           m == Len(q)
<1>1. m \in Nat /\ n \in Nat /\ n >= 1 /\ n <= m
  BY LenProperties
<1>2. \A i \in 1..m : q[i] \in Unit
  BY ElementOfSeq
<1>3. (\A i \in 1..n : q[i] \in Unit) /\ (\A i \in (n + 1)..m : q[i] \in Unit)
  BY <1>1, <1>2
<1>4. /\ a \in Seq(Unit) /\ Len(a) = (IF 1 <= n THEN n - 1 + 1 ELSE 0)
      /\ \A i \in 1..(n - 1 + 1) : a[i] = q[1 + i - 1]
  BY <1>1, <1>3, SubSeqProperties
<1>5. /\ b \in Seq(Unit) /\ Len(b) = (IF n + 1 <= m THEN m - (n + 1) + 1 ELSE 0)
      /\ \A i \in 1..(m - (n + 1) + 1) : b[i] = q[(n + 1) + i - 1]
  BY <1>1, <1>3, SubSeqProperties
<1> HIDE DEF a, b, m
<1>6. Len(a) = n /\ \A i \in 1..n : a[i] = q[i] /\ i \in 1..m
  BY <1>1, <1>4
<1>7. Len(b) = m - n /\ \A i \in 1..(m - n) : b[i] = q[n + i] /\ n + i \in 1..m
  BY <1>1, <1>5
<1>8. Items(a) \subseteq Items(q)
  BY <1>6 DEF Items, m
<1>9. Items(b) \subseteq Items(q)
  BY <1>7 DEF Items, m
<1>10. Rising(q) => Rising(a)
  BY <1>6 DEF Rising, m
<1>11. Rising(q) => Rising(b)
  <2>1. \A i, j \in 1..(m - n) : i < j => n + i < n + j
    BY <1>1
  <2>2. QED BY <1>7, <2>1 DEF Rising, m
<1>12. Rising(q) => Below(Items(a), Items(b))
  <2>1. \A i \in 1..n, j \in 1..(m - n) : i < n + j
    BY <1>1
  <2>2. ASSUME Rising(q), NEW x \in Items(a), NEW y \in Items(b) PROVE x.no < y.no
    <3>1. PICK i \in 1..n : x = a[i]
      BY <1>6 DEF Items
    <3>2. PICK j \in 1..(m - n) : y = b[j]
      BY <1>7 DEF Items
    <3>3. /\ x = q[i] /\ i \in 1..m
          /\ y = q[n + j] /\ n + j \in 1..m
      BY <1>6, <1>7, <3>1, <3>2
    <3>4. QED BY <2>1, <2>2, <3>3 DEF Rising, m
  <2>3. QED BY <2>2 DEF Below
<1>13. QED BY <1>4, <1>5, <1>6, <1>7, <1>8, <1>9, <1>10, <1>11, <1>12 DEF a, b, m

\* Two queues are joined.
LEMMA Concats ==
  ASSUME NEW p \in Seq(Unit), NEW q \in Seq(Unit)
  PROVE  /\ p \o q \in Seq(Unit) /\ Len(p \o q) = Len(p) + Len(q)
         /\ Items(p \o q) = Items(p) \cup Items(q)
         /\ Rising(p) /\ Rising(q) /\ Below(Items(p), Items(q)) => Rising(p \o q)
<1> DEFINE r == p \o q
           m == Len(p)
           n == Len(q)
<1>1. m \in Nat /\ n \in Nat
  BY LenProperties
<1>2. /\ r \in Seq(Unit) /\ Len(r) = m + n
      /\ \A i \in 1..(m + n) : r[i] = IF i <= m THEN p[i] ELSE q[i - m]
  BY ConcatProperties
<1> HIDE DEF r, m, n
<1>3. \A i \in 1..Len(r) : \/ i \in 1..m /\ r[i] = p[i]
                           \/ i > m /\ i - m \in 1..n /\ r[i] = q[i - m]
  BY <1>1, <1>2
<1>4. Items(r) \subseteq Items(p) \cup Items(q)
  BY <1>3 DEF Items, m, n
<1>5. \A i \in 1..m : i \in 1..Len(r) /\ r[i] = p[i]
  BY <1>1, <1>2
<1>6. \A i \in 1..n : m + i \in 1..Len(r) /\ r[m + i] = q[i]
  <2>1. \A i \in 1..n : m + i \in 1..(m + n) /\ ~(m + i <= m) /\ (m + i) - m = i
    BY <1>1
  <2>2. QED BY <1>2, <2>1
<1>7. Items(p) \cup Items(q) \subseteq Items(r)
  BY <1>5, <1>6 DEF Items, m, n
<1>8. ASSUME Rising(p), Rising(q), Below(Items(p), Items(q)),
             NEW i \in 1..Len(r), NEW j \in 1..Len(r), i < j
      PROVE  r[i].no < r[j].no
  <2>1. i \in Int /\ j \in Int
    OBVIOUS
  <2>2. CASE i \in 1..m /\ r[i] = p[i] /\ j \in 1..m /\ r[j] = p[j]
    BY <1>8, <2>2 DEF Rising, m
  <2>3. CASE i \in 1..m /\ r[i] = p[i] /\ j - m \in 1..n /\ r[j] = q[j - m]
    BY <1>8, <2>3 DEF Below, Items, m, n
  <2>4. CASE i - m \in 1..n /\ r[i] = q[i - m] /\ j - m \in 1..n /\ r[j] = q[j - m]
    <3>1. i - m < j - m
      BY <1>1, <1>8, <2>1
    <3>2. QED BY <1>8, <2>4, <3>1 DEF Rising, n
  <2>5. ~(i > m /\ j \in 1..m)
    BY <1>1, <1>8, <2>1
  <2>6. QED BY <1>3, <2>2, <2>3, <2>4, <2>5
<1>9. Rising(p) /\ Rising(q) /\ Below(Items(p), Items(q)) => Rising(r)
  BY <1>8 DEF Rising
<1>10. QED BY <1>2, <1>4, <1>7, <1>9 DEF r, m, n
-------------------------------------------------------------------------------
\* A client's data e, t, u and s, of which it has sent m units, are in order: what it has read,
\* what waits for it, what the server holds and what waits for the server.
Ordered(c, e, t, u, s, m) ==
  /\ Rising(e) /\ Rising(t) /\ Rising(u) /\ Rising(s)
  /\ Below(Items(e), Items(t)) /\ Below(Items(e), Items(u)) /\ Below(Items(e), Items(s))
  /\ Below(Items(t), Items(u)) /\ Below(Items(t), Items(s)) /\ Below(Items(u), Items(s))
  /\ \A x \in Items(e) \cup Items(t) \cup Items(u) \cup Items(s) : x.from = c /\ x.no <= m

\* Order stays when the client reads a unit.
LEMMA OrderedRead ==
  ASSUME NEW c, NEW e \in Seq(Unit), NEW t \in Seq(Unit), NEW u, NEW s, NEW m,
         t # << >>, Ordered(c, e, t, u, s, m)
  PROVE  Ordered(c, Append(e, Head(t)), Tail(t), u, s, m)
<1> DEFINE x == Head(t)
           f == Append(e, x)
           r == Tail(t)
<1>1. /\ x \in Unit /\ x \in Items(t) /\ Items(r) \subseteq Items(t)
      /\ Rising(r) /\ Below({x}, Items(r))
  BY Left DEF Ordered
<1>2. /\ Items(f) = Items(e) \cup {x}
      /\ Rising(e) /\ Below(Items(e), {x}) => Rising(f)
  BY <1>1, Joined
<1> HIDE DEF x, f, r
<1>3. Rising(f)
  BY <1>1, <1>2 DEF Ordered, Below
<1>4. QED BY <1>1, <1>2, <1>3 DEF Ordered, Below, x, f, r

\* Order stays when the client sends its next unit.
LEMMA OrderedSend ==
  ASSUME NEW c \in Clients, NEW e, NEW t, NEW u, NEW s \in Seq(Unit), NEW m \in Nat,
         \A y \in Items(e) \cup Items(t) \cup Items(u) \cup Items(s) : y.no \in Nat,
         Ordered(c, e, t, u, s, m)
  PROVE  Ordered(c, e, t, u, Append(s, [from |-> c, no |-> m + 1]), m + 1)
<1> DEFINE x == [from |-> c, no |-> m + 1]
           r == Append(s, x)
<1>1. x \in Unit /\ x.from = c /\ x.no = m + 1
  BY DEF Unit
<1>2. /\ Items(r) = Items(s) \cup {x}
      /\ Rising(s) /\ Below(Items(s), {x}) => Rising(r)
  BY <1>1, Joined
<1> HIDE DEF x, r
<1>3. \A y \in Items(e) \cup Items(t) \cup Items(u) \cup Items(s) : y.no < m + 1
  BY DEF Ordered
<1>4. /\ Below(Items(s), {x}) /\ Below(Items(e), {x}) /\ Below(Items(t), {x})
      /\ Below(Items(u), {x})
  BY <1>1, <1>3 DEF Below
<1>5. Rising(r)
  BY <1>2, <1>4 DEF Ordered
<1>6. Below(Items(e), Items(r)) /\ Below(Items(t), Items(r)) /\ Below(Items(u), Items(r))
  BY <1>2, <1>4 DEF Ordered, Below
<1>7. \A y \in Items(e) \cup Items(t) \cup Items(u) \cup Items(r) : y.from = c /\ y.no <= m + 1
  BY <1>1, <1>2, <1>3 DEF Ordered
<1>8. QED BY <1>5, <1>6, <1>7 DEF Ordered, x, r

\* Order stays when the server receives n units over what it held.
LEMMA OrderedReceive ==
  ASSUME NEW c, NEW e, NEW t, NEW u, NEW s \in Seq(Unit), NEW m, NEW n \in 1..Len(s),
         Ordered(c, e, t, u, s, m)
  PROVE  Ordered(c, e, t, SubSeq(s, 1, n), SubSeq(s, n + 1, Len(s)), m)
<1> DEFINE a == SubSeq(s, 1, n)
           b == SubSeq(s, n + 1, Len(s))
<1>1. /\ Items(a) \subseteq Items(s) /\ Items(b) \subseteq Items(s)
      /\ Rising(a) /\ Rising(b) /\ Below(Items(a), Items(b))
  BY Cut DEF Ordered
<1> HIDE DEF a, b
<1>2. QED BY <1>1 DEF Ordered, Below, a, b

\* Order stays when the server gives up what it held.
LEMMA OrderedDrop ==
  ASSUME NEW c, NEW e, NEW t, NEW u, NEW s, NEW m, Ordered(c, e, t, u, s, m)
  PROVE  Ordered(c, e, t, << >>, s, m)
<1>1. Items(<< >>) = {} /\ Rising(<< >>)
  BY EmptySeq DEF Items, Rising
<1>2. QED BY <1>1 DEF Ordered, Below

\* Order stays when the server replies with the first n units it holds.
LEMMA OrderedReply ==
  ASSUME NEW c, NEW e, NEW t \in Seq(Unit), NEW u \in Seq(Unit), NEW s, NEW m,
         NEW n \in 1..Len(u), Ordered(c, e, t, u, s, m)
  PROVE  Ordered(c, e, t \o SubSeq(u, 1, n), << >>, s, m)
<1> DEFINE a == SubSeq(u, 1, n)
           r == t \o a
<1>1. a \in Seq(Unit) /\ Items(a) \subseteq Items(u) /\ Rising(a)
  BY Cut DEF Ordered
<1>2. /\ Items(r) = Items(t) \cup Items(a)
      /\ Rising(t) /\ Rising(a) /\ Below(Items(t), Items(a)) => Rising(r)
  BY <1>1, Concats
<1>3. Items(<< >>) = {} /\ Rising(<< >>)
  BY EmptySeq DEF Items, Rising
<1> HIDE DEF a, r
<1>4. Rising(r)
  BY <1>1, <1>2 DEF Ordered, Below
<1>5. QED BY <1>1, <1>2, <1>3, <1>4 DEF Ordered, Below, a, r
-------------------------------------------------------------------------------
\* Everything has its type at the start.
LEMMA InitTyped == Init => TypeOK
<1> SUFFICES ASSUME Init PROVE TypeOK
  OBVIOUS
<1>1. << >> \in Seq(Unit) /\ Len(<< >>) = 0
  BY EmptySeq
<1>2. MaxUnits \in Nat /\ BufSize \in Nat /\ Room \in Nat
  BY EpollAssumption
<1>3. (CHOOSE c \in Clients : TRUE) \in Clients
  BY EpollAssumption
<1>4. QED BY <1>1, <1>2, <1>3 DEF Init, TypeOK

\* The types of the data of one client, one by one.
LEMMA Typed ==
  ASSUME TypeOK, NEW c \in Clients
  PROVE  /\ buffer[c] \in Seq(Unit) /\ toServer[c] \in Seq(Unit) /\ Unsent(c) \in Seq(Unit)
         /\ toClient[c] \in Seq(Unit) /\ echoed[c] \in Seq(Unit)
         /\ sent[c] \in Nat /\ sent[c] <= MaxUnits /\ MaxUnits \in Nat /\ BufSize \in Nat
         /\ Room \in Nat /\ Len(buffer[c]) <= BufSize /\ Len(toClient[c]) <= Room
         /\ Len(buffer[c]) \in Nat /\ Len(toServer[c]) \in Nat /\ Len(Unsent(c)) \in Nat
         /\ Len(toClient[c]) \in Nat /\ Len(echoed[c]) \in Nat
<1>1. /\ buffer[c] \in Seq(Unit) /\ toServer[c] \in Seq(Unit)
      /\ toClient[c] \in Seq(Unit) /\ echoed[c] \in Seq(Unit)
      /\ Len(buffer[c]) <= BufSize /\ Len(toClient[c]) <= Room
  BY DEF TypeOK
<1>2. MaxUnits \in Nat /\ BufSize \in Nat /\ Room \in Nat
  BY EpollAssumption
<1>3. sent[c] \in 0..MaxUnits
  BY DEF TypeOK
<1>4. Unsent(c) \in Seq(Unit)
  BY <1>1, EmptySeq DEF Unsent
<1>5. QED BY <1>1, <1>2, <1>3, <1>4, LenProperties

\* What the queues hold is numbered.
LEMMA Numbered ==
  ASSUME NEW q \in Seq(Unit)
  PROVE  \A x \in Items(q) : x.no \in Nat
<1>1. \A i \in 1..Len(q) : q[i] \in Unit
  BY ElementOfSeq
<1>2. QED BY <1>1 DEF Items, Unit

\* Every step keeps the types.
LEMMA StepTyped ==
  ASSUME TypeOK, [Next]_vars
  PROVE  TypeOK'
<1>0. rev.from \in Clients
  BY DEF TypeOK
<1>1. ASSUME NEW c \in Clients, Connect(c) \/ Shut(c) \/ Leave(c) \/ Reset(c) PROVE TypeOK'
  <2>1. \E p \in {"connected", "shut", "gone", "reset"} : peer' = [peer EXCEPT ![c] = p]
    BY <1>1, Zenon DEF Connect, Shut, Leave, Reset
  <2>2. peer' \in [Clients -> {"new", "connected", "shut", "gone", "reset"}]
    BY <2>1 DEF TypeOK
  <2>3. UNCHANGED <<server, toServer, toClient, sent, echoed>>
    BY <1>1 DEF Connect, Shut, Leave, Reset
  <2>4. QED BY <2>2, <2>3 DEF TypeOK, server
<1>2. ASSUME NEW c \in Clients, ClientSend(c) PROVE TypeOK'
  <2>1. /\ toServer[c] \in Seq(Unit) /\ sent[c] \in Nat /\ sent[c] < MaxUnits /\ MaxUnits \in Nat
    BY <1>2, Typed DEF ClientSend
  <2>2. [from |-> c, no |-> sent[c] + 1] \in Unit
    BY <2>1 DEF Unit
  <2>3. Append(toServer[c], [from |-> c, no |-> sent[c] + 1]) \in Seq(Unit)
    BY <2>1, <2>2, AppendProperties
  <2>4. toServer' \in [Clients -> Seq(Unit)]
    BY <1>2, <2>3 DEF ClientSend, TypeOK
  <2>5. sent' \in [Clients -> 0..MaxUnits]
    BY <1>2, <2>1 DEF ClientSend, TypeOK
  <2>6. QED BY <1>2, <2>4, <2>5 DEF ClientSend, TypeOK, server
<1>3. ASSUME NEW c \in Clients, ClientRead(c) PROVE TypeOK'
  <2>1. toClient[c] \in Seq(Unit) /\ echoed[c] \in Seq(Unit) /\ toClient[c] # << >>
    BY <1>3, Typed DEF ClientRead
  <2>2. /\ Head(toClient[c]) \in Unit /\ Tail(toClient[c]) \in Seq(Unit)
        /\ Len(Tail(toClient[c])) = Len(toClient[c]) - 1
    BY <2>1, HeadTailProperties
  <2>3. Append(echoed[c], Head(toClient[c])) \in Seq(Unit)
    BY <2>1, <2>2, AppendProperties
  <2>4. toClient' \in [Clients -> Seq(Unit)] /\ echoed' \in [Clients -> Seq(Unit)]
    BY <1>3, <2>2, <2>3 DEF ClientRead, TypeOK
  <2>5. Len(Tail(toClient[c])) <= Room
    BY <2>2, Typed
  <2>6. \A d \in Clients : Len(toClient'[d]) <= Room
    BY <1>3, <2>5 DEF ClientRead, TypeOK
  <2>7. QED BY <1>3, <2>4, <2>6 DEF ClientRead, TypeOK, server
<1>4. ASSUME NEW c \in Clients, epoll_wait(c) PROVE TypeOK'
  <2>1. pc' \in {"wait", "accept", "in", "out", "dead"}
    BY <1>4 DEF epoll_wait
  <2>2. \E a, b \in BOOLEAN : rev' = [from |-> c, in |-> a, out |-> b]
    BY <1>4, Zenon DEF epoll_wait, InReady, OutReady, HasEnded
  <2>3. QED BY <1>4, <2>1, <2>2 DEF epoll_wait, TypeOK, client
<1>5. CASE handle_new_connection
  BY <1>0, <1>5 DEF handle_new_connection, w_epoll_add_ptr_in, TypeOK, client
<1>6. CASE Receive
  <2> DEFINE c == rev.from
             s == toServer[c]
  <2>1. PICK n \in Sizes(c) : /\ buffer' = [buffer EXCEPT ![c] = SubSeq(s, 1, n)]
                              /\ toServer' = [toServer EXCEPT ![c] = SubSeq(@, n + 1, Len(@))]
    BY <1>6 DEF Receive
  <2>2. s \in Seq(Unit) /\ Len(s) \in Nat /\ BufSize \in Nat
    BY <1>0, Typed
  <2>3. n \in 1..Len(s) /\ n <= BufSize
    BY <2>1, <2>2 DEF Sizes
  <2>4. /\ SubSeq(s, 1, n) \in Seq(Unit) /\ Len(SubSeq(s, 1, n)) = n
        /\ SubSeq(s, n + 1, Len(s)) \in Seq(Unit)
    BY <2>2, <2>3, Cut
  <2>5. buffer' \in [Clients -> Seq(Unit)] /\ toServer' \in [Clients -> Seq(Unit)]
    BY <1>0, <2>1, <2>4 DEF TypeOK
  <2>6. \A d \in Clients : Len(buffer'[d]) <= BufSize
    BY <1>0, <2>1, <2>3, <2>4 DEF TypeOK
  <2>7. interest' \in [Clients -> {"none", "in", "inout"}]
    BY <1>6 DEF Receive, w_epoll_update_ptr_inout, TypeOK
  <2>8. QED BY <1>6, <2>5, <2>6, <2>7 DEF Receive, AfterIn, TypeOK, client
<1>7. CASE ReceiveEnd
  BY <1>0, <1>7 DEF ReceiveEnd, w_epoll_remove_ptr, connection_remove, AfterIn, TypeOK, client
<1>8. CASE Send
  <2> DEFINE c == rev.from
             u == buffer[c]
             t == toClient[c]
  <2>1. PICK n \in IF ShortSends THEN 1..Len(u) ELSE {Len(u)} :
          /\ Len(t) + n <= Room
          /\ toClient' = [toClient EXCEPT ![c] = @ \o SubSeq(u, 1, n)]
    BY <1>8 DEF Send
  <2>2. u \in Seq(Unit) /\ Len(u) \in Nat /\ t \in Seq(Unit)
    BY <1>0, Typed
  <2>3. n \in 1..Len(u) \/ (n = 0 /\ u = << >>)
    BY <2>1, <2>2, EmptySeq
  <2>4. SubSeq(u, 1, n) \in Seq(Unit) /\ Len(SubSeq(u, 1, n)) = n
    <3>1. CASE n \in 1..Len(u)
      BY <2>2, <3>1, Cut
    <3>2. CASE n = 0 /\ u = << >>
      <4>1. SubSeq(u, 1, 0) = << >>
        BY SubSeqEmpty
      <4>2. QED BY <3>2, <4>1, EmptySeq
    <3>3. QED BY <2>3, <3>1, <3>2
  <2>5. t \o SubSeq(u, 1, n) \in Seq(Unit) /\ Len(t \o SubSeq(u, 1, n)) = Len(t) + n
    BY <2>2, <2>4, Concats
  <2>6. toClient' \in [Clients -> Seq(Unit)] /\ (\A d \in Clients : Len(toClient'[d]) <= Room)
    BY <1>0, <2>1, <2>5 DEF TypeOK
  <2>7. interest' \in [Clients -> {"none", "in", "inout"}]
    BY <1>8 DEF Send, w_epoll_update_ptr_in, TypeOK
  <2>8. QED BY <1>8, <2>6, <2>7 DEF Send, TypeOK, client
<1>9. CASE SendFails
  <2>1. /\ conn' \in [Clients -> {"none", "live", "freed"}]
        /\ interest' \in [Clients -> {"none", "in", "inout"}]
        /\ pc' \in {"wait", "accept", "in", "out", "dead"}
    BY <1>0, <1>9 DEF SendFails, w_epoll_remove_ptr, connection_remove, TypeOK
  <2>2. QED BY <1>9, <2>1 DEF SendFails, TypeOK, client
<1>10. CASE SendOnFreed
  BY <1>10 DEF SendOnFreed, TypeOK, client
<1>11. CASE UNCHANGED vars
  BY <1>11 DEF vars, server, client, TypeOK
<1>12. QED
  BY <1>1, <1>2, <1>3, <1>4, <1>5, <1>6, <1>7, <1>8, <1>9, <1>10, <1>11 DEF Next
-------------------------------------------------------------------------------
\* What the server's thread may rely on where it is: the connection of the event it handles, and
\* data wherever it has asked for EPOLLOUT.
Stage ==
  /\ \A c \in Clients : conn[c] = "live" <=> interest[c] # "none"
  /\ \A c \in Clients : interest[c] = "inout" => buffer[c] # << >>
  /\ pc = "accept" => conn[rev.from] = "none"
  /\ pc = "in" => /\ conn[rev.from] = "live"
                  /\ rev.out => interest[rev.from] = "inout"
  /\ pc = "out" => conn[rev.from] = "freed" \/ interest[rev.from] = "inout"

\* A receive leaves the buffer with what it took.
LEMMA Taken ==
  ASSUME TypeOK, Receive
  PROVE  \E n \in 1..Len(toServer[rev.from]) :
           /\ buffer' = [buffer EXCEPT ![rev.from] = SubSeq(toServer[rev.from], 1, n)]
           /\ toServer' = [toServer EXCEPT ![rev.from] = SubSeq(@, n + 1, Len(@))]
           /\ buffer'[rev.from] # << >>
<1> DEFINE c == rev.from
           s == toServer[c]
<1>1. c \in Clients /\ s \in Seq(Unit) /\ Len(s) \in Nat /\ BufSize \in Nat
  BY Typed DEF TypeOK
<1>2. PICK n \in Sizes(c) : /\ buffer' = [buffer EXCEPT ![c] = SubSeq(s, 1, n)]
                            /\ toServer' = [toServer EXCEPT ![c] = SubSeq(@, n + 1, Len(@))]
  BY DEF Receive
<1>3. n \in 1..Len(s) /\ n # 0
  BY <1>1, <1>2 DEF Sizes
<1>4. Len(SubSeq(s, 1, n)) = n
  BY <1>1, <1>3, Cut
<1>5. buffer'[c] = SubSeq(s, 1, n)
  BY <1>1, <1>2 DEF TypeOK
<1>6. buffer'[c] # << >>
  BY <1>3, <1>4, <1>5, EmptySeq
<1>7. QED BY <1>2, <1>3, <1>6

\* Every step keeps the stage.
LEMMA StepStage ==
  ASSUME TypeOK, Stage, [Next]_vars
  PROVE  Stage'
<1>0. rev.from \in Clients
  BY DEF TypeOK
<1>1. ASSUME NEW c \in Clients,
             \/ Connect(c) \/ ClientSend(c) \/ ClientRead(c)
             \/ Shut(c) \/ Leave(c) \/ Reset(c)
      PROVE  Stage'
  <2>1. UNCHANGED server
    BY <1>1, Zenon DEF Connect, ClientSend, ClientRead, Shut, Leave, Reset
  <2>2. QED BY <2>1 DEF server, Stage
<1>2. ASSUME NEW c \in Clients, epoll_wait(c) PROVE Stage'
  <2>1. UNCHANGED <<conn, interest, buffer>>
    BY <1>2 DEF epoll_wait
  <2>2. \/ pc' = "accept" /\ rev'.from = c /\ conn[c] = "none"
        \/ /\ rev' = [from |-> c, in |-> interest[c] # "none" /\ InReady(c),
                     out |-> interest[c] = "inout" /\ OutReady(c)]
           /\ \/ pc' = "in" /\ rev'.in
              \/ pc' = "out" /\ rev'.out
    BY <1>2 DEF epoll_wait
  <2>3. CASE pc' = "accept" /\ rev'.from = c /\ conn[c] = "none"
    BY <2>1, <2>3 DEF Stage
  <2>4. CASE /\ rev' = [from |-> c, in |-> interest[c] # "none" /\ InReady(c),
                        out |-> interest[c] = "inout" /\ OutReady(c)]
             /\ \/ pc' = "in" /\ rev'.in
                \/ pc' = "out" /\ rev'.out
    <3>1. /\ rev'.from = c
          /\ rev'.in = (interest[c] # "none" /\ InReady(c))
          /\ rev'.out = (interest[c] = "inout" /\ OutReady(c))
      BY <2>4
    <3>2. /\ rev'.in => interest[c] # "none"
          /\ rev'.out => interest[c] = "inout"
      BY <3>1
    <3>3. QED BY <2>1, <2>4, <3>1, <3>2 DEF Stage
  <2>5. QED BY <2>2, <2>3, <2>4
<1>3. CASE handle_new_connection
  BY <1>0, <1>3 DEF handle_new_connection, w_epoll_add_ptr_in, TypeOK, Stage
<1>4. CASE Receive
  <2>1. /\ buffer'[rev.from] # << >>
        /\ \A d \in Clients : d # rev.from => buffer'[d] = buffer[d]
    BY <1>4, Taken DEF TypeOK
  <2>2. /\ interest'[rev.from] = "inout"
        /\ \A d \in Clients : d # rev.from => interest'[d] = interest[d]
    BY <1>0, <1>4 DEF Receive, w_epoll_update_ptr_inout, TypeOK
  <2>3. UNCHANGED <<rev, conn>> /\ conn[rev.from] = "live" /\ pc' \in {"wait", "out"}
    BY <1>4 DEF Receive, AfterIn, Stage
  <2>4. QED BY <1>0, <2>1, <2>2, <2>3 DEF Stage
<1>5. CASE ReceiveEnd
  BY <1>0, <1>5 DEF ReceiveEnd, w_epoll_remove_ptr, connection_remove, AfterIn, TypeOK, Stage
<1>6. CASE Send
  BY <1>0, <1>6 DEF Send, w_epoll_update_ptr_in, TypeOK, Stage
<1>7. CASE SendFails
  <2>1. UNCHANGED <<rev, buffer>> /\ pc' \in {"wait", "dead"}
    BY <1>7 DEF SendFails
  <2>2. \/ /\ interest' = [interest EXCEPT ![rev.from] = "none"]
           /\ conn' = [conn EXCEPT ![rev.from] = "freed"]
        \/ UNCHANGED <<conn, interest>>
    BY <1>7 DEF SendFails, w_epoll_remove_ptr, connection_remove
  <2>3. CASE UNCHANGED <<conn, interest>>
    BY <2>1, <2>3 DEF Stage
  <2>4. CASE /\ interest' = [interest EXCEPT ![rev.from] = "none"]
             /\ conn' = [conn EXCEPT ![rev.from] = "freed"]
    <3>1. /\ interest'[rev.from] = "none" /\ conn'[rev.from] = "freed"
          /\ \A d \in Clients : d # rev.from => UNCHANGED <<interest[d], conn[d]>>
      BY <1>0, <2>4 DEF TypeOK
    <3>2. QED BY <2>1, <3>1 DEF Stage
  <2>5. QED BY <2>2, <2>3, <2>4
<1>8. CASE SendOnFreed
  BY <1>8 DEF SendOnFreed, Stage
<1>9. CASE UNCHANGED vars
  BY <1>9 DEF vars, server, Stage
<1>10. QED BY <1>1, <1>2, <1>3, <1>4, <1>5, <1>6, <1>7, <1>8, <1>9 DEF Next
-------------------------------------------------------------------------------
\* The six ways in which a step treats the data of client c.
Stays(c) == UNCHANGED <<echoed[c], toClient[c], Unsent(c), toServer[c], sent[c]>>
Reads(c) ==
  /\ toClient[c] # << >>
  /\ echoed'[c] = Append(echoed[c], Head(toClient[c])) /\ toClient'[c] = Tail(toClient[c])
  /\ UNCHANGED <<Unsent(c), toServer[c], sent[c]>>
Sends(c) ==
  /\ Waits(c) /\ peer[c] = "connected" /\ sent'[c] = sent[c] + 1
  /\ toServer'[c] = Append(toServer[c], [from |-> c, no |-> sent[c] + 1])
  /\ UNCHANGED <<echoed[c], toClient[c], Unsent(c)>>
Receives(c) ==
  /\ \E n \in 1..Len(toServer[c]) :
       /\ Unsent(c)' = SubSeq(toServer[c], 1, n)
       /\ toServer'[c] = SubSeq(toServer[c], n + 1, Len(toServer[c]))
  /\ UNCHANGED <<echoed[c], toClient[c], sent[c]>>
Replies(c) ==
  /\ \E n \in 1..Len(Unsent(c)) : toClient'[c] = toClient[c] \o SubSeq(Unsent(c), 1, n)
  /\ Unsent(c)' = << >>
  /\ UNCHANGED <<echoed[c], toServer[c], sent[c]>>
Drops(c) ==
  /\ Unsent(c)' = << >> /\ peer[c] \in {"shut", "gone", "reset"}
  /\ UNCHANGED <<echoed[c], toClient[c], toServer[c], sent[c]>>
Flow(c) == Stays(c) \/ Reads(c) \/ Sends(c) \/ Receives(c) \/ Replies(c) \/ Drops(c)

\* The data of a client whose queues and connection a step leaves alone stay.
LEMMA Alone ==
  ASSUME NEW c \in Clients,
         UNCHANGED <<echoed[c], toClient[c], toServer[c], sent[c]>>,
         UNCHANGED <<conn[c], interest[c], buffer[c]>>
  PROVE  Flow(c)
BY DEF Flow, Stays, Unsent

\* Every step treats every client's data in one of these ways.
LEMMA Flows ==
  ASSUME TypeOK, Stage, [Next]_vars, NEW c \in Clients
  PROVE  Flow(c)
<1>0. rev.from \in Clients
  BY DEF TypeOK
<1>1. ASSUME NEW d \in Clients, Connect(d) \/ Shut(d) \/ Leave(d) \/ Reset(d) PROVE Flow(c)
  <2>1. UNCHANGED <<server, toServer, toClient, sent, echoed>>
    BY <1>1, Zenon DEF Connect, Shut, Leave, Reset
  <2>2. QED BY <2>1, Alone DEF server
<1>2. ASSUME NEW d \in Clients, ClientSend(d) PROVE Flow(c)
  <2>1. CASE d # c
    BY <1>2, <2>1, Alone DEF ClientSend, server, TypeOK
  <2>2. CASE d = c
    BY <1>2, <2>2 DEF ClientSend, server, TypeOK, Flow, Sends, Unsent
  <2>3. QED BY <2>1, <2>2
<1>3. ASSUME NEW d \in Clients, ClientRead(d) PROVE Flow(c)
  <2>1. CASE d # c
    BY <1>3, <2>1, Alone DEF ClientRead, server, TypeOK
  <2>2. CASE d = c
    BY <1>3, <2>2 DEF ClientRead, server, TypeOK, Flow, Reads, Unsent
  <2>3. QED BY <2>1, <2>2
<1>4. ASSUME NEW d \in Clients, epoll_wait(d) PROVE Flow(c)
  BY <1>4, Alone DEF epoll_wait, client
<1>5. CASE handle_new_connection
  <2>1. CASE rev.from # c
    BY <1>5, <2>1, Alone DEF handle_new_connection, w_epoll_add_ptr_in, client, TypeOK
  <2>2. CASE rev.from = c
    BY <1>5, <2>2 DEF handle_new_connection, w_epoll_add_ptr_in, client, TypeOK, Stage,
                         Flow, Stays, Unsent
  <2>3. QED BY <2>1, <2>2
<1>6. CASE Receive
  <2>1. CASE rev.from # c
    BY <1>6, <2>1, Alone DEF Receive, w_epoll_update_ptr_inout, client, TypeOK
  <2>2. CASE rev.from = c
    <3>1. PICK n \in 1..Len(toServer[c]) :
            /\ buffer' = [buffer EXCEPT ![c] = SubSeq(toServer[c], 1, n)]
            /\ toServer' = [toServer EXCEPT ![c] = SubSeq(@, n + 1, Len(@))]
      BY <1>6, <2>2, Taken
    <3>2. /\ buffer'[c] = SubSeq(toServer[c], 1, n)
          /\ toServer'[c] = SubSeq(toServer[c], n + 1, Len(toServer[c]))
      BY <3>1 DEF TypeOK
    <3>3. conn'[c] = "live" /\ interest'[c] = "inout"
      BY <1>6, <2>2 DEF Receive, w_epoll_update_ptr_inout, TypeOK, Stage
    <3>4. Unsent(c)' = SubSeq(toServer[c], 1, n)
      BY <3>2, <3>3 DEF Unsent
    <3>5. UNCHANGED <<echoed[c], toClient[c], sent[c]>>
      BY <1>6 DEF Receive, client
    <3>6. QED BY <3>2, <3>4, <3>5 DEF Flow, Receives
  <2>3. QED BY <2>1, <2>2
<1>7. CASE ReceiveEnd
  <2>1. CASE rev.from # c
    BY <1>7, <2>1, Alone
       DEF ReceiveEnd, w_epoll_remove_ptr, connection_remove, client, TypeOK
  <2>2. CASE rev.from = c
    BY <1>7, <2>2
       DEF ReceiveEnd, w_epoll_remove_ptr, connection_remove, client, HasEnded, TypeOK,
           Flow, Drops, Unsent
  <2>3. QED BY <2>1, <2>2
<1>8. CASE Send
  <2>1. CASE rev.from # c
    BY <1>8, <2>1, Alone DEF Send, w_epoll_update_ptr_in, client, TypeOK
  <2>2. CASE rev.from = c
    <3>1. Unsent(c) = buffer[c] /\ buffer[c] # << >>
      BY <1>8, <2>2 DEF Send, Stage, Unsent
    <3>2. PICK n \in IF ShortSends THEN 1..Len(buffer[c]) ELSE {Len(buffer[c])} :
            toClient' = [toClient EXCEPT ![c] = @ \o SubSeq(buffer[c], 1, n)]
      BY <1>8, <2>2 DEF Send
    <3>3. Len(buffer[c]) \in Nat \ {0}
      BY <3>1, Typed, EmptySeq
    <3>4. n \in 1..Len(Unsent(c))
      BY <3>1, <3>2, <3>3
    <3>5. toClient'[c] = toClient[c] \o SubSeq(Unsent(c), 1, n)
      BY <3>1, <3>2 DEF TypeOK
    <3>6. Unsent(c)' = << >>
      BY <1>8, <2>2 DEF Send, w_epoll_update_ptr_in, TypeOK, Unsent
    <3>7. UNCHANGED <<echoed[c], toServer[c], sent[c]>>
      BY <1>8 DEF Send, client
    <3>8. QED BY <3>4, <3>5, <3>6, <3>7 DEF Flow, Replies
  <2>3. QED BY <2>1, <2>2
<1>9. CASE SendFails
  <2>1. CASE rev.from # c
    BY <1>9, <2>1, Alone
       DEF SendFails, w_epoll_remove_ptr, connection_remove, client, TypeOK
  <2>2. CASE rev.from = c
    BY <1>9, <2>2
       DEF SendFails, w_epoll_remove_ptr, connection_remove, client, TypeOK,
           Flow, Drops, Stays, Unsent
  <2>3. QED BY <2>1, <2>2
<1>10. CASE SendOnFreed
  BY <1>10, Alone DEF SendOnFreed, client
<1>11. CASE UNCHANGED vars
  BY <1>11, Alone DEF vars, server, client
<1>12. QED
  BY <1>1, <1>2, <1>3, <1>4, <1>5, <1>6, <1>7, <1>8, <1>9, <1>10, <1>11 DEF Next
-------------------------------------------------------------------------------
\* The data of every client are in order.
Order ==
  \A c \in Clients : Ordered(c, echoed[c], toClient[c], Unsent(c), toServer[c], sent[c])

\* Every step keeps the order.
LEMMA StepOrder ==
  ASSUME TypeOK, Stage, Order, [Next]_vars
  PROVE  Order'
<1> SUFFICES ASSUME NEW c \in Clients
             PROVE  Ordered(c, echoed[c], toClient[c], Unsent(c), toServer[c], sent[c])'
  BY DEF Order
<1> DEFINE e == echoed[c]
           t == toClient[c]
           u == Unsent(c)
           s == toServer[c]
           m == sent[c]
<1>1. /\ e \in Seq(Unit) /\ t \in Seq(Unit) /\ u \in Seq(Unit) /\ s \in Seq(Unit) /\ m \in Nat
  BY Typed
<1>2. Ordered(c, e, t, u, s, m)
  BY DEF Order
<1>3. Flow(c)
  BY Flows
<1>4. CASE Stays(c)
  BY <1>2, <1>4 DEF Stays
<1>5. CASE Reads(c)
  <2>1. t # << >>
    BY <1>5 DEF Reads
  <2>2. Ordered(c, Append(e, Head(t)), Tail(t), u, s, m)
    BY <1>1, <1>2, <2>1, OrderedRead
  <2>3. QED BY <1>5, <2>2 DEF Reads
<1>6. CASE Sends(c)
  <2>1. \A y \in Items(e) \cup Items(t) \cup Items(u) \cup Items(s) : y.no \in Nat
    BY <1>1, Numbered
  <2>2. Ordered(c, e, t, u, Append(s, [from |-> c, no |-> m + 1]), m + 1)
    BY <1>1, <1>2, <2>1, OrderedSend
  <2>3. QED BY <1>6, <2>2 DEF Sends
<1>7. CASE Receives(c)
  <2>1. PICK n \in 1..Len(s) : /\ Unsent(c)' = SubSeq(s, 1, n)
                               /\ toServer'[c] = SubSeq(s, n + 1, Len(s))
    BY <1>7 DEF Receives
  <2>2. Ordered(c, e, t, SubSeq(s, 1, n), SubSeq(s, n + 1, Len(s)), m)
    BY <1>1, <1>2, OrderedReceive
  <2>3. QED BY <1>7, <2>1, <2>2 DEF Receives
<1>8. CASE Replies(c)
  <2>1. PICK n \in 1..Len(u) : toClient'[c] = t \o SubSeq(u, 1, n)
    BY <1>8 DEF Replies
  <2>2. Ordered(c, e, t \o SubSeq(u, 1, n), << >>, s, m)
    BY <1>1, <1>2, OrderedReply
  <2>3. QED BY <1>8, <2>1, <2>2 DEF Replies
<1>9. CASE Drops(c)
  <2>1. Ordered(c, e, t, << >>, s, m)
    BY <1>2, OrderedDrop
  <2>2. QED BY <1>9, <2>1 DEF Drops
<1>10. QED BY <1>3, <1>4, <1>5, <1>6, <1>7, <1>8, <1>9 DEF Flow
-------------------------------------------------------------------------------
\* What a step does to the numbers of units: in what the client has read, in the three queues, and
\* of those it has sent.
Counted(c, e, t, u, s, m, e1, t1, u1, s1, m1) ==
  \/ Stays(c) /\ e1 = e /\ t1 = t /\ u1 = u /\ s1 = s /\ m1 = m
  \/ Reads(c) /\ t > 0 /\ e1 = e + 1 /\ t1 = t - 1 /\ u1 = u /\ s1 = s /\ m1 = m
  \/ Sends(c) /\ e1 = e /\ t1 = t /\ u1 = u /\ s1 = s + 1 /\ m1 = m + 1
  \/ /\ Receives(c) /\ e1 = e /\ t1 = t /\ m1 = m
     /\ \E n \in 1..s : u1 = n /\ s1 = s - n
  \/ /\ Replies(c) /\ e1 = e /\ u1 = 0 /\ s1 = s /\ m1 = m
     /\ \E n \in 1..u : t1 = t + n
  \/ Drops(c) /\ e1 = e /\ t1 = t /\ u1 = 0 /\ s1 = s /\ m1 = m

\* Every step does one of these things to them.
LEMMA Counting ==
  ASSUME TypeOK, Stage, [Next]_vars, NEW c \in Clients
  PROVE  Counted(c, Len(echoed[c]), Len(toClient[c]), Len(Unsent(c)), Len(toServer[c]), sent[c],
                 Len(echoed'[c]), Len(toClient'[c]), Len(Unsent(c)'), Len(toServer'[c]), sent'[c])
<1> DEFINE e == echoed[c]
           t == toClient[c]
           u == Unsent(c)
           s == toServer[c]
           m == sent[c]
<1> USE DEF Counted
<1>1. /\ e \in Seq(Unit) /\ t \in Seq(Unit) /\ u \in Seq(Unit) /\ s \in Seq(Unit) /\ m \in Nat
  BY Typed
<1>2. Len(<< >>) = 0
  BY EmptySeq
<1>3. Flow(c)
  BY Flows
<1>4. CASE Stays(c)
  BY <1>4 DEF Stays
<1>5. CASE Reads(c)
  <2>1. t # << >>
    BY <1>5 DEF Reads
  <2>2. Head(t) \in Unit /\ Len(Tail(t)) = Len(t) - 1 /\ Len(t) > 0
    BY <1>1, <2>1, HeadTailProperties, EmptySeq
  <2>3. Len(Append(e, Head(t))) = Len(e) + 1
    BY <1>1, <2>2, AppendProperties
  <2>4. QED BY <1>5, <2>2, <2>3 DEF Reads
<1>6. CASE Sends(c)
  <2>1. [from |-> c, no |-> m + 1] \in Unit
    BY <1>1 DEF Unit
  <2>2. Len(Append(s, [from |-> c, no |-> m + 1])) = Len(s) + 1
    BY <1>1, <2>1, AppendProperties
  <2>3. QED BY <1>6, <2>2 DEF Sends
<1>7. CASE Receives(c)
  <2>1. PICK n \in 1..Len(s) : /\ Unsent(c)' = SubSeq(s, 1, n)
                               /\ toServer'[c] = SubSeq(s, n + 1, Len(s))
    BY <1>7 DEF Receives
  <2>2. Len(SubSeq(s, 1, n)) = n /\ Len(SubSeq(s, n + 1, Len(s))) = Len(s) - n
    BY <1>1, Cut
  <2>3. QED BY <1>7, <2>1, <2>2 DEF Receives
<1>8. CASE Replies(c)
  <2>1. PICK n \in 1..Len(u) : toClient'[c] = t \o SubSeq(u, 1, n)
    BY <1>8 DEF Replies
  <2>2. SubSeq(u, 1, n) \in Seq(Unit) /\ Len(SubSeq(u, 1, n)) = n
    BY <1>1, Cut
  <2>3. Len(t \o SubSeq(u, 1, n)) = Len(t) + n
    BY <1>1, <2>2, Concats
  <2>4. QED BY <1>2, <1>8, <2>1, <2>3 DEF Replies
<1>9. CASE Drops(c)
  BY <1>2, <1>9 DEF Drops
<1>10. QED BY <1>3, <1>4, <1>5, <1>6, <1>7, <1>8, <1>9 DEF Flow
-------------------------------------------------------------------------------
\* The units of a client that are somewhere.
Held(c) == Len(echoed[c]) + Len(toClient[c]) + Len(Unsent(c)) + Len(toServer[c])

\* No unit is in two places, and none of a polite client is lost. A polite client sends a unit, and
\* leaves, only when it has everything back; it is never reset.
Counts == \A c \in Clients : Held(c) <= sent[c]
Polites ==
  \A c \in Polite :
    /\ Held(c) = sent[c] /\ sent[c] <= Len(echoed[c]) + 1
    /\ peer[c] # "reset"
    /\ peer[c] \in {"shut", "gone"} => Len(echoed[c]) = sent[c]

\* Every step keeps the units in one place.
LEMMA StepCounts ==
  ASSUME TypeOK, Stage, Counts, [Next]_vars
  PROVE  Counts'
<1> SUFFICES ASSUME NEW c \in Clients PROVE (Held(c) <= sent[c])'
  BY DEF Counts
<1> DEFINE e == Len(echoed[c])
           t == Len(toClient[c])
           u == Len(Unsent(c))
           s == Len(toServer[c])
           m == sent[c]
           e1 == Len(echoed'[c])
           t1 == Len(toClient'[c])
           u1 == Len(Unsent(c)')
           s1 == Len(toServer'[c])
           m1 == sent'[c]
<1>1. e \in Nat /\ t \in Nat /\ u \in Nat /\ s \in Nat /\ m \in Nat /\ e + t + u + s <= m
  BY Typed DEF Counts, Held
<1>2. Counted(c, e, t, u, s, m, e1, t1, u1, s1, m1)
  BY Counting
<1> HIDE DEF e, t, u, s, m, e1, t1, u1, s1, m1
<1>3. e1 + t1 + u1 + s1 <= m1
  BY <1>1, <1>2 DEF Counted
<1>4. QED BY <1>3 DEF Held, e1, t1, u1, s1, m1

\* What a step may do to the client's end of a connection.
LEMMA Peers ==
  ASSUME TypeOK, [Next]_vars, NEW c \in Clients
  PROVE  \/ peer'[c] = peer[c]
         \/ /\ UNCHANGED <<server, echoed[c], toClient[c], sent[c]>>
            /\ \/ peer[c] = "new" /\ peer'[c] = "connected"
               \/ /\ peer[c] \in {"connected", "shut"} /\ Waits(c)
                  /\ peer'[c] \in {"shut", "gone"}
               \/ peer[c] = "gone" /\ toClient[c] # << >> /\ peer'[c] = "reset"
<1>1. CASE \E d \in Clients : Connect(d) \/ Shut(d) \/ Leave(d) \/ Reset(d)
  BY <1>1 DEF Connect, Shut, Leave, Reset, TypeOK
<1>2. CASE UNCHANGED peer
  BY <1>2
<1>3. CASE \E d \in Clients : ClientSend(d) \/ ClientRead(d) \/ epoll_wait(d)
  BY <1>2, <1>3 DEF ClientSend, ClientRead, epoll_wait, client
<1>4. CASE \/ handle_new_connection \/ Receive \/ ReceiveEnd \/ Send \/ SendFails \/ SendOnFreed
           \/ UNCHANGED vars
  BY <1>2, <1>4
     DEF handle_new_connection, Receive, ReceiveEnd, Send, SendFails, SendOnFreed, vars, client
<1>5. QED BY <1>1, <1>3, <1>4 DEF Next

\* Every step keeps the promises to polite clients.
LEMMA StepPolites ==
  ASSUME TypeOK, Stage, Polites, [Next]_vars
  PROVE  Polites'
<1> SUFFICES ASSUME NEW c \in Polite
             PROVE  /\ (Held(c) = sent[c])' /\ (sent[c] <= Len(echoed[c]) + 1)'
                    /\ peer'[c] # "reset"
                    /\ peer'[c] \in {"shut", "gone"} => Len(echoed'[c]) = sent'[c]
  BY DEF Polites
<1>0. c \in Clients
  BY EpollAssumption
<1> DEFINE e == Len(echoed[c])
           t == Len(toClient[c])
           u == Len(Unsent(c))
           s == Len(toServer[c])
           m == sent[c]
           e1 == Len(echoed'[c])
           t1 == Len(toClient'[c])
           u1 == Len(Unsent(c)')
           s1 == Len(toServer'[c])
           m1 == sent'[c]
           p == peer[c]
           p1 == peer'[c]
<1>1. /\ e \in Nat /\ t \in Nat /\ u \in Nat /\ s \in Nat /\ m \in Nat
      /\ e + t + u + s = m /\ m <= e + 1
      /\ p # "reset" /\ (p \in {"shut", "gone"} => e = m)
  BY <1>0, Typed DEF Polites, Held
<1>2. Counted(c, e, t, u, s, m, e1, t1, u1, s1, m1)
  BY <1>0, Counting
<1>3. /\ Sends(c) => e = m /\ p = "connected"
      /\ Drops(c) => p \in {"shut", "gone", "reset"}
  BY DEF Sends, Drops, Waits
<1>4. \/ p1 = p
      \/ /\ e1 = e /\ t1 = t /\ m1 = m
         /\ \/ p1 = "connected"
            \/ e = m /\ p1 \in {"shut", "gone"}
            \/ p = "gone" /\ t # 0 /\ p1 = "reset"
  <2>1. toClient[c] # << >> => Len(toClient[c]) # 0
    BY <1>0, Typed, EmptySeq
  <2>2. Waits(c) => Len(echoed[c]) = sent[c]
    BY DEF Waits
  <2>3. QED BY <1>0, <2>1, <2>2, Peers
<1> HIDE DEF e, t, u, s, m, e1, t1, u1, s1, m1, p, p1
<1>5. e1 + t1 + u1 + s1 = m1 /\ m1 <= e1 + 1
  <2>1. CASE \/ e1 = e /\ t1 = t /\ u1 = u /\ s1 = s /\ m1 = m
             \/ e1 = e + 1 /\ t1 = t - 1 /\ u1 = u /\ s1 = s /\ m1 = m
             \/ e = m /\ e1 = e /\ t1 = t /\ u1 = u /\ s1 = s + 1 /\ m1 = m + 1
    BY <1>1, <2>1
  <2>2. CASE /\ e1 = e /\ t1 = t /\ m1 = m
             /\ \E n \in 1..s : u1 = n /\ s1 = s - n
    BY <1>1, <2>2
  <2>3. CASE /\ e1 = e /\ u1 = 0 /\ s1 = s /\ m1 = m
             /\ \E n \in 1..u : t1 = t + n
    BY <1>1, <2>3
  <2>4. CASE e = m /\ e1 = e /\ t1 = t /\ u1 = 0 /\ s1 = s /\ m1 = m
    BY <1>1, <2>4
  <2>5. p \in {"shut", "gone", "reset"} => e = m
    BY <1>1
  <2>6. QED BY <1>2, <1>3, <2>1, <2>2, <2>3, <2>4, <2>5, Zenon DEF Counted
<1>6. p \in {"shut", "gone"} /\ p1 = p => e1 = m1
  BY <1>1, <1>2, <1>3 DEF Counted
<1>7. p1 # "reset"
  BY <1>1, <1>4
<1>8. p1 \in {"shut", "gone"} => e1 = m1
  BY <1>1, <1>4, <1>6
<1>9. QED BY <1>5, <1>7, <1>8 DEF Held, e, t, u, s, m, e1, t1, u1, s1, m1, p1
-------------------------------------------------------------------------------
\* A client that ended its data, or was reset, while the server still held its reply: no unit of it
\* has gone out, and none goes out any more.
Lost(c) ==
  /\ c \in Clients \ Polite /\ peer[c] \in {"shut", "gone", "reset"} /\ buffer[c] # << >>
  /\ Below(Items(echoed[c]), Items(buffer[c])) /\ Below(Items(toClient[c]), Items(buffer[c]))

\* The server is down, or about to go down, over such a client: the one of the event.
Downs ==
  /\ pc = "out" /\ conn[rev.from] = "freed" => Lost(rev.from)
  /\ pc = "dead" => Lost(rev.from)

\* Clients and network cannot make up for it.
LEMMA LostStays ==
  ASSUME TypeOK, NEW c \in Clients, Lost(c), NEW d \in Clients,
         Connect(d) \/ ClientSend(d) \/ ClientRead(d) \/ Shut(d) \/ Leave(d) \/ Reset(d)
  PROVE  Lost(c)'
<1>1. buffer' = buffer
  BY Zenon DEF Connect, ClientSend, ClientRead, Shut, Leave, Reset, server
<1>2. peer'[c] \in {"shut", "gone", "reset"}
  BY DEF Connect, ClientSend, ClientRead, Shut, Leave, Reset, TypeOK, Lost
<1>3. CASE UNCHANGED <<echoed[c], toClient[c]>>
  BY <1>1, <1>2, <1>3 DEF Lost
<1>4. CASE ClientRead(c)
  <2> DEFINE e == echoed[c]
             t == toClient[c]
  <2>1. e \in Seq(Unit) /\ t \in Seq(Unit) /\ t # << >>
    BY <1>4, Typed DEF ClientRead
  <2>2. Head(t) \in Unit /\ Head(t) \in Items(t) /\ Items(Tail(t)) \subseteq Items(t)
    BY <2>1, Left
  <2>3. Items(Append(e, Head(t))) = Items(e) \cup {Head(t)}
    BY <2>1, <2>2, Joined
  <2>4. echoed'[c] = Append(e, Head(t)) /\ toClient'[c] = Tail(t)
    BY <1>4 DEF ClientRead, TypeOK
  <2>5. /\ Items(echoed'[c]) \subseteq Items(e) \cup Items(t)
        /\ Items(toClient'[c]) \subseteq Items(t)
    BY <2>2, <2>3, <2>4
  <2>6. QED BY <1>1, <1>2, <2>5 DEF Lost, Below
<1>5. QED
  BY <1>3, <1>4 DEF Connect, ClientSend, ClientRead, Shut, Leave, Reset, TypeOK

\* A client whose connection goes while the server holds data for it does not get them any more.
LEMMA LostNow ==
  ASSUME TypeOK, Order, Counts, Polites, NEW c \in Clients, Unsent(c) # << >>,
         \/ peer[c] = "reset"
         \/ peer[c] \in {"shut", "gone"}
  PROVE  Lost(c)
<1> DEFINE e == Len(echoed[c])
           t == Len(toClient[c])
           u == Len(Unsent(c))
           s == Len(toServer[c])
           m == sent[c]
<1>1. e \in Nat /\ t \in Nat /\ u \in Nat \ {0} /\ s \in Nat /\ m \in Nat
  BY Typed, EmptySeq
<1>2. e + t + u + s <= m
  BY DEF Counts, Held
<1>3. c \in Polite => e = m
  BY DEF Polites
<1> HIDE DEF e, t, u, s, m
<1>4. c \notin Polite
  BY <1>1, <1>2, <1>3
<1>5. buffer[c] = Unsent(c)
  BY DEF Unsent
<1>6. QED BY <1>4, <1>5 DEF Lost, Order, Ordered

\* Every step keeps to that.
LEMMA StepDowns ==
  ASSUME TypeOK, Stage, Order, Counts, Polites, Downs, [Next]_vars
  PROVE  Downs'
<1>0. rev.from \in Clients
  BY DEF TypeOK
<1>1. ASSUME NEW d \in Clients, \/ Connect(d) \/ ClientSend(d) \/ ClientRead(d)
                                 \/ Shut(d) \/ Leave(d) \/ Reset(d)
      PROVE  Downs'
  <2>1. Lost(rev.from) => (Lost(rev.from))'
    <3>1. UNCHANGED rev
      BY <1>1, Zenon DEF Connect, ClientSend, ClientRead, Shut, Leave, Reset, server
    <3>2. QED BY <1>0, <1>1, <3>1, LostStays DEF Lost
  <2>2. UNCHANGED <<pc, conn, rev>>
    BY <1>1, Zenon DEF Connect, ClientSend, ClientRead, Shut, Leave, Reset, server
  <2>3. QED BY <2>1, <2>2 DEF Downs
<1>2. ASSUME NEW c \in Clients, epoll_wait(c) PROVE Downs'
  <2>1. pc' # "dead" /\ conn' = conn
    BY <1>2 DEF epoll_wait
  <2>2. pc' = "out" => interest[c] = "inout" /\ rev'.from = c
    <3>1. ASSUME pc' = "out"
          PROVE  /\ rev'.out = (interest[c] = "inout" /\ OutReady(c)) /\ rev'.out
                 /\ rev'.from = c
      BY <1>2, <3>1 DEF epoll_wait
    <3>2. QED BY <3>1
  <2>3. QED BY <2>1, <2>2 DEF Downs, Stage
<1>3. CASE handle_new_connection
  BY <1>3 DEF handle_new_connection, Downs
<1>4. CASE Receive
  BY <1>0, <1>4 DEF Receive, AfterIn, Stage, Downs
<1>5. CASE ReceiveEnd
  <2>1. pc' = "out" => Lost(rev.from)
    <3>1. ASSUME pc' = "out" PROVE Unsent(rev.from) # << >>
      BY <1>0, <1>5, <3>1 DEF ReceiveEnd, AfterIn, Stage, Unsent
    <3>2. \/ peer[rev.from] = "reset"
          \/ peer[rev.from] \in {"shut", "gone"}
      BY <1>5 DEF ReceiveEnd, HasEnded
    <3>3. QED BY <1>0, <3>1, <3>2, LostNow
  <2>2. UNCHANGED <<echoed, toClient, buffer, peer, rev>> /\ pc' # "dead"
    BY <1>5 DEF ReceiveEnd, AfterIn, client
  <2>3. QED BY <2>1, <2>2 DEF Downs, Lost
<1>6. CASE Send
  BY <1>6 DEF Send, Downs
<1>7. CASE SendFails
  <2>1. Unsent(rev.from) # << >> /\ peer[rev.from] = "reset"
    BY <1>0, <1>7 DEF SendFails, Stage, Unsent
  <2>2. Lost(rev.from)
    BY <1>0, <2>1, LostNow
  <2>3. UNCHANGED <<echoed, toClient, buffer, peer, rev>> /\ pc' # "out"
    BY <1>7 DEF SendFails, client
  <2>4. QED BY <1>0, <2>2, <2>3 DEF Downs, Lost
<1>8. CASE SendOnFreed
  <2>1. Lost(rev.from)
    BY <1>8 DEF SendOnFreed, Downs
  <2>2. UNCHANGED <<echoed, toClient, buffer, peer, rev>> /\ pc' # "out"
    BY <1>8 DEF SendOnFreed, client
  <2>3. QED BY <1>0, <2>1, <2>2 DEF Downs, Lost
<1>9. CASE UNCHANGED vars
  BY <1>9 DEF vars, server, client, Downs, Lost
<1>10. QED BY <1>1, <1>2, <1>3, <1>4, <1>5, <1>6, <1>7, <1>8, <1>9 DEF Next
-------------------------------------------------------------------------------
EpollInv == Stage /\ Order /\ Counts /\ Polites /\ Downs

\* The server starts with nothing anywhere.
LEMMA InitSound == Init => EpollInv
<1> SUFFICES ASSUME Init PROVE EpollInv
  OBVIOUS
<1>1. Stage /\ Downs
  BY DEF Init, Stage, Downs
<1>2. \A c \in Clients : /\ echoed[c] = << >> /\ toClient[c] = << >> /\ toServer[c] = << >>
                         /\ Unsent(c) = << >> /\ sent[c] = 0 /\ peer[c] = "new"
  BY DEF Init, Unsent
<1>3. Items(<< >>) = {} /\ Rising(<< >>) /\ Len(<< >>) = 0
  BY EmptySeq DEF Items, Rising
<1>4. Order
  BY <1>2, <1>3 DEF Order, Ordered, Below
<1>5. Counts /\ Polites
  <2>1. \A c \in Clients : Held(c) = 0 /\ Len(echoed[c]) = 0
    <3> SUFFICES ASSUME NEW c \in Clients PROVE Held(c) = 0 /\ Len(echoed[c]) = 0
      OBVIOUS
    <3>1. /\ Len(echoed[c]) = 0 /\ Len(toClient[c]) = 0
          /\ Len(Unsent(c)) = 0 /\ Len(toServer[c]) = 0
      BY <1>2, <1>3
    <3>2. QED BY <3>1 DEF Held
  <2>2. Counts
    BY <1>2, <2>1 DEF Counts
  <2>3. Polites
    BY <1>2, <2>1, EpollAssumption DEF Polites
  <2>4. QED BY <2>2, <2>3
<1>6. QED BY <1>1, <1>4, <1>5 DEF EpollInv

\* The invariant is inductive.
LEMMA EpollSound == Spec => [](TypeOK /\ EpollInv)
<1>1. Init => TypeOK /\ EpollInv
  BY InitTyped, InitSound
<1>2. TypeOK /\ EpollInv /\ [Next]_vars => (TypeOK /\ EpollInv)'
  <2> SUFFICES ASSUME TypeOK, Stage, Order, Counts, Polites, Downs, [Next]_vars
               PROVE  TypeOK' /\ Stage' /\ Order' /\ Counts' /\ Polites' /\ Downs'
    BY DEF EpollInv
  <2>1. TypeOK' /\ Stage' /\ Order'
    BY StepTyped, StepStage, StepOrder
  <2>2. Counts' /\ Polites' /\ Downs'
    BY StepCounts, StepPolites, StepDowns
  <2>3. QED BY <2>1, <2>2
<1>3. QED BY <1>1, <1>2, PTL DEF Spec

\* Every variable of the server, of the kernel and of the clients has its type.
THEOREM EpollTyped == Spec => []TypeOK
BY EpollSound, PTL

\* What a client gets back is its own data in the order it sent them, with nothing twice, whatever
\* the server lost on the way (epoll_echo_server.c:118-217).
THEOREM EchoedInOrder == Spec => []EchoInOrder
<1>1. TypeOK /\ EpollInv => EchoInOrder
  <2> SUFFICES ASSUME TypeOK, Order, NEW c \in Clients
               PROVE  LET back == echoed[c] \o toClient[c] \o Unsent(c) \o toServer[c]
                      IN  \A i \in DOMAIN back :
                            /\ back[i].from = c /\ back[i].no <= sent[c]
                            /\ \A j \in 1..(i - 1) : back[j].no < back[i].no
    BY DEF EpollInv, EchoInOrder
  <2> DEFINE e == echoed[c]
             t == toClient[c]
             u == Unsent(c)
             s == toServer[c]
             et == e \o t
             etu == et \o u
             back == etu \o s
  <2>1. e \in Seq(Unit) /\ t \in Seq(Unit) /\ u \in Seq(Unit) /\ s \in Seq(Unit)
    BY Typed
  <2>2. Ordered(c, e, t, u, s, sent[c])
    BY DEF Order
  <2> HIDE DEF e, t, u, s
  <2>3. /\ et \in Seq(Unit) /\ Items(et) = Items(e) \cup Items(t)
        /\ Rising(e) /\ Rising(t) /\ Below(Items(e), Items(t)) => Rising(et)
    BY <2>1, Concats
  <2> HIDE DEF et
  <2>4. /\ etu \in Seq(Unit) /\ Items(etu) = Items(et) \cup Items(u)
        /\ Rising(et) /\ Rising(u) /\ Below(Items(et), Items(u)) => Rising(etu)
    BY <2>1, <2>3, Concats
  <2> HIDE DEF etu
  <2>5. /\ back \in Seq(Unit) /\ Items(back) = Items(etu) \cup Items(s)
        /\ Rising(etu) /\ Rising(s) /\ Below(Items(etu), Items(s)) => Rising(back)
    BY <2>1, <2>4, Concats
  <2> HIDE DEF back
  <2>6. Rising(et)
    BY <2>2, <2>3 DEF Ordered
  <2>7. Rising(etu)
    BY <2>2, <2>3, <2>4, <2>6 DEF Ordered, Below
  <2>8. Rising(back)
    BY <2>2, <2>3, <2>4, <2>5, <2>7 DEF Ordered, Below
  <2>9. \A x \in Items(back) : x.from = c /\ x.no <= sent[c]
    BY <2>2, <2>3, <2>4, <2>5 DEF Ordered
  <2>10. Len(back) \in Nat /\ DOMAIN back = 1..Len(back)
    BY <2>5, LenProperties
  <2>11. ASSUME NEW i \in DOMAIN back
         PROVE  /\ back[i].from = c /\ back[i].no <= sent[c]
                /\ \A j \in 1..(i - 1) : back[j].no < back[i].no
    <3>1. i \in 1..Len(back)
      BY <2>10
    <3>2. back[i] \in Items(back)
      BY <3>1 DEF Items
    <3>3. \A j \in 1..(i - 1) : j \in 1..Len(back) /\ j < i
      BY <2>10, <3>1
    <3>4. QED BY <2>8, <2>9, <3>1, <3>2, <3>3 DEF Rising
  <2>12. QED BY <2>11 DEF back, etu, et, e, t, u, s
<1>2. QED BY <1>1, EpollSound, PTL

\* A client that waits for each reply loses nothing as long as the server runs
\* (epoll_echo_server.c:219-233, samples/README:21-22).
THEOREM PoliteKeepAll == Spec => []PoliteLoseNothing
<1>1. EpollInv => PoliteLoseNothing
  BY DEF EpollInv, Polites, PoliteLoseNothing, Held
<1>2. QED BY <1>1, EpollSound, PTL

\* The server only goes down over a client that ended its data while none of the reply to them had
\* been sent (epoll_echo_server.c:156-163, 177-180, 205-207, 273-280).
THEOREM UnsentRepliesEndIt == Spec => []DownOnlyByUnsentReply
<1>1. TypeOK /\ EpollInv => DownOnlyByUnsentReply
  <2> DEFINE c == rev.from
             e == echoed[c]
             t == toClient[c]
             b == buffer[c]
             back == e \o t
  <2> SUFFICES ASSUME TypeOK, Downs, pc = "dead"
               PROVE  /\ c \notin Polite /\ peer[c] \in {"shut", "gone", "reset"} /\ b # << >>
                      /\ \A i \in DOMAIN back, j \in DOMAIN b : back[i] # b[j]
    BY DEF EpollInv, DownOnlyByUnsentReply
  <2>1. Lost(c)
    BY DEF Downs
  <2>2. e \in Seq(Unit) /\ t \in Seq(Unit) /\ b \in Seq(Unit)
    BY Typed DEF TypeOK
  <2>3. back \in Seq(Unit) /\ Items(back) = Items(e) \cup Items(t)
    BY <2>2, Concats
  <2>4. \A x \in Items(back), y \in Items(b) : x.no < y.no /\ y.no \in Nat
    BY <2>1, <2>2, <2>3, Numbered DEF Lost, Below
  <2>5. DOMAIN back = 1..Len(back) /\ DOMAIN b = 1..Len(b)
    BY <2>2, <2>3, LenProperties
  <2>6. ASSUME NEW i \in DOMAIN back, NEW j \in DOMAIN b PROVE back[i] # b[j]
    <3>1. back[i] \in Items(back) /\ b[j] \in Items(b)
      BY <2>5 DEF Items
    <3>2. QED BY <2>4, <3>1
  <2>7. QED BY <2>1, <2>6 DEF Lost
<1>2. QED BY <1>1, EpollSound, PTL
-------------------------------------------------------------------------------
\* The units of a client that are on their way.
Line(c) == Then(Then(toClient[c], Unsent(c)), toServer[c])

\* What the six ways to treat a client's data do to its line.
LineMoves(c) ==
  \/ UNCHANGED <<echoed[c], sent[c], Line(c)>>
  \/ /\ Line(c) # << >> /\ Line(c)' = Tail(Line(c))
     /\ echoed'[c] = Append(echoed[c], Head(Line(c))) /\ UNCHANGED sent[c]
  \/ /\ peer[c] = "connected" /\ sent'[c] = sent[c] + 1
     /\ Line(c)' = Append(Line(c), [from |-> c, no |-> sent[c] + 1]) /\ UNCHANGED echoed[c]
  \/ /\ Line(c)' \in Service!Remains(Line(c)) /\ UNCHANGED <<echoed[c], sent[c]>>
     /\ Line(c)' # << >> \/ peer[c] \in {"shut", "gone", "reset"}

\* A piece of the server's buffer is lost, or nothing.
LEMMA PieceLost ==
  ASSUME NEW c \in Clients, NEW a \in Seq(Unit), NEW x \in Seq(Unit), NEW b \in Seq(Unit),
         Line(c) = Then(Then(a, x), b), Line(c)' = Then(a, b), Len(x) <= BufSize,
         UNCHANGED <<echoed[c], sent[c]>>,
         Len(a) + Len(b) > 0 \/ peer[c] \in {"shut", "gone", "reset"}
  PROVE  LineMoves(c)
<1>1. CASE x = << >>
  BY <1>1, ThenNothing DEF LineMoves
<1>2. CASE x # << >>
  <2>1. PICK k \in Nat, l \in Nat, m \in Nat : k = Len(a) /\ l = Len(x) /\ m = Len(b)
    BY LenProperties
  <2>2. l # 0 /\ l <= BufSize /\ BufSize \in Nat
    BY <1>2, <2>1, EmptySeq, EpollAssumption
  <2>3. Len(Line(c)) = k + l + m /\ Line(c)' = Service!Without(Line(c), k, l)
    <3>1. Len(Line(c)) = k + l + m /\ Line(c)' = Gap(Line(c), k, l)
      BY <2>1, LineLoses
    <3>2. QED BY <3>1 DEF Gap, Then, Service!Without
  <2>4. k \in 0..(k + l + m - 1) /\ l \in 1..BufSize
    BY <2>2
  <2>5. Line(c)' \in Service!Remains(Line(c))
    BY <2>3, <2>4 DEF Service!Remains
  <2>6. Line(c)' # << >> \/ peer[c] \in {"shut", "gone", "reset"}
    <3>1. Line(c)' \in Seq(Unit) /\ Len(Line(c)') = Len(a) + Len(b)
      BY ThenJoins
    <3>2. QED BY <3>1, EmptySeq
  <2>7. QED BY <2>5, <2>6 DEF LineMoves
<1>3. QED BY <1>1, <1>2

\* Every step moves the line of every client.
LEMMA LinesMove ==
  ASSUME TypeOK, Stage, [Next]_vars, NEW c \in Clients
  PROVE  LineMoves(c)
<1>1. PICK t \in Seq(Unit), u \in Seq(Unit), s \in Seq(Unit) :
        t = toClient[c] /\ u = Unsent(c) /\ s = toServer[c]
  BY Typed
<1>2. Len(t) \in Nat /\ Len(u) \in Nat /\ Len(s) \in Nat /\ BufSize \in Nat /\ Len(u) <= BufSize
  <2>1. Len(<< >>) <= BufSize
    BY EmptySeq, EpollAssumption
  <2>2. QED BY <1>1, <2>1, Typed DEF Unsent
<1>3. /\ Then(t, u) \in Seq(Unit) /\ Then(u, s) \in Seq(Unit)
      /\ Line(c) = Then(Then(t, u), s) /\ Line(c) = Then(t, Then(u, s))
  <2>1. Then(t, u) \in Seq(Unit) /\ Then(u, s) \in Seq(Unit)
    BY ThenJoins
  <2>2. Line(c) = Then(Then(t, u), s)
    BY <1>1 DEF Line
  <2>3. QED BY <2>1, <2>2, ThenAssociates
<1>4. CASE Stays(c)
  BY <1>4 DEF Stays, LineMoves, Line
<1>5. CASE Reads(c)
  <2>1. /\ t # << >> /\ toClient'[c] = Tail(t) /\ echoed'[c] = Append(echoed[c], Head(t))
        /\ UNCHANGED <<Unsent(c), toServer[c], sent[c]>>
    BY <1>1, <1>5 DEF Reads
  <2>2. Tail(t) \in Seq(Unit)
    BY <2>1, HeadTailProperties
  <2>3. Line(c)' = Then(Tail(t), Then(u, s))
    <3>1. Line(c)' = Then(Then(Tail(t), u), s)
      BY <1>1, <2>1 DEF Line
    <3>2. PICK w \in Seq(Unit) : w = Tail(t)
      BY <2>2
    <3>3. Then(Then(w, u), s) = Then(w, Then(u, s))
      BY ThenAssociates
    <3>4. QED BY <3>1, <3>2, <3>3
  <2>4. Line(c) # << >> /\ Head(Line(c)) = Head(t) /\ Tail(Line(c)) = Then(Tail(t), Then(u, s))
    <3>1. PICK w \in Seq(Unit) : w = Then(u, s)
      BY <1>3
    <3>2. Then(t, w) # << >> /\ Head(Then(t, w)) = Head(t) /\ Tail(Then(t, w)) = Then(Tail(t), w)
      BY <2>1, ThenHead
    <3>3. QED BY <1>3, <3>1, <3>2
  <2>5. QED BY <2>1, <2>3, <2>4 DEF LineMoves
<1>6. CASE Sends(c)
  <2>1. /\ peer[c] = "connected" /\ sent'[c] = sent[c] + 1
        /\ toServer'[c] = Append(s, [from |-> c, no |-> sent[c] + 1])
        /\ UNCHANGED <<echoed[c], toClient[c], Unsent(c)>>
    BY <1>1, <1>6 DEF Sends
  <2>2. [from |-> c, no |-> sent[c] + 1] \in Unit
    BY Typed DEF Unit
  <2>3. Line(c)' = Append(Line(c), [from |-> c, no |-> sent[c] + 1])
    <3>1. Line(c)' = Then(Then(t, u), Append(s, [from |-> c, no |-> sent[c] + 1]))
      BY <1>1, <2>1 DEF Line
    <3>2. PICK p \in Seq(Unit), x \in Unit :
            p = Then(t, u) /\ x = [from |-> c, no |-> sent[c] + 1]
      BY <1>3, <2>2
    <3>3. Then(p, Append(s, x)) = Append(Then(p, s), x)
      BY ThenAppend
    <3>4. QED BY <1>3, <3>1, <3>2, <3>3
  <2>4. QED BY <2>1, <2>3 DEF LineMoves
<1>7. CASE Receives(c)
  <2>1. PICK n \in 1..Len(s) : /\ Unsent(c)' = SubSeq(s, 1, n)
                               /\ toServer'[c] = SubSeq(s, n + 1, Len(s))
    BY <1>1, <1>7 DEF Receives
  <2>2. PICK v \in Seq(Unit), w \in Seq(Unit) :
          v = SubSeq(s, 1, n) /\ w = SubSeq(s, n + 1, Len(s))
    <3>1. SubSeq(s, 1, n) \in Seq(Unit) /\ SubSeq(s, n + 1, Len(s)) \in Seq(Unit)
      BY Cut
    <3>2. QED BY <3>1
  <2>3. Line(c)' = Then(t, s)
    <3>1. Line(c)' = Then(Then(t, v), w)
      BY <1>1, <1>7, <2>1, <2>2 DEF Line, Receives
    <3>2. Then(v, w) = s
      BY <2>2, LineSplits
    <3>3. QED BY <3>1, <3>2, ThenAssociates
  <2>4. Len(t) + Len(s) > 0
    BY <1>2
  <2>5. UNCHANGED <<echoed[c], sent[c]>>
    BY <1>7 DEF Receives
  <2>6. QED BY <1>2, <1>3, <2>3, <2>4, <2>5, PieceLost
<1>8. CASE Replies(c)
  <2>1. PICK n \in 1..Len(u) : toClient'[c] = t \o SubSeq(u, 1, n)
    BY <1>1, <1>8 DEF Replies
  <2>2. PICK v \in Seq(Unit), w \in Seq(Unit) :
          /\ v = SubSeq(u, 1, n) /\ Len(v) = n /\ Len(w) = Len(u) - n /\ Then(v, w) = u
    <3>1. /\ SubSeq(u, 1, n) \in Seq(Unit) /\ Len(SubSeq(u, 1, n)) = n
          /\ SubSeq(u, n + 1, Len(u)) \in Seq(Unit)
          /\ Len(SubSeq(u, n + 1, Len(u))) = Len(u) - n
      BY Cut
    <3>2. Then(SubSeq(u, 1, n), SubSeq(u, n + 1, Len(u))) = u
      BY LineSplits
    <3>3. QED BY <3>1, <3>2
  <2>3. Then(t, v) \in Seq(Unit) /\ Len(Then(t, v)) = Len(t) + n
    <3>1. Then(t, v) \in Seq(Unit) /\ Len(Then(t, v)) = Len(t) + Len(v)
      BY ThenJoins
    <3>2. QED BY <2>2, <3>1
  <2>4. Line(c) = Then(Then(Then(t, v), w), s)
    <3>1. Then(v, w) = u
      BY <2>2
    <3>2. Then(t, u) = Then(Then(t, v), w)
      BY <3>1, ThenAssociates
    <3>3. QED BY <1>3, <3>2
  <2>5. Line(c)' = Then(Then(t, v), s)
    <3>1. toClient'[c] = Then(t, v)
      BY <2>1, <2>2 DEF Then
    <3>2. Line(c)' = Then(Then(Then(t, v), << >>), s)
      BY <1>1, <1>8, <3>1 DEF Line, Replies
    <3>3. QED BY <2>3, <3>2, ThenNothing
  <2>6. Len(w) <= BufSize /\ Len(Then(t, v)) + Len(s) > 0
    BY <1>2, <2>2, <2>3
  <2>7. UNCHANGED <<echoed[c], sent[c]>>
    BY <1>8 DEF Replies
  <2>8. QED BY <2>2, <2>3, <2>4, <2>5, <2>6, <2>7, PieceLost
<1>9. CASE Drops(c)
  <2>1. Line(c)' = Then(t, s) /\ peer[c] \in {"shut", "gone", "reset"}
    <3>1. Line(c)' = Then(Then(t, << >>), s) /\ peer[c] \in {"shut", "gone", "reset"}
      BY <1>1, <1>9 DEF Line, Drops
    <3>2. QED BY <3>1, ThenNothing
  <2>2. UNCHANGED <<echoed[c], sent[c]>>
    BY <1>9 DEF Drops
  <2>3. QED BY <1>2, <1>3, <2>1, <2>2, PieceLost
<1>10. QED BY Flows, <1>4, <1>5, <1>6, <1>7, <1>8, <1>9 DEF Flow

\* Who has closed its end of the connection, and a client whose line is still.
Leavers == {c \in Clients : peer[c] \in {"shut", "gone", "reset"}}
Still(c) == UNCHANGED <<echoed[c], sent[c], Line(c)>>

\* A step moves the line of one client, or that client leaves and every line is still.
LEMMA OneMoves ==
  ASSUME TypeOK, [Next]_vars
  PROVE  \E d \in Clients :
           /\ \A c \in Clients : c # d => Still(c)
           /\ \/ Leavers' = Leavers
              \/ Still(d) /\ Leavers' = Leavers \cup {d}
<1>0. rev.from \in Clients
  BY DEF TypeOK
<1>1. ASSUME NEW c \in Clients,
             UNCHANGED <<echoed[c], sent[c], toClient[c], toServer[c]>>,
             UNCHANGED <<conn[c], interest[c], buffer[c]>>
      PROVE  Still(c)
  BY <1>1 DEF Still, Line, Unsent
<1>2. ASSUME NEW d \in Clients, Connect(d) \/ Shut(d) \/ Leave(d) \/ Reset(d)
      PROVE  /\ \A c \in Clients : Still(c)
             /\ Leavers' = Leavers \/ Leavers' = Leavers \cup {d}
  <2>1. UNCHANGED <<server, toServer, toClient, sent, echoed>>
    BY <1>2, Zenon DEF Connect, Shut, Leave, Reset
  <2>2. \A c \in Clients : Still(c)
    BY <1>1, <2>1 DEF server
  <2>3. CASE Connect(d)
    <3>1. peer[d] = "new" /\ peer' = [peer EXCEPT ![d] = "connected"]
      BY <2>3 DEF Connect
    <3>2. \A c \in Clients : peer'[c] = IF c = d THEN "connected" ELSE peer[c]
      BY <3>1 DEF TypeOK
    <3>3. Leavers' = Leavers
      BY <3>1, <3>2 DEF Leavers
    <3>4. QED BY <2>2, <3>3
  <2>4. CASE Shut(d) \/ Leave(d) \/ Reset(d)
    <3>1. PICK p \in {"shut", "gone", "reset"} : peer' = [peer EXCEPT ![d] = p]
      BY <2>4, Zenon DEF Shut, Leave, Reset
    <3>2. \A c \in Clients : peer'[c] = IF c = d THEN p ELSE peer[c]
      BY <3>1 DEF TypeOK
    <3>3. Leavers' = Leavers \cup {d}
      BY <3>2 DEF Leavers
    <3>4. QED BY <2>2, <3>3
  <2>5. QED BY <1>2, <2>3, <2>4
<1>3. UNCHANGED peer => Leavers' = Leavers
  BY DEF Leavers
<1>4. ASSUME NEW d \in Clients, ClientSend(d) \/ ClientRead(d)
      PROVE  UNCHANGED peer /\ \A c \in Clients : c # d => Still(c)
  BY <1>1, <1>4 DEF ClientSend, ClientRead, server, TypeOK
<1>5. ASSUME NEW d \in Clients, epoll_wait(d)
      PROVE  UNCHANGED peer /\ \A c \in Clients : Still(c)
  BY <1>1, <1>5 DEF epoll_wait, client
<1>6. ASSUME handle_new_connection
      PROVE  UNCHANGED peer /\ \A c \in Clients : c # rev.from => Still(c)
  BY <1>0, <1>1, <1>6 DEF handle_new_connection, w_epoll_add_ptr_in, client, TypeOK
<1>7. ASSUME Receive PROVE UNCHANGED peer /\ \A c \in Clients : c # rev.from => Still(c)
  BY <1>0, <1>1, <1>7 DEF Receive, w_epoll_update_ptr_inout, client, TypeOK
<1>8. ASSUME ReceiveEnd PROVE UNCHANGED peer /\ \A c \in Clients : c # rev.from => Still(c)
  BY <1>0, <1>1, <1>8 DEF ReceiveEnd, w_epoll_remove_ptr, connection_remove, client, TypeOK
<1>9. ASSUME Send PROVE UNCHANGED peer /\ \A c \in Clients : c # rev.from => Still(c)
  BY <1>0, <1>1, <1>9 DEF Send, w_epoll_update_ptr_in, client, TypeOK
<1>10. ASSUME SendFails PROVE UNCHANGED peer /\ \A c \in Clients : c # rev.from => Still(c)
  BY <1>0, <1>1, <1>10 DEF SendFails, w_epoll_remove_ptr, connection_remove, client, TypeOK
<1>11. ASSUME SendOnFreed PROVE UNCHANGED peer /\ \A c \in Clients : Still(c)
  BY <1>1, <1>11 DEF SendOnFreed, client
<1>12. ASSUME UNCHANGED vars PROVE UNCHANGED peer /\ \A c \in Clients : Still(c)
  BY <1>1, <1>12 DEF vars, server, client
<1>13. QED
  BY <1>0, <1>2, <1>3, <1>4, <1>5, <1>6, <1>7, <1>8, <1>9, <1>10, <1>11, <1>12 DEF Next

\* A step of the server, the kernel or a client is one of the service's, or none.
LEMMA StepServes ==
  ASSUME TypeOK, TypeOK', Stage, [Next]_vars
  PROVE  [Service!Next]_(Service!vars)
<1> DEFINE lines == [c \in Clients |-> Line(c)]
<1>1. /\ lines = [c \in Clients |-> toClient[c] \o Unsent(c) \o toServer[c]]
      /\ lines' = [c \in Clients |-> toClient[c] \o Unsent(c) \o toServer[c]]'
  BY DEF Line, Then
<1>2. PICK d \in Clients : /\ \A c \in Clients : c # d => Still(c)
                           /\ \/ Leavers' = Leavers
                              \/ Still(d) /\ Leavers' = Leavers \cup {d}
  BY OneMoves
<1>3. /\ echoed = [c \in Clients |-> echoed[c]] /\ echoed' = [c \in Clients |-> echoed'[c]]
      /\ sent = [c \in Clients |-> sent[c]] /\ sent' = [c \in Clients |-> sent'[c]]
      /\ lines = [c \in Clients |-> lines[c]] /\ lines' = [c \in Clients |-> lines'[c]]
      /\ sent[d] \in Nat /\ sent'[d] <= MaxUnits /\ MaxUnits \in Nat
  <2>1. /\ echoed \in [Clients -> Seq(Unit)] /\ echoed' \in [Clients -> Seq(Unit)]
        /\ sent \in [Clients -> 0..MaxUnits] /\ sent' \in [Clients -> 0..MaxUnits]
    BY DEF TypeOK
  <2>2. QED BY <2>1, EpollAssumption
<1>4. \A c \in Clients : c # d => /\ echoed'[c] = echoed[c] /\ sent'[c] = sent[c]
                                  /\ lines'[c] = lines[c]
  BY <1>2 DEF Still
<1>5. lines[d] = Line(d) /\ lines'[d] = Line(d)'
  OBVIOUS
<1> HIDE DEF lines
<1>6. ASSUME Leavers' = Leavers \cup {d}, Still(d) PROVE Service!Leave(d)
  <2>1. echoed' = echoed /\ sent' = sent /\ lines' = lines
    BY <1>3, <1>4, <1>5, <1>6 DEF Still
  <2>2. QED BY <1>1, <1>6, <2>1 DEF Service!Leave, Leavers
<1>7. ASSUME Leavers' = Leavers, LineMoves(d) PROVE Service!Next \/ UNCHANGED Service!vars
  <2>1. CASE UNCHANGED <<echoed[d], sent[d], Line(d)>>
    <3>1. echoed' = echoed /\ sent' = sent /\ lines' = lines
      BY <1>3, <1>4, <1>5, <2>1
    <3>2. QED BY <1>1, <1>7, <3>1 DEF Service!vars, Leavers
  <2>2. CASE /\ Line(d) # << >> /\ Line(d)' = Tail(Line(d))
             /\ echoed'[d] = Append(echoed[d], Head(Line(d))) /\ UNCHANGED sent[d]
    <3>1. /\ lines' = [lines EXCEPT ![d] = Tail(@)] /\ lines[d] # << >>
          /\ echoed' = [echoed EXCEPT ![d] = Append(@, Head(lines[d]))] /\ sent' = sent
      BY <1>3, <1>4, <1>5, <2>2
    <3>2. Service!Return(d)
      BY <1>1, <1>7, <3>1 DEF Service!Return, Leavers
    <3>3. QED BY <3>2 DEF Service!Next
  <2>3. CASE /\ peer[d] = "connected" /\ sent'[d] = sent[d] + 1
             /\ Line(d)' = Append(Line(d), [from |-> d, no |-> sent[d] + 1])
             /\ UNCHANGED echoed[d]
    <3>1. /\ lines' = [lines EXCEPT ![d] = Append(@, [from |-> d, no |-> sent[d] + 1])]
          /\ sent' = [sent EXCEPT ![d] = @ + 1] /\ echoed' = echoed
          /\ sent[d] < MaxUnits /\ d \notin Leavers
      BY <1>3, <1>4, <1>5, <2>3 DEF Leavers
    <3>2. Service!Send(d)
      BY <1>1, <1>7, <3>1 DEF Service!Send, Leavers
    <3>3. QED BY <3>2 DEF Service!Next
  <2>4. CASE /\ Line(d)' \in Service!Remains(Line(d)) /\ UNCHANGED <<echoed[d], sent[d]>>
             /\ Line(d)' # << >> \/ peer[d] \in {"shut", "gone", "reset"}
    <3>1. PICK r \in Service!Remains(lines[d]) : /\ r # << >> \/ d \in Leavers
                                                 /\ lines' = [lines EXCEPT ![d] = r]
      BY <1>3, <1>4, <1>5, <2>4 DEF Leavers
    <3>2. echoed' = echoed /\ sent' = sent
      BY <1>3, <1>4, <2>4
    <3>3. Service!Lose(d)
      BY <1>1, <1>7, <3>1, <3>2 DEF Service!Lose, Leavers
    <3>4. QED BY <3>3 DEF Service!Next
  <2>5. QED BY <1>7, <2>1, <2>2, <2>3, <2>4 DEF LineMoves
<1>8. LineMoves(d)
  BY LinesMove
<1>9. QED BY <1>2, <1>6, <1>7, <1>8 DEF Service!Next

\* The server implements the echo service, for any number of clients, any data, buffer size and room
\* in the kernel, whatever epoll reports in which order, what send takes and when clients leave.
THEOREM EpollServes == Spec => ImplementsEcho
<1>1. Init => Service!Init
  <2> SUFFICES ASSUME Init PROVE Service!Init
    OBVIOUS
  <2>1. \A c \in Clients : toClient[c] \o Unsent(c) \o toServer[c] = << >>
    <3>1. << >> \in Seq(Unit)
      BY EmptySeq
    <3>2. << >> \o << >> \o << >> = << >>
      BY <3>1, ConcatEmptySeq
    <3>3. QED BY <3>2 DEF Init, Unsent
  <2>2. QED BY <2>1 DEF Init, Service!Init
<1>2. TypeOK /\ Stage /\ TypeOK' /\ [Next]_vars => [Service!Next]_(Service!vars)
  BY StepServes
<1>3. EpollInv => Stage
  BY DEF EpollInv
<1>4. QED BY EpollSound, <1>1, <1>2, <1>3, PTL DEF Spec, ImplementsEcho, Service!Spec
===============================================================================
