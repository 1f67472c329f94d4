------------------------------ MODULE IocpProofs ------------------------------
(***************************************************************************)
(* The IOCP echo server keeps its promises for any number of clients, any  *)
(* amount of data and any buffer size. The argument is about the packets   *)
(* on the completion port: who has one, and what is true while it waits.   *)
(* That the server implements the echo service (EchoService) follows from  *)
(* the seven ways in which a step treats the data of a client (Flow).      *)
(***************************************************************************)
EXTENDS IocpEcho, EchoQueues

Data == [from : Clients, no : Nat]

\* The packets on a port q with key k that are about clients of F: where they are, whether there is
\* none, whether there is one.
At(q, k, F) == {i \in DOMAIN q : q[i].key = k /\ q[i].from \in F}
NoneOf(q, k, F) == At(q, k, F) = {}
OneOf(q, k, F) == \E i \in DOMAIN q : At(q, k, F) = {i}
Matches(x, k, F) == x.key = k /\ x.from \in F
-------------------------------------------------------------------------------
\* A packet joins the port.
LEMMA Appended ==
  ASSUME NEW q \in Seq(Packet), NEW x \in Packet, NEW k, NEW F
  PROVE  /\ ~Matches(x, k, F) => /\ NoneOf(q, k, F) => NoneOf(Append(q, x), k, F)
                                 /\ OneOf(q, k, F) => OneOf(Append(q, x), k, F)
         /\ Matches(x, k, F) /\ NoneOf(q, k, F) => OneOf(Append(q, x), k, F)
<1> DEFINE r == Append(q, x)
<1>1. /\ r \in Seq(Packet) /\ Len(r) = Len(q) + 1
      /\ \A i \in 1..Len(q) : r[i] = q[i]
      /\ r[Len(q) + 1] = x
  BY AppendProperties
<1>2. /\ Len(q) \in Nat /\ DOMAIN q = 1..Len(q) /\ DOMAIN r = 1..(Len(q) + 1)
  BY <1>1, LenProperties
<1> HIDE DEF r
<1>3. ASSUME ~Matches(x, k, F) PROVE At(r, k, F) = At(q, k, F)
  BY <1>1, <1>2, <1>3 DEF At, Matches
<1>4. ASSUME Matches(x, k, F), NoneOf(q, k, F) PROVE At(r, k, F) = {Len(q) + 1}
  BY <1>1, <1>2, <1>4 DEF At, Matches, NoneOf
<1>5. \A i \in DOMAIN q : i \in DOMAIN r
  BY <1>2
<1>6. Len(q) + 1 \in DOMAIN r
  BY <1>2
<1>7. ~Matches(x, k, F) => /\ NoneOf(q, k, F) => NoneOf(r, k, F)
                           /\ OneOf(q, k, F) => OneOf(r, k, F)
  BY <1>3, <1>5 DEF NoneOf, OneOf
<1>8. Matches(x, k, F) /\ NoneOf(q, k, F) => OneOf(r, k, F)
  BY <1>4, <1>6 DEF OneOf
<1>9. QED BY <1>7, <1>8 DEF r

\* The oldest packet leaves it.
LEMMA Removed ==
  ASSUME NEW q \in Seq(Packet), q # << >>, NEW k, NEW F
  PROVE  /\ ~Matches(Head(q), k, F) => /\ NoneOf(q, k, F) => NoneOf(Tail(q), k, F)
                                       /\ OneOf(q, k, F) => OneOf(Tail(q), k, F)
         /\ Matches(Head(q), k, F) => /\ ~NoneOf(q, k, F)
                                      /\ OneOf(q, k, F) => NoneOf(Tail(q), k, F)
<1> DEFINE r == Tail(q)
<1>1. /\ r \in Seq(Packet) /\ Len(r) = Len(q) - 1
      /\ \A i \in 1..Len(r) : r[i] = q[i + 1]
  BY HeadTailProperties
<1>2. /\ Len(q) \in Nat \ {0} /\ DOMAIN q = 1..Len(q) /\ DOMAIN r = 1..(Len(q) - 1)
  BY <1>1, LenProperties, EmptySeq
<1>3. Head(q) = q[1]
  OBVIOUS
<1> HIDE DEF r
<1>4. \A i \in DOMAIN r : i + 1 \in DOMAIN q /\ r[i] = q[i + 1]
  BY <1>1, <1>2
<1>5. \A i \in DOMAIN q : i # 1 => i - 1 \in DOMAIN r /\ r[i - 1] = q[i]
  BY <1>1, <1>2
<1>6. \A i : i \in At(r, k, F) <=> i \in DOMAIN r /\ i + 1 \in At(q, k, F)
  BY <1>4 DEF At
<1>7. 1 \in At(q, k, F) <=> Matches(Head(q), k, F)
  BY <1>2, <1>3 DEF At, Matches
<1>8. ASSUME ~Matches(Head(q), k, F), NoneOf(q, k, F) PROVE NoneOf(r, k, F)
  BY <1>6, <1>8 DEF NoneOf
<1>9. ASSUME ~Matches(Head(q), k, F), OneOf(q, k, F) PROVE OneOf(r, k, F)
  <2>1. PICK i \in DOMAIN q : At(q, k, F) = {i}
    BY <1>9 DEF OneOf
  <2>2. i # 1 /\ i - 1 \in DOMAIN r /\ i \in Int
    BY <2>1, <1>7, <1>9, <1>5, <1>2
  <2>3. \A j \in DOMAIN r : j \in Int
    BY <1>2
  <2>4. \A j : j \in At(r, k, F) <=> j = i - 1
    BY <2>1, <2>2, <2>3, <1>6
  <2>5. QED BY <2>2, <2>4 DEF OneOf
<1>10. ASSUME Matches(Head(q), k, F), OneOf(q, k, F) PROVE NoneOf(r, k, F)
  <2>1. At(q, k, F) = {1}
    BY <1>7, <1>10 DEF OneOf
  <2>2. \A j \in DOMAIN r : j + 1 # 1
    BY <1>2
  <2>3. QED BY <2>1, <2>2, <1>6 DEF NoneOf
<1>11. QED BY <1>7, <1>8, <1>9, <1>10 DEF NoneOf, r

\* The packets on a port.
Queued(q) == {q[i] : i \in DOMAIN q}

\* What joining and leaving do to them.
LEMMA QueuedAppended ==
  ASSUME NEW q \in Seq(Packet), NEW x \in Packet
  PROVE  Append(q, x) \in Seq(Packet) /\ Queued(Append(q, x)) = Queued(q) \cup {x}
<1> DEFINE r == Append(q, x)
<1>1. /\ r \in Seq(Packet) /\ Len(r) = Len(q) + 1
      /\ \A i \in 1..Len(q) : r[i] = q[i]
      /\ r[Len(q) + 1] = x
  BY AppendProperties
<1>2. /\ Len(q) \in Nat /\ DOMAIN q = 1..Len(q) /\ DOMAIN r = 1..(Len(q) + 1)
  BY <1>1, LenProperties
<1> HIDE DEF r
<1>3. \A y : y \in Queued(r) <=> y \in Queued(q) \/ y = x
  BY <1>1, <1>2 DEF Queued
<1>4. QED BY <1>1, <1>3 DEF r

\* Leaving takes one packet from them, and adds none.
LEMMA QueuedRemoved ==
  ASSUME NEW q \in Seq(Packet), q # << >>
  PROVE  /\ Tail(q) \in Seq(Packet) /\ Queued(Tail(q)) \subseteq Queued(q)
         /\ Head(q) \in Packet /\ Head(q) \in Queued(q)
<1> DEFINE r == Tail(q)
<1>1. /\ r \in Seq(Packet) /\ Len(r) = Len(q) - 1 /\ Head(q) \in Packet
      /\ \A i \in 1..Len(r) : r[i] = q[i + 1]
  BY HeadTailProperties
<1>2. /\ Len(q) \in Nat \ {0} /\ DOMAIN q = 1..Len(q) /\ DOMAIN r = 1..(Len(q) - 1)
  BY <1>1, LenProperties, EmptySeq
<1>3. Head(q) = q[1]
  OBVIOUS
<1> HIDE DEF r
<1>4. Head(q) \in Queued(q)
  BY <1>2, <1>3 DEF Queued
<1>5. \A y : y \in Queued(r) => y \in Queued(q)
  BY <1>1, <1>2 DEF Queued
<1>6. QED BY <1>1, <1>4, <1>5 DEF r

\* The places and the packets of a port say the same.
LEMMA NoneQueued ==
  ASSUME NEW q, NEW k, NEW F
  PROVE  NoneOf(q, k, F) <=> \A x \in Queued(q) : ~Matches(x, k, F)
BY DEF NoneOf, At, Queued, Matches
-------------------------------------------------------------------------------
\* Data between the client and the server.
LEMMA PrefixTaken ==
  ASSUME NEW q \in Seq(Data), NEW n \in 1..Len(q)
  PROVE  /\ SubSeq(q, 1, n) \in Seq(Data) /\ Len(SubSeq(q, 1, n)) = n
         /\ \A i \in 1..n : SubSeq(q, 1, n)[i] = q[i]
         /\ SubSeq(q, n + 1, Len(q)) \in Seq(Data)
<1>1. Len(q) \in Nat /\ n \in Nat /\ n >= 1 /\ n <= Len(q)
  BY LenProperties
<1>2. \A i \in 1..Len(q) : q[i] \in Data
  BY ElementOfSeq
<1>3. (\A i \in 1..n : q[i] \in Data) /\ (\A i \in (n + 1)..Len(q) : q[i] \in Data)
  BY <1>1, <1>2
<1>4. /\ SubSeq(q, 1, n) \in Seq(Data)
      /\ Len(SubSeq(q, 1, n)) = IF 1 <= n THEN n - 1 + 1 ELSE 0
      /\ \A i \in 1..(n - 1 + 1) : SubSeq(q, 1, n)[i] = q[1 + i - 1]
  BY <1>1, <1>3, SubSeqProperties
<1>5. SubSeq(q, n + 1, Len(q)) \in Seq(Data)
  BY <1>1, <1>3, SubSeqProperties
<1>6. QED BY <1>1, <1>4, <1>5

-------------------------------------------------------------------------------
\* No buffer holds more than BUFSIZ.
Small == \A c \in Clients : Len(buffer[c]) <= BufSize

\* Everything has its type at the start.
LEMMA InitTyped == Init => TypeOK /\ Small
<1> SUFFICES ASSUME Init PROVE TypeOK /\ Small
  OBVIOUS
<1>1. << >> \in Seq([from : Clients, no : Nat]) /\ << >> \in Seq(Packet) /\ Len(<< >>) = 0
  BY EmptySeq
<1>2. MaxUnits \in Nat /\ BufSize \in Nat
  BY IocpAssumption
<1>3. TypeOK
  BY <1>1, <1>2 DEF Init, TypeOK
<1>4. Small
  BY <1>1, <1>2 DEF Init, Small
<1>5. QED BY <1>3, <1>4

\* The types of the queues, one by one.
LEMMA Typed ==
  ASSUME TypeOK, NEW c \in Clients
  PROVE  /\ buffer[c] \in Seq(Data) /\ toServer[c] \in Seq(Data)
         /\ toClient[c] \in Seq(Data) /\ echoed[c] \in Seq(Data)
         /\ sent[c] \in Nat /\ sent[c] <= MaxUnits /\ MaxUnits \in Nat /\ BufSize \in Nat
         /\ Len(buffer[c]) \in Nat /\ Len(toServer[c]) \in Nat
         /\ Len(toClient[c]) \in Nat /\ Len(echoed[c]) \in Nat
<1>1. /\ buffer[c] \in Seq(Data) /\ toServer[c] \in Seq(Data)
      /\ toClient[c] \in Seq(Data) /\ echoed[c] \in Seq(Data)
  BY DEF TypeOK, Data
<1>2. MaxUnits \in Nat /\ BufSize \in Nat
  BY IocpAssumption
<1>3. sent[c] \in 0..MaxUnits
  BY DEF TypeOK
<1>4. QED BY <1>1, <1>2, <1>3, LenProperties

\* A packet that is posted has the type of packets.
LEMMA Posted ==
  ASSUME TypeOK, NEW k \in {"listen", "conn"}, NEW c \in Clients,
         NEW o \in {"accept", "recv", "send"}, NEW s \in {"ok", "deleted", "other"},
         NEW n \in 0..BufSize, Post(k, c, o, s, n)
  PROVE  \E x \in Packet : /\ x = [key |-> k, from |-> c, op |-> o, status |-> s, bytes |-> n]
                           /\ port' = Append(port, x) /\ port' \in Seq(Packet)
<1>1. [key |-> k, from |-> c, op |-> o, status |-> s, bytes |-> n] \in Packet
  BY DEF Packet
<1>2. port \in Seq(Packet)
  BY DEF TypeOK
<1>3. QED BY <1>1, <1>2, QueuedAppended DEF Post

\* A packet that is taken is one of the port's.
LEMMA TakenFrom ==
  ASSUME TypeOK, NEW k, NEW o, Taken(k, o)
  PROVE  /\ port # << >> /\ port \in Seq(Packet) /\ port' = Tail(port) /\ port' \in Seq(Packet)
         /\ Head(port) \in Packet /\ Head(port).from \in Clients /\ Head(port) \in Queued(port)
         /\ Head(port).key = k /\ Head(port).op = o /\ up
<1>1. port # << >> /\ port' = Tail(port) /\ port \in Seq(Packet)
  BY DEF Taken, TypeOK
<1>2. /\ Tail(port) \in Seq(Packet) /\ Head(port) \in Packet /\ Head(port) \in Queued(port)
  BY <1>1, QueuedRemoved
<1>3. Head(port).from \in Clients
  BY <1>2 DEF Packet
<1>4. QED BY <1>1, <1>2, <1>3 DEF Taken

\* Every step keeps the types.
LEMMA StepTyped ==
  ASSUME TypeOK, Small, [Next]_vars
  PROVE  TypeOK' /\ Small'
<1> USE DEF Data
<1>1. ASSUME NEW c \in Clients, Connect(c) \/ Leave(c) \/ Reset(c) PROVE TypeOK' /\ Small'
  <2>1. peer' \in [Clients -> {"new", "connected", "gone", "reset"}]
    BY <1>1 DEF Connect, Leave, Reset, TypeOK
  <2>2. UNCHANGED <<server, op, port, toServer, toClient, sent, echoed>>
    BY <1>1 DEF Connect, Leave, Reset
  <2>3. QED BY <2>1, <2>2 DEF TypeOK, Small, server
<1>2. ASSUME NEW c \in Clients, ClientSend(c) PROVE TypeOK' /\ Small'
  <2>1. /\ toServer[c] \in Seq(Data) /\ sent[c] \in Nat /\ sent[c] < MaxUnits /\ MaxUnits \in Nat
    BY <1>2, Typed DEF ClientSend
  <2>2. [from |-> c, no |-> sent[c] + 1] \in Data
    BY <2>1
  <2>3. Append(toServer[c], [from |-> c, no |-> sent[c] + 1]) \in Seq(Data)
    BY <2>1, <2>2, AppendProperties
  <2>4. toServer' \in [Clients -> Seq(Data)]
    BY <1>2, <2>3 DEF ClientSend, TypeOK
  <2>5. sent' \in [Clients -> 0..MaxUnits]
    BY <1>2, <2>1 DEF ClientSend, TypeOK
  <2>6. QED BY <1>2, <2>4, <2>5 DEF ClientSend, TypeOK, Small, server
<1>3. ASSUME NEW c \in Clients, ClientRead(c) PROVE TypeOK' /\ Small'
  <2>1. toClient[c] \in Seq(Data) /\ echoed[c] \in Seq(Data) /\ toClient[c] # << >>
    BY <1>3, Typed DEF ClientRead
  <2>2. Head(toClient[c]) \in Data /\ Tail(toClient[c]) \in Seq(Data)
    BY <2>1, HeadTailProperties
  <2>3. Append(echoed[c], Head(toClient[c])) \in Seq(Data)
    BY <2>1, <2>2, AppendProperties
  <2>4. toClient' \in [Clients -> Seq(Data)] /\ echoed' \in [Clients -> Seq(Data)]
    BY <1>3, <2>2, <2>3 DEF ClientRead, TypeOK
  <2>5. QED BY <1>3, <2>4 DEF ClientRead, TypeOK, Small, server
<1>4. ASSUME NEW c \in Clients, CloseResets(c) PROVE TypeOK' /\ Small'
  <2>1. << >> \in Seq(Data)
    BY EmptySeq
  <2>2. toClient' \in [Clients -> Seq(Data)]
    BY <1>4, <2>1 DEF CloseResets, TypeOK
  <2>3. QED BY <1>4, <2>2 DEF CloseResets, TypeOK, Small, server, client
<1>5. ASSUME NEW c \in Clients, AcceptCompletes(c) PROVE TypeOK' /\ Small'
  <2>1. PICK s \in {"ok"} \cup Errors(c) : Post("listen", c, "accept", s, 0)
    BY <1>5 DEF AcceptCompletes
  <2>2. s \in {"ok", "deleted", "other"} /\ 0 \in 0..BufSize
    BY <2>1, IocpAssumption DEF Errors
  <2>3. port' \in Seq(Packet)
    BY <2>1, <2>2, Posted
  <2>4. QED BY <1>5, <2>3 DEF AcceptCompletes, TypeOK, Small, client
<1>6. ASSUME NEW c \in Clients, RecvCompletes(c) PROVE TypeOK' /\ Small'
  <2>1. CASE \E n \in Sizes(c) :
               /\ Post("conn", c, "recv", "ok", n)
               /\ buffer' = [buffer EXCEPT ![c] = SubSeq(toServer[c], 1, n)]
               /\ toServer' = [toServer EXCEPT ![c] = SubSeq(@, n + 1, Len(@))]
    <3>1. PICK n \in Sizes(c) :
            /\ Post("conn", c, "recv", "ok", n)
            /\ buffer' = [buffer EXCEPT ![c] = SubSeq(toServer[c], 1, n)]
            /\ toServer' = [toServer EXCEPT ![c] = SubSeq(@, n + 1, Len(@))]
      BY <2>1
    <3>2. n \in 1..Len(toServer[c]) /\ n \in 0..BufSize /\ toServer[c] \in Seq(Data)
      <4>1. /\ toServer[c] \in Seq(Data) /\ Len(toServer[c]) \in Nat /\ BufSize \in Nat
        BY Typed
      <4>2. n \in 1..BufSize /\ n <= Len(toServer[c])
        BY DEF Sizes
      <4>3. QED BY <4>1, <4>2
    <3>3. port' \in Seq(Packet)
      BY <3>1, <3>2, Posted
    <3>4. /\ SubSeq(toServer[c], 1, n) \in Seq(Data) /\ Len(SubSeq(toServer[c], 1, n)) = n
          /\ SubSeq(toServer[c], n + 1, Len(toServer[c])) \in Seq(Data)
      BY <3>2, PrefixTaken
    <3>5. /\ buffer' \in [Clients -> Seq(Data)] /\ toServer' \in [Clients -> Seq(Data)]
      BY <3>1, <3>4 DEF TypeOK
    <3>6. \A d \in Clients : Len(buffer'[d]) <= BufSize
      BY <3>1, <3>2, <3>4, IocpAssumption DEF TypeOK, Small
    <3>7. QED BY <1>6, <3>3, <3>5, <3>6 DEF RecvCompletes, TypeOK, Small, client
  <2>2. CASE \E s \in Errors(c) \cup {"ok"} :
               Post("conn", c, "recv", s, 0) /\ UNCHANGED <<buffer, toServer>>
    <3>1. PICK s \in Errors(c) \cup {"ok"} : Post("conn", c, "recv", s, 0)
      BY <2>2
    <3>2. s \in {"ok", "deleted", "other"} /\ 0 \in 0..BufSize
      BY <3>1, IocpAssumption DEF Errors
    <3>3. port' \in Seq(Packet)
      BY <3>1, <3>2, Posted
    <3>4. QED BY <1>6, <2>2, <3>3 DEF RecvCompletes, TypeOK, Small, client
  <2>3. QED BY <1>6, <2>1, <2>2 DEF RecvCompletes
<1>7. ASSUME NEW c \in Clients, SendCompletes(c) PROVE TypeOK' /\ Small'
  <2>0. /\ toClient[c] \in Seq(Data) /\ buffer[c] \in Seq(Data) /\ Len(buffer[c]) \in Nat
        /\ BufSize \in Nat /\ Len(buffer[c]) <= BufSize
    BY Typed DEF Small
  <2>1. /\ toClient[c] \in Seq(Data) /\ buffer[c] \in Seq(Data) /\ Len(buffer[c]) \in 0..BufSize
    BY <2>0
  <2>2. toClient[c] \o buffer[c] \in Seq(Data)
    BY <2>1, ConcatProperties
  <2>3. toClient' \in [Clients -> Seq(Data)]
    BY <1>7, <2>2 DEF SendCompletes, TypeOK
  <2>4. PICK s \in Errors(c) \cup {"ok"}, n \in 0..BufSize : Post("conn", c, "send", s, n)
    <3>1. CASE Post("conn", c, "send", "ok", Len(buffer[c]))
      BY <2>1, <3>1
    <3>2. CASE \E s \in Errors(c) : Post("conn", c, "send", s, 0)
      BY <2>0, <3>2
    <3>3. QED BY <1>7, <3>1, <3>2 DEF SendCompletes
  <2>5. s \in {"ok", "deleted", "other"}
    BY <2>4 DEF Errors
  <2>6. port' \in Seq(Packet)
    BY <2>4, <2>5, Posted
  <2>7. QED BY <1>7, <2>3, <2>6 DEF SendCompletes, TypeOK, Small, client
<1>8. CASE NewConnection
  <2>1. port' \in Seq(Packet) /\ Head(port).from \in Clients
    BY <1>8, TakenFrom DEF NewConnection
  <2>2. /\ up' \in BOOLEAN /\ accept' \in BOOLEAN
    BY <1>8 DEF NewConnection, TypeOK, Exits, create_iocp_accept
  <2>3. /\ conn' \in [Clients -> {"none", "live", "freed", "lost"}]
        /\ op' \in [Clients -> {"none", "recv", "send"}]
    BY <1>8, <2>1 DEF NewConnection, TypeOK, Exits
  <2>4. buffer' = buffer
    BY <1>8 DEF NewConnection, Exits
  <2>5. QED BY <1>8, <2>1, <2>2, <2>3, <2>4 DEF NewConnection, TypeOK, Small, client
<1>9. CASE Received
  <2>1. port' \in Seq(Packet) /\ Head(port).from \in Clients
    BY <1>9, TakenFrom DEF Received
  <2>2. QED BY <1>9, <2>1 DEF Received, TypeOK, Small, client, server, Exits, connection_remove
<1>10. CASE SendDone
  <2>1. port' \in Seq(Packet) /\ Head(port).from \in Clients
    BY <1>10, TakenFrom DEF SendDone
  <2>2. QED BY <1>10, <2>1 DEF SendDone, TypeOK, Small, client, connection_remove
<1>11. CASE Failed
  <2>1. port' \in Seq(Packet) /\ Head(port).from \in Clients
    BY <1>11, TakenFrom DEF Failed
  <2>2. QED BY <1>11, <2>1 DEF Failed, TypeOK, Small, client, Exits, connection_remove
<1>12. CASE UNCHANGED vars
  BY <1>12 DEF vars, server, client, TypeOK, Small
<1>13. QED
  BY <1>1, <1>2, <1>3, <1>4, <1>5, <1>6, <1>7, <1>8, <1>9, <1>10, <1>11, <1>12 DEF Next
-------------------------------------------------------------------------------
\* OneOperation and OneAccept in terms of the packets on the port.
Operations ==
  up => \A c \in Clients :
          IF conn[c] = "live"
            THEN \/ op[c] # "none" /\ NoneOf(port, "conn", {c})
                 \/ op[c] = "none" /\ OneOf(port, "conn", {c})
            ELSE op[c] = "none" /\ NoneOf(port, "conn", {c})
Accepts ==
  up => \/ accept /\ NoneOf(port, "listen", Clients)
        \/ ~accept /\ OneOf(port, "listen", Clients)
        \/ ~accept /\ NoneOf(port, "listen", Clients) /\ \E c \in Clients : peer[c] = "reset"

\* What is true while a packet waits: the client of an accept has no connection yet, that of a
\* failure has reset its own, and that of a receive has had no reply.
Honest(x) ==
  /\ x.key = "listen" <=> x.op = "accept"
  /\ x.key = "listen" /\ up => conn[x.from] = "none"
  /\ x.status # "ok" => peer[x.from] = "reset"
  /\ x.op = "recv" => echoed[x.from] = << >> /\ toClient[x.from] = << >>
PortHonest == \A x \in Queued(port) : Honest(x)

\* Unit n of client c.
DataOf(c, n) == [from |-> c, no |-> n]
\* One reply: until the receive the client's data wait in order, until the send it has had no
\* reply, and what it gets is what the one receive has put into the buffer.
ReplyTo(c) ==
  /\ conn[c] = "none" \/ op[c] = "recv" =>
       /\ Len(toServer[c]) = sent[c]
       /\ \A i \in 1..sent[c] : toServer[c][i] = DataOf(c, i)
  /\ conn[c] = "none" \/ op[c] # "none" => echoed[c] = << >> /\ toClient[c] = << >>
  /\ Len(buffer[c]) <= sent[c]
  /\ \A i \in 1..Len(buffer[c]) : buffer[c][i] = DataOf(c, i)
  /\ Len(echoed[c]) + Len(toClient[c]) <= sent[c]
  /\ \A i \in 1..Len(echoed[c]) : echoed[c][i] = DataOf(c, i)
  /\ \A i \in 1..Len(toClient[c]) : toClient[c][i] = DataOf(c, Len(echoed[c]) + i)
Reply == \A c \in Clients : ReplyTo(c)

IocpInv == Operations /\ Accepts /\ PortHonest /\ Reply

\* A new packet, which no other client's place on the port notices.
LEMMA Joins ==
  ASSUME TypeOK, NEW k \in {"listen", "conn"}, NEW c \in Clients,
         NEW o \in {"accept", "recv", "send"}, NEW s \in {"ok", "deleted", "other"},
         NEW n \in 0..BufSize, Post(k, c, o, s, n)
  PROVE  /\ \A y \in Queued(port') :
              y \in Queued(port)
                \/ y = [key |-> k, from |-> c, op |-> o, status |-> s, bytes |-> n]
         /\ \A j \in {"listen", "conn"}, F \in SUBSET Clients :
              IF k = j /\ c \in F
                THEN NoneOf(port, j, F) => OneOf(port', j, F)
                ELSE /\ NoneOf(port, j, F) => NoneOf(port', j, F)
                     /\ OneOf(port, j, F) => OneOf(port', j, F)
<1>1. PICK x \in Packet : /\ x = [key |-> k, from |-> c, op |-> o, status |-> s, bytes |-> n]
                          /\ port' = Append(port, x)
  BY Posted
<1>2. port \in Seq(Packet)
  BY DEF TypeOK
<1>3. Queued(port') = Queued(port) \cup {x}
  BY <1>1, <1>2, QueuedAppended
<1>4. ASSUME NEW j, NEW F
      PROVE  /\ ~Matches(x, j, F) => /\ NoneOf(port, j, F) => NoneOf(port', j, F)
                                     /\ OneOf(port, j, F) => OneOf(port', j, F)
             /\ Matches(x, j, F) /\ NoneOf(port, j, F) => OneOf(port', j, F)
  BY <1>1, <1>2, Appended
<1>5. \A j, F : Matches(x, j, F) <=> k = j /\ c \in F
  BY <1>1 DEF Matches
<1>6. QED BY <1>1, <1>3, <1>4, <1>5

\* A packet goes, and no other client's place on the port notices.
LEMMA Goes ==
  ASSUME TypeOK, NEW k, NEW o, Taken(k, o)
  PROVE  /\ \A y \in Queued(port') : y \in Queued(port)
         /\ \A j \in {"listen", "conn"}, F \in SUBSET Clients :
              IF k = j /\ Head(port).from \in F
                THEN ~NoneOf(port, j, F) /\ (OneOf(port, j, F) => NoneOf(port', j, F))
                ELSE /\ NoneOf(port, j, F) => NoneOf(port', j, F)
                     /\ OneOf(port, j, F) => OneOf(port', j, F)
<1>1. /\ port # << >> /\ port \in Seq(Packet) /\ port' = Tail(port) /\ Head(port).key = k
  BY TakenFrom
<1>2. Queued(port') \subseteq Queued(port)
  BY <1>1, QueuedRemoved
<1>3. ASSUME NEW j, NEW F
      PROVE  /\ ~Matches(Head(port), j, F) => /\ NoneOf(port, j, F) => NoneOf(port', j, F)
                                              /\ OneOf(port, j, F) => OneOf(port', j, F)
             /\ Matches(Head(port), j, F) => /\ ~NoneOf(port, j, F)
                                             /\ OneOf(port, j, F) => NoneOf(port', j, F)
  BY <1>1, Removed
<1>4. \A j, F : Matches(Head(port), j, F) <=> k = j /\ Head(port).from \in F
  BY <1>1 DEF Matches
<1>5. QED BY <1>2, <1>3, <1>4

\* What a completion posts, and for whom.
Completion(c, k, o, s, n) ==
  /\ Post(k, c, o, s, n)
  /\ k = "listen" <=> o = "accept"
  /\ k = "listen" => AcceptCompletes(c) /\ conn[c] = "none" /\ accept /\ accept' = FALSE
  /\ s # "ok" => peer[c] = "reset"
  /\ o = "recv" => op[c] = "recv"
  /\ k = "conn" => op[c] # "none" /\ accept' = accept

\* A completion on the port is about its own client, whose operation it answers.
LEMMA Completed ==
  ASSUME TypeOK, Small, NEW c \in Clients,
         AcceptCompletes(c) \/ RecvCompletes(c) \/ SendCompletes(c)
  PROVE  \E k \in {"listen", "conn"}, o \in {"accept", "recv", "send"},
            s \in {"ok", "deleted", "other"}, n \in 0..BufSize :
           Completion(c, k, o, s, n)
<1> USE DEF Completion
<1>1. Len(buffer[c]) \in 0..BufSize /\ 0 \in 0..BufSize
  <2>1. Len(buffer[c]) \in Nat /\ BufSize \in Nat /\ Len(buffer[c]) <= BufSize
    BY Typed DEF Small
  <2>2. QED BY <2>1
<1>2. \A s \in Errors(c) : s \in {"ok", "deleted", "other"} /\ (s # "ok" => peer[c] = "reset")
  BY DEF Errors
<1>3. \A n \in Sizes(c) : n \in 0..BufSize
  BY IocpAssumption DEF Sizes
<1>5. CASE AcceptCompletes(c)
  <2>1. PICK s \in {"ok"} \cup Errors(c) : Post("listen", c, "accept", s, 0)
    BY <1>5 DEF AcceptCompletes
  <2>2. s \in {"ok", "deleted", "other"} /\ (s # "ok" => peer[c] = "reset")
    BY <2>1, <1>2
  <2>3. QED BY <1>1, <1>5, <2>1, <2>2 DEF AcceptCompletes
<1>6. CASE RecvCompletes(c)
  <2>1. PICK s \in {"ok"} \cup Errors(c), n \in 0..BufSize : Post("conn", c, "recv", s, n)
    BY <1>1, <1>3, <1>6 DEF RecvCompletes
  <2>2. s \in {"ok", "deleted", "other"} /\ (s # "ok" => peer[c] = "reset")
    BY <2>1, <1>2
  <2>3. op[c] = "recv" /\ accept' = accept
    BY <1>6 DEF RecvCompletes
  <2>4. QED BY <1>6, <2>1, <2>2, <2>3
<1>7. CASE SendCompletes(c)
  <2>1. PICK s \in {"ok"} \cup Errors(c), n \in 0..BufSize : Post("conn", c, "send", s, n)
    <3>1. CASE Post("conn", c, "send", "ok", Len(buffer[c]))
      BY <1>1, <3>1
    <3>2. CASE \E s \in Errors(c) : Post("conn", c, "send", s, 0)
      BY <1>1, <3>2
    <3>3. QED BY <1>7, <3>1, <3>2 DEF SendCompletes
  <2>2. s \in {"ok", "deleted", "other"} /\ (s # "ok" => peer[c] = "reset")
    BY <2>1, <1>2
  <2>3. op[c] = "send" /\ accept' = accept
    BY <1>7 DEF SendCompletes
  <2>4. QED BY <1>7, <2>1, <2>2, <2>3
<1>8. QED BY <1>5, <1>6, <1>7

\* The packet a connection's place on the port is about.
LEMMA TakenPlace ==
  ASSUME TypeOK, NEW k \in {"listen", "conn"}, NEW o, Taken(k, o)
  PROVE  \A d \in Clients :
           IF k = "conn" /\ d = Head(port).from
             THEN /\ ~NoneOf(port, "conn", {d})
                  /\ OneOf(port, "conn", {d}) => NoneOf(port', "conn", {d})
             ELSE /\ NoneOf(port, "conn", {d}) => NoneOf(port', "conn", {d})
                  /\ OneOf(port, "conn", {d}) => OneOf(port', "conn", {d})
BY Goes

\* Every step keeps one operation for every live connection.
LEMMA StepOperations ==
  ASSUME TypeOK, Small, Operations, PortHonest, [Next]_vars
  PROVE  Operations'
<1>1. ASSUME UNCHANGED <<up, conn, op, port>> PROVE Operations'
  BY <1>1 DEF Operations
<1>2. ASSUME NEW c \in Clients,
             Connect(c) \/ ClientSend(c) \/ ClientRead(c) \/ Leave(c) \/ Reset(c) \/ CloseResets(c)
      PROVE  Operations'
  BY <1>1, <1>2 DEF Connect, ClientSend, ClientRead, Leave, Reset, CloseResets, server
<1>3. ASSUME NEW c \in Clients, AcceptCompletes(c) PROVE Operations'
  <2>1. PICK s \in {"ok"} \cup Errors(c) : Post("listen", c, "accept", s, 0)
    BY <1>3 DEF AcceptCompletes
  <2>2. s \in {"ok", "deleted", "other"} /\ 0 \in 0..BufSize
    BY <2>1, IocpAssumption DEF Errors
  <2>3. \A d \in Clients : /\ NoneOf(port, "conn", {d}) => NoneOf(port', "conn", {d})
                           /\ OneOf(port, "conn", {d}) => OneOf(port', "conn", {d})
    BY <2>1, <2>2, Joins
  <2>4. UNCHANGED <<up, conn, op>>
    BY <1>3 DEF AcceptCompletes
  <2>5. QED BY <2>3, <2>4 DEF Operations
<1>4. ASSUME NEW c \in Clients, RecvCompletes(c) \/ SendCompletes(c) PROVE Operations'
  <2>1. PICK k \in {"listen", "conn"}, o \in {"accept", "recv", "send"},
             s \in {"ok", "deleted", "other"}, n \in 0..BufSize : Completion(c, k, o, s, n)
    BY <1>4, Completed, Zenon
  <2>2. \A d \in Clients : IF d = c
                             THEN NoneOf(port, "conn", {d}) => OneOf(port', "conn", {d})
                             ELSE /\ NoneOf(port, "conn", {d}) => NoneOf(port', "conn", {d})
                                  /\ OneOf(port, "conn", {d}) => OneOf(port', "conn", {d})
    <3>1. k = "conn" /\ Post(k, c, o, s, n)
      BY <1>4, <2>1 DEF Completion, AcceptCompletes, RecvCompletes, SendCompletes
    <3>2. QED BY <3>1, Joins
  <2>3. /\ up /\ op[c] # "none" /\ op' = [op EXCEPT ![c] = "none"]
        /\ UNCHANGED <<up, conn>> /\ DOMAIN op = Clients
    BY <1>4 DEF RecvCompletes, SendCompletes, TypeOK
  <2>4. conn[c] = "live" /\ NoneOf(port, "conn", {c})
    BY <2>3 DEF Operations
  <2>5. op'[c] = "none" /\ \A d \in Clients \ {c} : op'[d] = op[d]
    BY <2>3
  <2>6. QED BY <2>2, <2>3, <2>4, <2>5 DEF Operations
<1> DEFINE f == Head(port).from
<1>5. CASE NewConnection
  <2>1. /\ Taken("listen", "accept") /\ f \in Clients /\ Head(port) \in Queued(port)
        /\ Head(port).key = "listen" /\ up
    BY <1>5, TakenFrom DEF NewConnection
  <2>2. conn[f] = "none"
    BY <2>1 DEF PortHonest, Honest
  <2>3. \A d \in Clients : /\ NoneOf(port, "conn", {d}) => NoneOf(port', "conn", {d})
                           /\ OneOf(port, "conn", {d}) => OneOf(port', "conn", {d})
    BY <2>1, TakenPlace
  <2>4. op[f] = "none" /\ NoneOf(port', "conn", {f})
    BY <2>1, <2>2, <2>3 DEF Operations
  <2>5. DOMAIN conn = Clients /\ DOMAIN op = Clients
    BY DEF TypeOK
  <2>6. CASE conn' = [conn EXCEPT ![f] = "live"] /\ op' = [op EXCEPT ![f] = "recv"] /\ up' = up
    <3>1. /\ conn'[f] = "live" /\ op'[f] = "recv"
          /\ \A d \in Clients \ {f} : conn'[d] = conn[d] /\ op'[d] = op[d]
      BY <2>1, <2>5, <2>6
    <3>2. QED BY <2>1, <2>3, <2>4, <3>1 DEF Operations
  <2>7. CASE conn' = [conn EXCEPT ![f] = "lost"] /\ op' = op /\ up' = up
    <3>1. /\ conn'[f] = "lost" /\ op'[f] = "none"
          /\ \A d \in Clients \ {f} : conn'[d] = conn[d] /\ op'[d] = op[d]
      BY <2>1, <2>4, <2>5, <2>7
    <3>2. QED BY <2>1, <2>3, <2>4, <3>1 DEF Operations
  <2>8. CASE ~up'
    BY <2>8 DEF Operations
  <2>9. QED BY <1>5, <2>6, <2>7, <2>8 DEF NewConnection, Exits
<1>6. ASSUME NEW o \in {"accept", "recv", "send"}, Taken("conn", o),
             \/ connection_remove(f)
             \/ op' = [op EXCEPT ![f] = "send"] /\ UNCHANGED <<up, conn>>
             \/ ~up'
      PROVE  Operations'
  <2>1. f \in Clients /\ up
    BY <1>6, TakenFrom
  <2>2. \A d \in Clients :
          IF d = f
            THEN /\ ~NoneOf(port, "conn", {d})
                 /\ OneOf(port, "conn", {d}) => NoneOf(port', "conn", {d})
            ELSE /\ NoneOf(port, "conn", {d}) => NoneOf(port', "conn", {d})
                 /\ OneOf(port, "conn", {d}) => OneOf(port', "conn", {d})
    BY <1>6, TakenPlace
  <2>3. /\ conn[f] = "live" /\ op[f] = "none" /\ NoneOf(port', "conn", {f})
    BY <2>1, <2>2 DEF Operations
  <2>4. DOMAIN conn = Clients /\ DOMAIN op = Clients
    BY DEF TypeOK
  <2>5. CASE connection_remove(f)
    <3>1. /\ conn'[f] = "freed" /\ op'[f] = "none" /\ up'
          /\ \A d \in Clients \ {f} : conn'[d] = conn[d] /\ op'[d] = op[d]
      BY <2>1, <2>3, <2>4, <2>5 DEF connection_remove
    <3>2. QED BY <2>1, <2>2, <2>3, <3>1 DEF Operations
  <2>6. CASE op' = [op EXCEPT ![f] = "send"] /\ UNCHANGED <<up, conn>>
    <3>1. /\ conn'[f] = "live" /\ op'[f] = "send" /\ up'
          /\ \A d \in Clients \ {f} : conn'[d] = conn[d] /\ op'[d] = op[d]
      BY <2>1, <2>3, <2>4, <2>6
    <3>2. QED BY <2>1, <2>2, <2>3, <3>1 DEF Operations
  <2>7. CASE ~up'
    BY <2>7 DEF Operations
  <2>8. QED BY <1>6, <2>5, <2>6, <2>7
<1>7. CASE Received
  BY <1>6, <1>7 DEF Received, Exits, server
<1>8. CASE SendDone
  BY <1>6, <1>8 DEF SendDone
<1>9. CASE Failed
  <2>1. PICK k \in {"listen", "conn"}, o \in {"accept", "recv", "send"} : Taken(k, o)
    BY <1>9 DEF Failed
  <2>2. Head(port).key = k
    BY <2>1, TakenFrom
  <2>3. CASE k = "conn"
    BY <1>6, <1>9, <2>1, <2>2, <2>3 DEF Failed, Exits
  <2>4. CASE k = "listen"
    BY <1>9, <2>2, <2>4 DEF Failed, Exits, Operations
  <2>5. QED BY <2>3, <2>4
<1>10. CASE UNCHANGED vars
  BY <1>1, <1>10 DEF vars, server
<1>11. QED
  BY <1>2, <1>3, <1>4, <1>5, <1>7, <1>8, <1>9, <1>10 DEF Next

\* What every step does to the clients: a reset is for ever.
LEMMA ResetStays ==
  ASSUME TypeOK, [Next]_vars, NEW d \in Clients, peer[d] = "reset"
  PROVE  peer'[d] = "reset"
<1>1. peer' = peer => peer'[d] = "reset"
  OBVIOUS
<1>2. ASSUME NEW c \in Clients, Connect(c) \/ Leave(c) \/ Reset(c) PROVE peer'[d] = "reset"
  BY <1>2 DEF Connect, Leave, Reset, TypeOK
<1>3. QED
  BY <1>1, <1>2 DEF Next, ClientSend, ClientRead, CloseResets, AcceptCompletes, RecvCompletes,
     SendCompletes, NewConnection, Received, SendDone, Failed, vars, client

\* Every step keeps one accept at most, and loses it to a reset only.
LEMMA StepAccepts ==
  ASSUME TypeOK, Small, Accepts, PortHonest, [Next]_vars
  PROVE  Accepts'
<1>0. (\E d \in Clients : peer[d] = "reset") => \E d \in Clients : peer'[d] = "reset"
  BY ResetStays
<1>1. ASSUME UNCHANGED <<up, accept, port>> PROVE Accepts'
  BY <1>0, <1>1 DEF Accepts
<1>2. ASSUME NEW c \in Clients,
             Connect(c) \/ ClientSend(c) \/ ClientRead(c) \/ Leave(c) \/ Reset(c) \/ CloseResets(c)
      PROVE  Accepts'
  BY <1>1, <1>2 DEF Connect, ClientSend, ClientRead, Leave, Reset, CloseResets, server
<1>3. ASSUME NEW c \in Clients, AcceptCompletes(c) \/ RecvCompletes(c) \/ SendCompletes(c)
      PROVE  Accepts'
  <2>1. PICK k \in {"listen", "conn"}, o \in {"accept", "recv", "send"},
             s \in {"ok", "deleted", "other"}, n \in 0..BufSize : Completion(c, k, o, s, n)
    BY <1>3, Completed, Zenon
  <2>2. IF k = "listen"
          THEN NoneOf(port, "listen", Clients) => OneOf(port', "listen", Clients)
          ELSE /\ NoneOf(port, "listen", Clients) => NoneOf(port', "listen", Clients)
               /\ OneOf(port, "listen", Clients) => OneOf(port', "listen", Clients)
    BY <2>1, Joins DEF Completion
  <2>3. up' = up
    BY <1>3 DEF AcceptCompletes, RecvCompletes, SendCompletes
  <2>4. QED BY <1>0, <2>1, <2>2, <2>3 DEF Accepts, Completion
<1>4. ASSUME NEW k \in {"listen", "conn"}, NEW o, Taken(k, o)
      PROVE  IF k = "listen"
               THEN /\ ~NoneOf(port, "listen", Clients)
                    /\ OneOf(port, "listen", Clients) => NoneOf(port', "listen", Clients)
               ELSE /\ NoneOf(port, "listen", Clients) => NoneOf(port', "listen", Clients)
                    /\ OneOf(port, "listen", Clients) => OneOf(port', "listen", Clients)
  BY <1>4, Goes, TakenFrom
<1>5. CASE NewConnection
  <2>1. /\ Taken("listen", "accept") /\ up /\ Head(port).from \in Clients
    BY <1>5, TakenFrom DEF NewConnection
  <2>2. NoneOf(port', "listen", Clients) /\ ~accept
    BY <2>1, <1>4 DEF Accepts
  <2>3. \/ accept' = TRUE
        \/ ~up'
        \/ peer[Head(port).from] = "reset" /\ UNCHANGED accept
    BY <1>5 DEF NewConnection, Exits, create_iocp_accept
  <2>4. QED BY <1>0, <2>1, <2>2, <2>3 DEF Accepts
<1>6. ASSUME NEW o, Taken("conn", o), accept' = accept \/ ~up'
      PROVE  Accepts'
  <2>1. up
    BY <1>6, TakenFrom
  <2>2. QED BY <1>0, <1>4, <1>6, <2>1 DEF Accepts
<1>7. CASE Received
  BY <1>6, <1>7 DEF Received, Exits, server, connection_remove
<1>8. CASE SendDone
  BY <1>6, <1>8 DEF SendDone, connection_remove
<1>9. CASE Failed
  <2>1. PICK k \in {"listen", "conn"}, o \in {"accept", "recv", "send"} : Taken(k, o)
    BY <1>9 DEF Failed
  <2>2. Head(port).key = k
    BY <2>1, TakenFrom
  <2>3. CASE k = "conn"
    BY <1>6, <1>9, <2>1, <2>2, <2>3 DEF Failed, Exits, connection_remove
  <2>4. CASE k = "listen"
    BY <1>9, <2>2, <2>4 DEF Failed, Exits, Accepts
  <2>5. QED BY <2>3, <2>4
<1>10. CASE UNCHANGED vars
  BY <1>1, <1>10 DEF vars, server
<1>11. QED
  BY <1>2, <1>3, <1>5, <1>7, <1>8, <1>9, <1>10 DEF Next

\* What is true of a waiting packet stays true of it.
LEMMA StaysHonest ==
  ASSUME TypeOK, Operations, Accepts, PortHonest, [Next]_vars, NEW y \in Queued(port),
         y \in Queued(port')
  PROVE  Honest(y)'
<1>1. Honest(y)
  BY DEF PortHonest
<1>2. y \in Packet /\ y.from \in Clients
  <2>1. port \in Seq(Packet)
    BY DEF TypeOK
  <2>2. y \in Packet
    BY <2>1, LenProperties DEF Queued
  <2>3. QED BY <2>2 DEF Packet
<1> DEFINE c == y.from
<1>3. y.status # "ok" => peer'[c] = "reset"
  BY <1>1, <1>2, ResetStays DEF Honest
<1>4. y.key = "listen" /\ up' => conn'[c] = "none"
  <2>1. CASE conn' = conn /\ (up' => up)
    BY <1>1, <2>1 DEF Honest
  <2>2. CASE NewConnection
    <3>1. Taken("listen", "accept") /\ up
      BY <2>2, TakenFrom DEF NewConnection
    <3>2. ~NoneOf(port, "listen", Clients)
          /\ (OneOf(port, "listen", Clients) => NoneOf(port', "listen", Clients))
      <4>1. Head(port).from \in Clients
        BY <3>1, TakenFrom
      <4>2. QED BY <3>1, <4>1, Goes
    <3>3. NoneOf(port', "listen", Clients)
      BY <3>1, <3>2 DEF Accepts
    <3>4. ~Matches(y, "listen", Clients)
      BY <3>3, NoneQueued
    <3>5. QED BY <1>2, <3>4 DEF Matches
  <2>3. ASSUME NEW o, Taken("conn", o), connection_remove(Head(port).from)
        PROVE  y.key = "listen" /\ up' => conn'[c] = "none"
    <3>1. Head(port).from \in Clients /\ up
      BY <2>3, TakenFrom
    <3>2. ~NoneOf(port, "conn", {Head(port).from})
      BY <2>3, <3>1, TakenPlace
    <3>3. conn[Head(port).from] = "live"
      BY <3>1, <3>2 DEF Operations
    <3>4. c = Head(port).from \/ conn'[c] = conn[c]
      BY <1>2, <2>3 DEF connection_remove, TypeOK
    <3>5. QED BY <1>1, <3>1, <3>3, <3>4 DEF Honest
  <2>4. CASE Failed
    <3>1. PICK k \in {"listen", "conn"}, o \in {"accept", "recv", "send"} : Taken(k, o)
      BY <2>4 DEF Failed
    <3>2. Head(port).key = k
      BY <3>1, TakenFrom
    <3>3. QED BY <2>3, <2>4, <3>1, <3>2 DEF Failed, Exits
  <2>5. CASE Received
    BY <2>1, <2>3, <2>5 DEF Received, Exits, server
  <2>6. CASE SendDone
    BY <2>3, <2>6 DEF SendDone
  <2>7. QED
    BY <2>1, <2>2, <2>4, <2>5, <2>6 DEF Next, Connect, ClientSend, ClientRead, Leave, Reset,
       CloseResets, AcceptCompletes, RecvCompletes, SendCompletes, vars, server
<1>5. y.op = "recv" => echoed'[c] = << >> /\ toClient'[c] = << >>
  <2>1. CASE UNCHANGED <<echoed, toClient>>
    BY <1>1, <2>1 DEF Honest
  <2>2. ASSUME NEW d \in Clients, ClientRead(d), y.op = "recv"
        PROVE  echoed'[c] = << >> /\ toClient'[c] = << >>
    <3>1. d # c
      BY <1>1, <2>2 DEF Honest, ClientRead
    <3>2. echoed'[c] = echoed[c] /\ toClient'[c] = toClient[c]
      BY <1>2, <2>2, <3>1 DEF ClientRead, TypeOK
    <3>3. QED BY <1>1, <2>2, <3>2 DEF Honest
  <2>3. ASSUME NEW d \in Clients, CloseResets(d), y.op = "recv"
        PROVE  echoed'[c] = << >> /\ toClient'[c] = << >>
    <3>1. echoed' = echoed /\ toClient' = [toClient EXCEPT ![d] = << >>]
      BY <2>3 DEF CloseResets, client
    <3>2. toClient \in [Clients -> Seq(Data)]
      BY DEF TypeOK, Data
    <3>3. QED BY <1>1, <1>2, <2>3, <3>1, <3>2 DEF Honest
  <2>4. ASSUME NEW d \in Clients, SendCompletes(d), y.op = "recv"
        PROVE  echoed'[c] = << >> /\ toClient'[c] = << >>
    <3>1. up /\ op[d] = "send" /\ echoed' = echoed
      BY <2>4 DEF SendCompletes, client
    <3>2. NoneOf(port, "conn", {d})
      BY <3>1 DEF Operations
    <3>3. ~Matches(y, "conn", {d})
      BY <3>2, NoneQueued
    <3>4. y.key = "conn"
      BY <1>1, <1>2, <2>4 DEF Honest, Packet
    <3>5. c # d
      BY <3>3, <3>4 DEF Matches
    <3>6. toClient'[c] = toClient[c]
      BY <1>2, <2>4, <3>5 DEF SendCompletes, TypeOK
    <3>7. QED BY <1>1, <2>4, <3>1, <3>6 DEF Honest
  <2>5. QED
    BY <2>1, <2>2, <2>3, <2>4 DEF Next, Connect, ClientSend, Leave, Reset, AcceptCompletes,
       RecvCompletes, NewConnection, Received, SendDone, Failed, vars, server, client
<1>6. QED BY <1>1, <1>3, <1>4, <1>5 DEF Honest

\* Every step keeps the packets honest.
LEMMA StepHonest ==
  ASSUME TypeOK, Small, IocpInv, [Next]_vars
  PROVE  PortHonest'
<1> USE DEF IocpInv
<1>1. ASSUME \A y \in Queued(port') : y \in Queued(port) PROVE PortHonest'
  BY <1>1, StaysHonest DEF PortHonest
<1>2. ASSUME NEW c \in Clients, AcceptCompletes(c) \/ RecvCompletes(c) \/ SendCompletes(c)
      PROVE  PortHonest'
  <2>1. PICK k \in {"listen", "conn"}, o \in {"accept", "recv", "send"},
             s \in {"ok", "deleted", "other"}, n \in 0..BufSize : Completion(c, k, o, s, n)
    BY <1>2, Completed, Zenon
  <2> DEFINE x == [key |-> k, from |-> c, op |-> o, status |-> s, bytes |-> n]
  <2>2. \A y \in Queued(port') : y \in Queued(port) \/ y = x
    BY <2>1, Joins DEF Completion
  <2>3. conn' = conn /\ peer' = peer
    BY <1>2 DEF AcceptCompletes, RecvCompletes, SendCompletes, client
  <2>4. o = "recv" => echoed'[c] = << >> /\ toClient'[c] = << >>
    <3>1. ASSUME o = "recv" PROVE echoed[c] = << >> /\ toClient[c] = << >> /\ op[c] = "recv"
      BY <2>1, <3>1 DEF Completion, Reply, ReplyTo
    <3>2. op[c] = "recv" => UNCHANGED <<toClient, echoed>>
      BY <1>2 DEF AcceptCompletes, RecvCompletes, SendCompletes, client
    <3>3. QED BY <3>1, <3>2
  <2>5. Honest(x)'
    BY <2>1, <2>3, <2>4 DEF Honest, Completion
  <2>6. QED BY <2>2, <2>5, StaysHonest DEF PortHonest
<1>3. ASSUME NEW k \in {"listen", "conn"}, NEW o, Taken(k, o) PROVE PortHonest'
  BY <1>1, <1>3, Goes
<1>4. QED
  BY <1>1, <1>2, <1>3 DEF Next, Connect, ClientSend, ClientRead, Leave, Reset, CloseResets,
     NewConnection, Received, SendDone, Failed, vars, server

\* Every step keeps to one reply.
LEMMA StepReply ==
  ASSUME TypeOK, Small, IocpInv, [Next]_vars, NEW c \in Clients
  PROVE  ReplyTo(c)'
<1>0. ReplyTo(c)
  BY DEF IocpInv, Reply
<1> DEFINE data == <<buffer[c], toServer[c], toClient[c], sent[c], echoed[c]>>
<1>1. ASSUME UNCHANGED data,
             conn'[c] = "none" \/ op'[c] = "recv" => conn[c] = "none" \/ op[c] = "recv",
             conn'[c] = "none" \/ op'[c] # "none" =>
               \/ conn[c] = "none" \/ op[c] # "none"
               \/ echoed[c] = << >> /\ toClient[c] = << >>
      PROVE  ReplyTo(c)'
  BY <1>0, <1>1 DEF ReplyTo
<1>2. /\ DOMAIN buffer = Clients /\ DOMAIN toServer = Clients /\ DOMAIN toClient = Clients
      /\ DOMAIN sent = Clients /\ DOMAIN echoed = Clients
      /\ DOMAIN conn = Clients /\ DOMAIN op = Clients
  BY DEF TypeOK
<1>3. /\ buffer[c] \in Seq(Data) /\ toServer[c] \in Seq(Data)
      /\ toClient[c] \in Seq(Data) /\ echoed[c] \in Seq(Data) /\ sent[c] \in Nat
      /\ Len(buffer[c]) \in Nat /\ Len(toServer[c]) \in Nat
      /\ Len(toClient[c]) \in Nat /\ Len(echoed[c]) \in Nat
  BY Typed
<1>4. ASSUME UNCHANGED <<buffer, toServer, toClient, sent, echoed, conn, op>>
      PROVE  ReplyTo(c)'
  BY <1>0, <1>4 DEF ReplyTo
<1>5. ASSUME NEW d \in Clients, Connect(d) \/ Leave(d) \/ Reset(d) \/ AcceptCompletes(d)
      PROVE  ReplyTo(c)'
  BY <1>4, <1>5 DEF Connect, Leave, Reset, AcceptCompletes, server, client
<1>6. ASSUME NEW d \in Clients, ClientSend(d) PROVE ReplyTo(c)'
  <2>1. CASE d # c
    BY <1>1, <1>2, <1>6, <2>1 DEF ClientSend, server
  <2>2. CASE d = c
    <3> DEFINE x == DataOf(c, sent[c] + 1)
               q == toServer[c]
               r == Append(q, x)
    <3>1. x \in Data
      BY <1>3 DEF DataOf, Data
    <3>2. /\ Len(r) = Len(q) + 1 /\ (\A i \in 1..Len(q) : r[i] = q[i])
          /\ r[Len(q) + 1] = x
      BY <1>3, <3>1, AppendProperties
    <3>3. /\ sent'[c] = sent[c] + 1 /\ toServer'[c] = r
          /\ UNCHANGED <<buffer, toClient, echoed, conn, op>>
      BY <1>2, <1>6, <2>2 DEF ClientSend, server, DataOf
    <3> HIDE DEF r, q
    <3>4. Len(q) = sent[c] /\ (\A i \in 1..sent[c] : q[i] = DataOf(c, i)) =>
            /\ Len(r) = sent[c] + 1
            /\ \A i \in 1..(sent[c] + 1) : r[i] = DataOf(c, i)
      BY <1>3, <3>2
    <3>5. /\ Len(buffer[c]) <= sent'[c]
          /\ Len(echoed[c]) + Len(toClient[c]) <= sent'[c]
      <4> DEFINE held == Len(buffer[c])
                 read == Len(echoed[c])
                 wait == Len(toClient[c])
                 m == sent[c]
      <4>1. held <= m /\ read + wait <= m
        BY <1>0 DEF ReplyTo
      <4>2. held \in Nat /\ read \in Nat /\ wait \in Nat /\ m \in Nat
        BY <1>3
      <4>3. sent'[c] = m + 1
        BY <3>3
      <4> HIDE DEF held, read, wait, m
      <4>4. held <= sent'[c] /\ read + wait <= sent'[c]
        BY <4>1, <4>2, <4>3
      <4>5. QED BY <4>4 DEF held, read, wait
    <3>6. conn[c] = "none" \/ op[c] = "recv" =>
            /\ Len(r) = sent'[c]
            /\ \A i \in 1..sent'[c] : r[i] = DataOf(c, i)
      BY <1>0, <3>3, <3>4 DEF ReplyTo, q
    <3>7. QED BY <1>0, <3>3, <3>5, <3>6 DEF ReplyTo
  <2>3. QED BY <2>1, <2>2
<1>7. ASSUME NEW d \in Clients, ClientRead(d) PROVE ReplyTo(c)'
  <2>1. CASE d # c
    BY <1>1, <1>2, <1>7, <2>1 DEF ClientRead, server
  <2>2. CASE d = c
    <3> DEFINE q == toClient[c]
               e == echoed[c]
               r == Tail(q)
               f == Append(e, Head(q))
    <3>1. q # << >> /\ q \in Seq(Data) /\ e \in Seq(Data)
      BY <1>3, <1>7, <2>2 DEF ClientRead
    <3>2. /\ Len(r) = Len(q) - 1 /\ Head(q) \in Data
          /\ \A i \in 1..Len(r) : r[i] = q[i + 1]
      BY <3>1, HeadTailProperties
    <3>3. Head(q) = q[1] /\ Len(q) \in Nat \ {0}
      BY <3>1, EmptySeq
    <3>4. /\ Len(f) = Len(e) + 1 /\ (\A i \in 1..Len(e) : f[i] = e[i])
          /\ f[Len(e) + 1] = q[1]
      BY <3>1, <3>2, <3>3, AppendProperties
    <3>5. /\ toClient'[c] = r /\ echoed'[c] = f
          /\ UNCHANGED <<buffer, toServer, sent, conn, op>>
      BY <1>2, <1>7, <2>2 DEF ClientRead, server
    <3>6. ~(conn[c] = "none" \/ op[c] # "none")
      BY <1>0, <3>1 DEF ReplyTo
    <3>7. /\ Len(e) + Len(q) <= sent[c]
          /\ \A i \in 1..Len(e) : e[i] = DataOf(c, i)
          /\ \A i \in 1..Len(q) : q[i] = DataOf(c, Len(e) + i)
      BY <1>0 DEF ReplyTo
    <3>8. Len(e) \in Nat
      BY <1>3
    <3> HIDE DEF r, q, e, f
    <3>9. Len(f) + Len(r) <= sent[c]
      BY <1>3, <3>2, <3>3, <3>4, <3>7, <3>8
    <3>10. \A i \in 1..Len(f) : f[i] = DataOf(c, i)
      BY <3>3, <3>4, <3>7, <3>8
    <3>11. \A i \in 1..Len(r) : r[i] = DataOf(c, Len(f) + i)
      <4> SUFFICES ASSUME NEW i \in 1..Len(r) PROVE r[i] = DataOf(c, Len(f) + i)
        OBVIOUS
      <4>1. r[i] = q[i + 1] /\ i + 1 \in 1..Len(q) /\ i \in Nat
        BY <3>2, <3>3
      <4>2. q[i + 1] = DataOf(c, Len(e) + (i + 1))
        BY <3>7, <4>1
      <4>3. Len(e) + (i + 1) = Len(f) + i
        BY <3>4, <3>8, <4>1
      <4>4. QED BY <4>1, <4>2, <4>3
    <3>12. QED BY <1>0, <3>5, <3>6, <3>9, <3>10, <3>11 DEF ReplyTo
  <2>3. QED BY <2>1, <2>2
<1>8. ASSUME NEW d \in Clients, CloseResets(d) PROVE ReplyTo(c)'
  <2>1. CASE d # c
    BY <1>1, <1>2, <1>8, <2>1 DEF CloseResets, server, client
  <2>2. CASE d = c
    <3>1. /\ toClient'[c] = << >> /\ UNCHANGED <<buffer, toServer, sent, echoed, conn, op>>
      BY <1>2, <1>8, <2>2 DEF CloseResets, server, client
    <3>2. Len(<< >>) = 0 /\ 1..0 = {}
      BY EmptySeq
    <3>3. Len(echoed[c]) + 0 <= sent[c]
      <4> DEFINE e == Len(echoed[c])
                 q == Len(toClient[c])
                 m == sent[c]
      <4>1. e + q <= m
        BY <1>0 DEF ReplyTo
      <4>2. e \in Nat /\ q \in Nat /\ m \in Nat
        BY <1>3
      <4> HIDE DEF e, q, m
      <4>3. e + 0 <= m
        BY <4>1, <4>2
      <4>4. QED BY <4>3 DEF e, m
    <3>4. QED BY <1>0, <3>1, <3>2, <3>3 DEF ReplyTo
  <2>3. QED BY <2>1, <2>2
<1>9. ASSUME NEW d \in Clients, RecvCompletes(d) PROVE ReplyTo(c)'
  <2>1. CASE d # c
    BY <1>1, <1>2, <1>9, <2>1 DEF RecvCompletes, client
  <2>2. CASE d = c
    <3>1. up /\ op[c] = "recv" /\ op'[c] = "none" /\ UNCHANGED <<conn, toClient, sent, echoed>>
      BY <1>2, <1>9, <2>2 DEF RecvCompletes, client
    <3>2. conn[c] # "none"
      BY <3>1 DEF IocpInv, Operations
    <3>3. CASE UNCHANGED buffer
      BY <1>0, <3>1, <3>2, <3>3 DEF ReplyTo
    <3>4. CASE \E n \in Sizes(c) : buffer' = [buffer EXCEPT ![c] = SubSeq(toServer[c], 1, n)]
      <4> DEFINE q == toServer[c]
      <4>1. PICK n \in Sizes(c) : buffer' = [buffer EXCEPT ![c] = SubSeq(toServer[c], 1, n)]
        BY <3>4
      <4>2. n \in 1..BufSize /\ n <= Len(q) /\ BufSize \in Nat
        BY <4>1, Typed DEF Sizes
      <4>3. n \in 1..Len(q)
        BY <1>3, <4>2
      <4>4. /\ Len(SubSeq(q, 1, n)) = n /\ \A i \in 1..n : SubSeq(q, 1, n)[i] = q[i]
        BY <1>3, <4>3, PrefixTaken
      <4>5. buffer'[c] = SubSeq(q, 1, n)
        BY <1>2, <4>1
      <4>6. Len(q) = sent[c] /\ \A i \in 1..sent[c] : q[i] = DataOf(c, i)
        BY <1>0, <3>1 DEF ReplyTo
      <4> HIDE DEF q
      <4>7. n <= sent[c] /\ \A i \in 1..n : SubSeq(q, 1, n)[i] = DataOf(c, i)
        BY <1>3, <4>3, <4>4, <4>6
      <4>8. Len(buffer'[c]) <= sent[c] /\ \A i \in 1..Len(buffer'[c]) : buffer'[c][i] = DataOf(c, i)
        BY <4>4, <4>5, <4>7
      <4>9. QED BY <1>0, <3>1, <3>2, <4>8 DEF ReplyTo
    <3>5. QED BY <1>9, <2>2, <3>3, <3>4 DEF RecvCompletes
  <2>3. QED BY <2>1, <2>2
<1>10. ASSUME NEW d \in Clients, SendCompletes(d) PROVE ReplyTo(c)'
  <2>1. CASE d # c
    BY <1>1, <1>2, <1>10, <2>1 DEF SendCompletes, client
  <2>2. CASE d = c
    <3>1. /\ up /\ op[c] = "send" /\ op'[c] = "none"
          /\ UNCHANGED <<conn, buffer, toServer, sent, echoed>>
      BY <1>2, <1>10, <2>2 DEF SendCompletes, client
    <3>2. conn[c] # "none"
      BY <3>1 DEF IocpInv, Operations
    <3>3. echoed[c] = << >> /\ toClient[c] = << >>
      BY <1>0, <3>1 DEF ReplyTo
    <3>4. CASE UNCHANGED toClient
      BY <1>0, <3>1, <3>2, <3>4 DEF ReplyTo
    <3>5. CASE toClient' = [toClient EXCEPT ![c] = @ \o buffer[c]]
      <4>1. toClient'[c] = << >> \o buffer[c]
        BY <1>2, <3>3, <3>5
      <4>2. toClient'[c] = buffer[c]
        BY <1>3, <4>1, ConcatEmptySeq
      <4>3. Len(echoed[c]) = 0
        BY <3>3, EmptySeq
      <4>4. \A i \in 1..Len(buffer[c]) : 0 + i = i
        BY <1>3
      <4>5. QED BY <1>0, <1>3, <3>1, <3>2, <4>2, <4>3, <4>4 DEF ReplyTo
    <3>6. QED BY <1>10, <2>2, <3>4, <3>5 DEF SendCompletes
  <2>3. QED BY <2>1, <2>2
<1> DEFINE f == Head(port).from
<1>11. ASSUME connection_remove(f), f \in Clients, UNCHANGED <<toServer, toClient, client>>
       PROVE  ReplyTo(c)'
  <2>1. conn'[c] = "none" => conn[c] = "none"
    BY <1>2, <1>11 DEF connection_remove
  <2>2. QED BY <1>1, <1>11, <2>1 DEF connection_remove, client
<1>12. ASSUME Exits, UNCHANGED <<toServer, toClient, client>>
       PROVE  ReplyTo(c)'
  BY <1>4, <1>12 DEF Exits, client
<1>13. CASE NewConnection
  <2>1. Taken("listen", "accept") /\ UNCHANGED <<toServer, toClient, client>>
    BY <1>13 DEF NewConnection
  <2>2. f \in Clients /\ Head(port) \in Queued(port) /\ Head(port).key = "listen" /\ up
    BY <2>1, TakenFrom
  <2>3. conn[f] = "none"
    BY <2>2 DEF IocpInv, PortHonest, Honest
  <2>4. CASE conn' = [conn EXCEPT ![f] = "live"] /\ op' = [op EXCEPT ![f] = "recv"]
             /\ UNCHANGED buffer
    BY <1>1, <1>2, <2>1, <2>2, <2>3, <2>4 DEF client
  <2>5. CASE conn' = [conn EXCEPT ![f] = "lost"] /\ UNCHANGED <<op, buffer>>
    BY <1>1, <1>2, <2>1, <2>2, <2>5 DEF client
  <2>6. QED BY <1>12, <1>13, <2>1, <2>4, <2>5 DEF NewConnection
<1>14. CASE Received
  <2>1. Taken("conn", "recv") /\ UNCHANGED <<toServer, toClient, client>>
    BY <1>14 DEF Received
  <2>2. /\ f \in Clients /\ Head(port) \in Queued(port) /\ Head(port).op = "recv" /\ up
        /\ Head(port).key = "conn"
    BY <2>1, TakenFrom
  <2>3. echoed[f] = << >> /\ toClient[f] = << >>
    BY <2>2 DEF IocpInv, PortHonest, Honest
  <2>4. CASE op' = [op EXCEPT ![f] = "send"] /\ UNCHANGED server
    <3>1. c # f => op'[c] = op[c]
      BY <1>2, <2>4
    <3>2. op'[f] = "send"
      BY <1>2, <2>2, <2>4
    <3>3. conn'[c] = "none" \/ op'[c] # "none" =>
               \/ conn[c] = "none" \/ op[c] # "none"
               \/ echoed[c] = << >> /\ toClient[c] = << >>
      BY <2>3, <2>4, <3>1 DEF server
    <3>4. conn'[c] = "none" \/ op'[c] = "recv" => conn[c] = "none" \/ op[c] = "recv"
      BY <2>4, <3>1, <3>2 DEF server
    <3>5. QED BY <1>1, <2>1, <2>4, <3>3, <3>4 DEF server, client
  <2>5. QED BY <1>11, <1>12, <1>14, <2>1, <2>2, <2>4 DEF Received
<1>15. CASE SendDone
  <2>1. Taken("conn", "send") /\ UNCHANGED <<toServer, toClient, client>>
    BY <1>15 DEF SendDone
  <2>2. QED BY <1>11, <1>15, <2>1, TakenFrom DEF SendDone
<1>16. CASE Failed
  <2>1. PICK k \in {"listen", "conn"}, o \in {"accept", "recv", "send"} : Taken(k, o)
    BY <1>16 DEF Failed
  <2>2. f \in Clients
    BY <2>1, TakenFrom
  <2>3. QED BY <1>11, <1>12, <1>16, <2>2 DEF Failed
<1>17. CASE UNCHANGED vars
  BY <1>4, <1>17 DEF vars, server, client
<1>18. QED
  BY <1>5, <1>6, <1>7, <1>8, <1>9, <1>10, <1>13, <1>14, <1>15, <1>16, <1>17 DEF Next
-------------------------------------------------------------------------------
\* The server starts with nothing on its port, and no replies.
LEMMA InitSound == Init => IocpInv
<1> SUFFICES ASSUME Init PROVE IocpInv
  OBVIOUS
<1>1. port = << >> /\ DOMAIN << >> = {} /\ Len(<< >>) = 0 /\ 1..0 = {}
  BY EmptySeq DEF Init
<1>2. \A k, F : NoneOf(port, k, F)
  BY <1>1 DEF NoneOf, At
<1>3. Operations /\ Accepts
  BY <1>2 DEF Init, Operations, Accepts
<1>4. PortHonest
  BY <1>1 DEF PortHonest, Queued
<1>5. Reply
  BY <1>1 DEF Init, Reply, ReplyTo
<1>6. QED BY <1>3, <1>4, <1>5 DEF IocpInv

\* The invariant is inductive.
LEMMA IocpSound == Spec => [](TypeOK /\ Small /\ IocpInv)
<1>1. Init => TypeOK /\ Small /\ IocpInv
  BY InitTyped, InitSound
<1>2. TypeOK /\ Small /\ IocpInv /\ [Next]_vars => (TypeOK /\ Small /\ IocpInv)'
  <2> SUFFICES ASSUME TypeOK, Small, IocpInv, [Next]_vars
               PROVE  (TypeOK /\ Small /\ IocpInv)'
    OBVIOUS
  <2>1. TypeOK' /\ Small'
    BY StepTyped
  <2>2. Operations /\ Accepts /\ PortHonest
    BY DEF IocpInv
  <2>3. Operations' /\ Accepts'
    BY <2>2, StepOperations, StepAccepts
  <2>4. PortHonest'
    BY StepHonest
  <2>5. Reply'
    BY StepReply DEF Reply
  <2>6. QED BY <2>1, <2>3, <2>4, <2>5 DEF IocpInv
<1>3. QED BY <1>1, <1>2, PTL DEF Spec

\* Every variable of the server, of Windows and of the clients has its type.
THEOREM IocpTyped == Spec => []TypeOK
<1>1. TypeOK /\ Small /\ IocpInv => TypeOK
  OBVIOUS
<1>2. QED BY <1>1, IocpSound, PTL

\* A live connection has one operation or one packet, a removed one neither: no packet's key points
\* to freed memory (iocp_echo_server.c:186-191, 297-307, 345-348).
THEOREM NoDanglingKey == Spec => []OneOperation
<1>1. TypeOK /\ Small /\ IocpInv => OneOperation
  <2> SUFFICES ASSUME TypeOK, Operations, up, NEW c \in Clients
               PROVE  IF conn[c] = "live"
                        THEN \/ op[c] # "none" /\ PacketsOf(c) = {}
                             \/ op[c] = "none" /\ \E i \in DOMAIN port : PacketsOf(c) = {i}
                        ELSE op[c] = "none" /\ PacketsOf(c) = {}
    BY DEF IocpInv, OneOperation
  <2>1. PacketsOf(c) = At(port, "conn", {c})
    BY DEF PacketsOf, At
  <2>2. QED BY <2>1 DEF Operations, NoneOf, OneOf
<1>2. QED BY <1>1, IocpSound, PTL

\* There is one AcceptEx at a time, and always one as long as no client resets its connection
\* (iocp_echo_server.c:226-290).
THEOREM AcceptsOne == Spec => []OneAccept
<1>1. TypeOK /\ Small /\ IocpInv => OneAccept
  <2> SUFFICES ASSUME TypeOK, Accepts PROVE OneAccept
    BY DEF IocpInv
  <2>1. \A i \in DOMAIN port : port[i].from \in Clients
    <3>1. port \in Seq(Packet)
      BY DEF TypeOK
    <3>2. \A i \in DOMAIN port : port[i] \in Packet
      BY <3>1, LenProperties
    <3>3. QED BY <3>2 DEF Packet
  <2>2. AcceptPackets = At(port, "listen", Clients)
    BY <2>1 DEF AcceptPackets, At
  <2>3. QED BY <2>2 DEF OneAccept, Accepts, NoneOf, OneOf
<1>2. QED BY <1>1, IocpSound, PTL

\* The reply is the beginning of what the client sent, whatever completes when and whichever
\* connections are reset (iocp_echo_server.c:118-220).
THEOREM RepliesInOrder == Spec => []EchoIsPrefix
<1>1. TypeOK /\ Small /\ IocpInv => EchoIsPrefix
  <2> SUFFICES ASSUME TypeOK, Reply, NEW c \in Clients,
                      NEW i \in DOMAIN (echoed[c] \o toClient[c])
               PROVE  /\ i <= sent[c]
                      /\ (echoed[c] \o toClient[c])[i] = [from |-> c, no |-> i]
    BY DEF IocpInv, EchoIsPrefix
  <2> DEFINE e == echoed[c]
             q == toClient[c]
  <2>1. e \in Seq(Data) /\ q \in Seq(Data) /\ Len(e) \in Nat /\ Len(q) \in Nat /\ sent[c] \in Nat
    BY Typed
  <2>2. /\ e \o q \in Seq(Data) /\ Len(e \o q) = Len(e) + Len(q)
        /\ \A j \in 1..(Len(e) + Len(q)) :
             (e \o q)[j] = IF j <= Len(e) THEN e[j] ELSE q[j - Len(e)]
    BY <2>1, ConcatProperties
  <2>3. DOMAIN (e \o q) = 1..(Len(e) + Len(q))
    BY <2>2, LenProperties
  <2>4. /\ Len(e) + Len(q) <= sent[c]
        /\ \A j \in 1..Len(e) : e[j] = DataOf(c, j)
        /\ \A j \in 1..Len(q) : q[j] = DataOf(c, Len(e) + j)
    BY DEF Reply, ReplyTo
  <2>5. i \in 1..(Len(e) + Len(q)) /\ (e \o q)[i] = IF i <= Len(e) THEN e[i] ELSE q[i - Len(e)]
    BY <2>2, <2>3
  <2> HIDE DEF e, q
  <2>6. i <= sent[c] /\ i \in Nat
    BY <2>1, <2>4, <2>5
  <2>7. (e \o q)[i] = DataOf(c, i)
    <3>1. CASE i <= Len(e)
      BY <2>1, <2>4, <2>5, <3>1
    <3>2. CASE i > Len(e)
      <4>1. i - Len(e) \in 1..Len(q) /\ Len(e) + (i - Len(e)) = i /\ ~(i <= Len(e))
        BY <2>1, <2>5, <3>2
      <4>2. QED BY <2>4, <2>5, <4>1
    <3> DEFINE k == Len(e)
    <3>3. k \in Nat /\ i \in Nat
      BY <2>1, <2>6 DEF e
    <3> HIDE DEF k
    <3>4. i <= k \/ i > k
      BY <3>3
    <3>5. QED BY <3>1, <3>2, <3>4 DEF k
  <2>8. QED BY <2>6, <2>7 DEF DataOf, e, q
<1>2. QED BY <1>1, IocpSound, PTL

\* The server is down only after a reset.
LEMMA StepDown ==
  ASSUME TypeOK, IocpInv, DownOnlyByReset, [Next]_vars
  PROVE  DownOnlyByReset'
<1>1. (\E d \in Clients : peer[d] = "reset") => \E d \in Clients : peer'[d] = "reset"
  BY ResetStays
<1>2. CASE up' = up
  BY <1>1, <1>2 DEF DownOnlyByReset
<1> DEFINE f == Head(port).from
<1>3. CASE NewConnection
  <2>1. f \in Clients
    BY <1>3, TakenFrom DEF NewConnection
  <2>2. up' = up \/ peer[f] = "reset"
    BY <1>3 DEF NewConnection
  <2>3. QED BY <1>1, <1>2, <2>1, <2>2 DEF DownOnlyByReset
<1>4. CASE Received
  <2>1. f \in Clients
    BY <1>4, TakenFrom DEF Received
  <2>2. up' = up \/ peer[f] = "reset"
    BY <1>4 DEF Received, connection_remove, server
  <2>3. QED BY <1>1, <1>2, <2>1, <2>2 DEF DownOnlyByReset
<1>5. CASE Failed
  <2>1. PICK k \in {"listen", "conn"}, o \in {"accept", "recv", "send"} : Taken(k, o)
    BY <1>5 DEF Failed
  <2>2. f \in Clients /\ Head(port) \in Queued(port)
    BY <2>1, TakenFrom
  <2>3. Head(port).status # "ok"
    BY <1>5 DEF Failed
  <2>4. peer[f] = "reset"
    BY <2>2, <2>3 DEF IocpInv, PortHonest, Honest
  <2>5. QED BY <1>1, <2>2, <2>4 DEF DownOnlyByReset
<1>6. QED
  BY <1>2, <1>3, <1>4, <1>5 DEF Next, Connect, ClientSend, ClientRead, Leave, Reset, CloseResets,
     AcceptCompletes, RecvCompletes, SendCompletes, SendDone, connection_remove, vars, server

\* The server only ends after a client has reset its connection (iocp_echo_server.c:153, 177, 267,
\* 345-349).
THEOREM OnlyResetsEndIt == Spec => []DownOnlyByReset
<1>1. Init => DownOnlyByReset
  BY DEF Init, DownOnlyByReset
<1>2. (TypeOK /\ Small /\ IocpInv) /\ DownOnlyByReset /\ [Next]_vars => DownOnlyByReset'
  BY StepDown
<1>3. QED BY <1>1, <1>2, IocpSound, PTL DEF Spec
-------------------------------------------------------------------------------
\* A packet says that data were received, and the server holds data.
Waiting(c) ==
  \E y \in Queued(port) : y.key = "conn" /\ y.from = c /\ y.op = "recv" /\ y.bytes > 0
Holds(c) == op[c] = "send" \/ Waiting(c)

\* What the server holds, in terms of the packets.
LEMMA Held ==
  ASSUME NEW c \in Clients
  PROVE  /\ Unsent(c) = IF Holds(c) THEN buffer[c] ELSE << >>
         /\ Unsent(c)' = IF Holds(c)' THEN buffer'[c] ELSE << >>
<1>1. Holds(c) <=> \/ op[c] = "send"
                   \/ \E i \in PacketsOf(c) : port[i].op = "recv" /\ port[i].bytes > 0
  BY DEF Holds, Waiting, Queued, PacketsOf
<1>2. Holds(c)' <=> (\/ op[c] = "send"
                     \/ \E i \in PacketsOf(c) : port[i].op = "recv" /\ port[i].bytes > 0)'
  BY DEF Holds, Waiting, Queued, PacketsOf
<1>3. QED BY <1>1, <1>2 DEF Unsent

\* An operation in hand has no packet yet.
LEMMA InHand ==
  ASSUME Operations, up, NEW c \in Clients, op[c] # "none"
  PROVE  ~Waiting(c)
<1>1. NoneOf(port, "conn", {c})
  BY DEF Operations
<1>2. \A y \in Queued(port) : ~(y.key = "conn" /\ y.from = c)
  BY <1>1, NoneQueued DEF Matches
<1>3. QED BY <1>2 DEF Waiting

\* The oldest packet is the only one that leaves the port.
LEMMA OthersWait ==
  ASSUME NEW q \in Seq(Packet), q # << >>
  PROVE  \A y \in Queued(q) : y = Head(q) \/ y \in Queued(Tail(q))
<1> DEFINE r == Tail(q)
<1>1. /\ r \in Seq(Packet) /\ Len(r) = Len(q) - 1
      /\ \A i \in 1..Len(r) : r[i] = q[i + 1]
  BY HeadTailProperties
<1>2. /\ Len(q) \in Nat \ {0} /\ DOMAIN q = 1..Len(q) /\ DOMAIN r = 1..(Len(q) - 1)
  BY <1>1, LenProperties, EmptySeq
<1>3. Head(q) = q[1]
  OBVIOUS
<1> HIDE DEF r
<1>4. \A i \in DOMAIN q : i # 1 => i - 1 \in DOMAIN r /\ r[i - 1] = q[i]
  BY <1>1, <1>2
<1>5. \A y : y \in Queued(q) => y = Head(q) \/ y \in Queued(r)
  BY <1>3, <1>4 DEF Queued
<1>6. QED BY <1>5 DEF r

\* The six ways a step treats the data of a client.
Stays(c) == UNCHANGED <<echoed[c], toClient[c], Unsent(c), toServer[c], sent[c]>>
Reads(c) ==
  /\ toClient[c] # << >>
  /\ echoed'[c] = Append(echoed[c], Head(toClient[c])) /\ toClient'[c] = Tail(toClient[c])
  /\ UNCHANGED <<Unsent(c), toServer[c], sent[c]>>
Sends(c) ==
  /\ peer[c] = "connected" /\ sent'[c] = sent[c] + 1
  /\ toServer'[c] = Append(toServer[c], [from |-> c, no |-> sent[c] + 1])
  /\ UNCHANGED <<echoed[c], toClient[c], Unsent(c)>>
Receives(c) ==
  /\ \E n \in 1..Len(toServer[c]) :
       /\ Unsent(c)' = SubSeq(toServer[c], 1, n)
       /\ toServer'[c] = SubSeq(toServer[c], n + 1, Len(toServer[c]))
  /\ UNCHANGED <<echoed[c], toClient[c], sent[c]>>
Replies(c) ==
  /\ toClient'[c] = toClient[c] \o Unsent(c) /\ Unsent(c)' = << >>
  /\ UNCHANGED <<echoed[c], toServer[c], sent[c]>>
Drops(c) ==
  /\ Unsent(c)' = << >> /\ peer[c] \in {"gone", "reset"}
  /\ UNCHANGED <<echoed[c], toClient[c], toServer[c], sent[c]>>
Resets(c) ==
  /\ toServer[c] # << >> /\ toClient'[c] = << >>
  /\ UNCHANGED <<echoed[c], Unsent(c), toServer[c], sent[c]>>
Flow(c) == \/ Stays(c) \/ Reads(c) \/ Sends(c) \/ Receives(c) \/ Replies(c) \/ Drops(c)
           \/ Resets(c)

\* The data of a client whose queues, operation and packets a step leaves alone stay.
LEMMA Alone ==
  ASSUME NEW c \in Clients, UNCHANGED <<echoed[c], toClient[c], toServer[c], sent[c], buffer[c]>>,
         Holds(c)' <=> Holds(c)
  PROVE  Stays(c)
BY Held DEF Stays

\* What a new packet says about the data.
LEMMA Arrives ==
  ASSUME TypeOK, NEW k \in {"listen", "conn"}, NEW d \in Clients,
         NEW o \in {"accept", "recv", "send"}, NEW s \in {"ok", "deleted", "other"},
         NEW n \in 0..BufSize, Post(k, d, o, s, n)
  PROVE  \A c \in Clients :
           Waiting(c)' <=> Waiting(c) \/ (k = "conn" /\ d = c /\ o = "recv" /\ n > 0)
<1>1. PICK x \in Packet : /\ x = [key |-> k, from |-> d, op |-> o, status |-> s, bytes |-> n]
                          /\ port' = Append(port, x)
  BY Posted
<1>2. Queued(port') = Queued(port) \cup {x}
  BY <1>1, QueuedAppended DEF TypeOK
<1>3. x.key = k /\ x.from = d /\ x.op = o /\ x.bytes = n
  BY <1>1
<1>4. QED BY <1>2, <1>3 DEF Waiting

\* What a packet that is taken says about them.
LEMMA Departs ==
  ASSUME TypeOK, NEW k, NEW o, Taken(k, o)
  PROVE  \A c \in Clients :
           /\ Waiting(c)' => Waiting(c)
           /\ \/ Waiting(c) => Waiting(c)'
              \/ k = "conn" /\ o = "recv" /\ Head(port).from = c /\ Head(port).bytes > 0
<1>1. /\ port # << >> /\ port \in Seq(Packet) /\ port' = Tail(port)
      /\ Head(port).key = k /\ Head(port).op = o
  BY TakenFrom
<1>2. \A y \in Queued(port') : y \in Queued(port)
  BY <1>1, QueuedRemoved
<1>3. \A y \in Queued(port) : y = Head(port) \/ y \in Queued(port')
  BY <1>1, OthersWait
<1>4. QED BY <1>1, <1>2, <1>3 DEF Waiting

\* A receive or a send that completes treats the data of its client, and of no other.
LEMMA FlowsCompletion ==
  ASSUME TypeOK, Small, IocpInv, NEW d \in Clients,
         AcceptCompletes(d) \/ RecvCompletes(d) \/ SendCompletes(d), NEW c \in Clients
  PROVE  Flow(c) /\ (c # d => Stays(c))
<1> USE DEF Flow
<1>0. Operations
  BY DEF IocpInv
<1>1. /\ op \in [Clients -> {"none", "recv", "send"}]
      /\ {buffer, toServer, toClient} \subseteq [Clients -> Seq(Data)]
  BY DEF TypeOK, Data
<1>2. 0 \in 0..BufSize /\ Len(buffer[d]) \in 0..BufSize
  <2>1. Len(buffer[d]) \in Nat /\ BufSize \in Nat /\ Len(buffer[d]) <= BufSize
    BY Typed DEF Small
  <2>2. QED BY <2>1
<1>3. \A s \in Errors(d) : s \in {"ok", "deleted", "other"} /\ peer[d] = "reset"
  BY DEF Errors
<1>4. CASE AcceptCompletes(d)
  <2>1. PICK s \in {"ok"} \cup Errors(d) : Post("listen", d, "accept", s, 0)
    BY <1>4 DEF AcceptCompletes
  <2>2. Waiting(c)' <=> Waiting(c)
    BY <1>2, <1>3, <2>1, Arrives
  <2>3. UNCHANGED <<op, buffer, toServer, toClient, client>>
    BY <1>4 DEF AcceptCompletes
  <2>4. QED BY <2>2, <2>3, Alone DEF Holds, client
<1>5. CASE RecvCompletes(d)
  <2>1. /\ up /\ op[d] = "recv" /\ op' = [op EXCEPT ![d] = "none"]
        /\ UNCHANGED <<toClient, sent, echoed>>
    BY <1>5 DEF RecvCompletes, client
  <2>2. ~Waiting(d) /\ Unsent(d) = << >>
    BY <1>0, <2>1, InHand, Held DEF Holds
  <2>3. op'[c] = "send" <=> op[c] = "send"
    BY <1>1, <2>1
  <2>4. CASE \E n \in Sizes(d) :
               /\ Post("conn", d, "recv", "ok", n)
               /\ buffer' = [buffer EXCEPT ![d] = SubSeq(toServer[d], 1, n)]
               /\ toServer' = [toServer EXCEPT ![d] = SubSeq(@, n + 1, Len(@))]
    <3>1. PICK n \in Sizes(d) :
            /\ Post("conn", d, "recv", "ok", n)
            /\ buffer' = [buffer EXCEPT ![d] = SubSeq(toServer[d], 1, n)]
            /\ toServer' = [toServer EXCEPT ![d] = SubSeq(@, n + 1, Len(@))]
      BY <2>4
    <3>2. n \in 1..Len(toServer[d]) /\ n \in 0..BufSize /\ n > 0
      <4>1. Len(toServer[d]) \in Nat /\ BufSize \in Nat
        BY Typed
      <4>2. n \in 1..BufSize /\ n <= Len(toServer[d])
        BY DEF Sizes
      <4>3. QED BY <4>1, <4>2
    <3>3. Waiting(c)' <=> Waiting(c) \/ c = d
      BY <3>1, <3>2, Arrives
    <3>4. CASE c # d
      <4>1. UNCHANGED <<buffer[c], toServer[c]>>
        BY <1>1, <3>1, <3>4
      <4>2. Holds(c)' <=> Holds(c)
        BY <2>3, <3>3, <3>4 DEF Holds
      <4>3. QED BY <2>1, <4>1, <4>2, Alone
    <3>5. CASE c = d
      <4>1. /\ buffer'[d] = SubSeq(toServer[d], 1, n)
            /\ toServer'[d] = SubSeq(toServer[d], n + 1, Len(toServer[d]))
        BY <1>1, <3>1
      <4>2. Unsent(d)' = SubSeq(toServer[d], 1, n)
        BY <3>3, <3>5, <4>1, Held DEF Holds
      <4>3. QED BY <2>1, <3>2, <3>5, <4>1, <4>2 DEF Receives
    <3>6. QED BY <3>4, <3>5
  <2>5. CASE \E s \in {"ok"} \cup Errors(d) :
               Post("conn", d, "recv", s, 0) /\ UNCHANGED <<buffer, toServer>>
    <3>1. Waiting(c)' <=> Waiting(c)
      BY <1>2, <1>3, <2>5, Arrives
    <3>2. QED BY <2>1, <2>3, <2>5, <3>1, Alone DEF Holds
  <2>6. QED BY <1>5, <2>4, <2>5 DEF RecvCompletes
<1>6. CASE SendCompletes(d)
  <2>1. /\ up /\ op[d] = "send" /\ op' = [op EXCEPT ![d] = "none"]
        /\ UNCHANGED <<buffer, toServer, peer, sent, echoed>>
    BY <1>6 DEF SendCompletes, client
  <2>2. PICK s \in Errors(d) \cup {"ok"}, n \in 0..BufSize :
          /\ Post("conn", d, "send", s, n)
          /\ \/ toClient' = [toClient EXCEPT ![d] = @ \o buffer[d]]
             \/ s # "ok" /\ UNCHANGED toClient
    <3>1. CASE /\ Post("conn", d, "send", "ok", Len(buffer[d]))
               /\ toClient' = [toClient EXCEPT ![d] = @ \o buffer[d]]
      BY <1>2, <3>1
    <3>2. CASE (\E s \in Errors(d) : Post("conn", d, "send", s, 0)) /\ UNCHANGED toClient
      BY <1>2, <3>2 DEF Errors
    <3>3. QED BY <1>6, <3>1, <3>2 DEF SendCompletes
  <2>3. Waiting(c)' <=> Waiting(c)
    <3>1. s \in {"ok", "deleted", "other"}
      BY <1>3, <2>2
    <3>2. QED BY <2>2, <3>1, Arrives
  <2>4. CASE c # d
    <3>1. op'[c] = op[c] /\ toClient'[c] = toClient[c]
      BY <1>1, <2>1, <2>2, <2>4
    <3>2. QED BY <2>1, <2>3, <3>1, Alone DEF Holds
  <2>5. CASE c = d
    <3>1. ~Waiting(d) /\ Unsent(d) = buffer[d]
      BY <1>0, <2>1, InHand, Held DEF Holds
    <3>2. op'[d] = "none"
      BY <1>1, <2>1
    <3>3. Unsent(d)' = << >>
      BY <2>3, <2>5, <3>1, <3>2, Held DEF Holds
    <3>4. CASE toClient' = [toClient EXCEPT ![d] = @ \o buffer[d]]
      <4>1. toClient'[d] = toClient[d] \o Unsent(d)
        BY <1>1, <3>1, <3>4
      <4>2. QED BY <2>1, <2>5, <3>3, <4>1 DEF Replies
    <3>5. CASE s # "ok" /\ UNCHANGED toClient
      BY <1>3, <2>1, <2>2, <2>5, <3>3, <3>5 DEF Drops
    <3>6. QED BY <2>2, <3>4, <3>5
  <2>6. QED BY <2>4, <2>5
<1>7. QED BY <1>4, <1>5, <1>6

\* A handler treats the data of the client whose packet it has, and of no other.
LEMMA FlowsHandler ==
  ASSUME TypeOK, Small, IocpInv, NewConnection \/ Received \/ SendDone \/ Failed, NEW c \in Clients
  PROVE  Flow(c) /\ (c # Head(port).from => Stays(c))
<1> USE DEF Flow
<1> DEFINE f == Head(port).from
<1>1. op \in [Clients -> {"none", "recv", "send"}]
  BY DEF TypeOK
<1>2. ASSUME UNCHANGED <<buffer, toServer, toClient, client>>,
             op'[c] = "send" <=> op[c] = "send", Waiting(c)' <=> Waiting(c)
      PROVE  Stays(c)
  BY <1>2, Alone DEF Holds, client
<1>3. ASSUME UNCHANGED <<buffer, toServer, toClient, client, op>>,
             peer[c] = "reset", Waiting(c)' => Waiting(c)
      PROVE  Flow(c)
  <2>1. CASE Holds(c)' <=> Holds(c)
    BY <1>3, <2>1, Alone DEF client
  <2>2. CASE ~Holds(c)'
    <3>1. Unsent(c)' = << >>
      BY <2>2, Held
    <3>2. QED BY <1>3, <3>1 DEF Drops, client
  <2>3. QED BY <1>3, <2>1, <2>2 DEF Holds
<1>4. CASE NewConnection
  <2>1. /\ Taken("listen", "accept") /\ UNCHANGED <<buffer, toServer, toClient, client>>
        /\ op' = op \/ op' = [op EXCEPT ![f] = "recv"]
    BY <1>4 DEF NewConnection, Exits
  <2>2. f \in Clients /\ Head(port) \in Queued(port) /\ Head(port).key = "listen" /\ up
    BY <2>1, TakenFrom
  <2>3. conn[f] = "none"
    BY <2>2 DEF IocpInv, PortHonest, Honest
  <2>4. op[f] = "none"
    BY <2>2, <2>3 DEF IocpInv, Operations
  <2>5. op'[c] = "send" <=> op[c] = "send"
    BY <1>1, <2>1, <2>4
  <2>6. Waiting(c)' <=> Waiting(c)
    BY <2>1, Departs
  <2>7. QED BY <1>2, <2>1, <2>5, <2>6
<1>5. CASE Received
  <2>1. Taken("conn", "recv") /\ UNCHANGED <<buffer, toServer, toClient, client>>
    BY <1>5 DEF Received, connection_remove, Exits, server
  <2>2. /\ Waiting(c)' => Waiting(c)
        /\ (Waiting(c) => Waiting(c)') \/ (f = c /\ Head(port).bytes > 0)
    BY <2>1, Departs
  <2>3. /\ f \in Clients /\ Head(port) \in Queued(port) /\ Head(port).key = "conn"
        /\ Head(port).op = "recv" /\ Head(port) \in Packet
    BY <2>1, TakenFrom
  <2>4. CASE op' = op /\ Head(port).bytes = 0
    <3>1. ~(Head(port).bytes > 0)
      BY <2>4
    <3>2. QED BY <1>2, <2>1, <2>2, <2>4, <3>1
  <2>5. CASE op' = [op EXCEPT ![f] = "send"] /\ Head(port).bytes # 0
    <3>1. CASE c # f
      <4>1. op'[c] = op[c]
        BY <1>1, <2>5, <3>1
      <4>2. QED BY <1>2, <2>1, <2>2, <3>1, <4>1
    <3>2. CASE c = f
      <4>1. op'[c] = "send"
        BY <1>1, <2>3, <2>5, <3>2
      <4>2. Head(port).bytes > 0
        <5>1. Head(port).bytes \in 0..BufSize /\ BufSize \in Nat
          BY <2>3, IocpAssumption DEF Packet
        <5>2. QED BY <2>5, <5>1
      <4>3. Waiting(c)
        BY <2>3, <3>2, <4>2 DEF Waiting
      <4>4. QED BY <2>1, <4>1, <4>3, Alone DEF Holds, client
    <3>3. QED BY <3>1, <3>2
  <2>6. CASE op' = op /\ peer[f] = "reset"
    <3>1. CASE c # f
      BY <1>2, <2>1, <2>2, <2>6, <3>1
    <3>2. CASE c = f
      BY <1>3, <2>1, <2>2, <2>6, <3>2
    <3>3. QED BY <3>1, <3>2
  <2>7. QED BY <1>5, <2>4, <2>5, <2>6 DEF Received, connection_remove, Exits
<1>6. CASE SendDone
  <2>1. /\ Taken("conn", "send") /\ UNCHANGED <<buffer, toServer, toClient, client, op>>
    BY <1>6 DEF SendDone, connection_remove
  <2>2. Waiting(c)' <=> Waiting(c)
    BY <2>1, Departs
  <2>3. QED BY <1>2, <2>1, <2>2
<1>7. CASE Failed
  <2>1. PICK k \in {"listen", "conn"}, o \in {"accept", "recv", "send"} : Taken(k, o)
    BY <1>7 DEF Failed
  <2>2. f \in Clients /\ Head(port) \in Queued(port)
    BY <2>1, TakenFrom
  <2>3. Head(port).status # "ok" /\ UNCHANGED <<buffer, toServer, toClient, client, op>>
    BY <1>7 DEF Failed, connection_remove, Exits
  <2>4. peer[f] = "reset"
    BY <2>2, <2>3 DEF IocpInv, PortHonest, Honest
  <2>5. (Waiting(c)' => Waiting(c)) /\ ((Waiting(c) => Waiting(c)') \/ f = c)
    BY <2>1, Departs
  <2>6. CASE c # f
    BY <1>2, <2>3, <2>5, <2>6
  <2>7. CASE c = f
    BY <1>3, <2>3, <2>4, <2>5, <2>7
  <2>8. QED BY <2>6, <2>7
<1>8. QED BY <1>4, <1>5, <1>6, <1>7

\* Every step treats the data of a client in one of the seven ways.
LEMMA Flows ==
  ASSUME TypeOK, Small, IocpInv, [Next]_vars, NEW c \in Clients
  PROVE  Flow(c)
<1> USE DEF Flow
<1>1. UNCHANGED <<op, port>> => (Holds(c)' <=> Holds(c))
  BY DEF Holds, Waiting
<1>2. UNCHANGED <<op, port, buffer>> => UNCHANGED Unsent(c)
  BY <1>1, Held
<1>3. /\ {toServer, toClient, echoed} \subseteq [Clients -> Seq(Data)]
      /\ sent \in [Clients -> 0..MaxUnits]
  BY DEF TypeOK, Data
<1>4. CASE UNCHANGED <<op, port, buffer, toServer, toClient, sent, echoed>>
  BY <1>2, <1>4 DEF Stays
<1>5. ASSUME NEW d \in Clients, ClientSend(d) PROVE Flow(c)
  <2>1. CASE c # d
    BY <1>2, <1>3, <1>5, <2>1 DEF ClientSend, server, Stays
  <2>2. CASE c = d
    BY <1>2, <1>3, <1>5, <2>2 DEF ClientSend, server, Sends
  <2>3. QED BY <2>1, <2>2
<1>6. ASSUME NEW d \in Clients, ClientRead(d) PROVE Flow(c)
  <2>1. CASE c # d
    BY <1>2, <1>3, <1>6, <2>1 DEF ClientRead, server, Stays
  <2>2. CASE c = d
    BY <1>2, <1>3, <1>6, <2>2 DEF ClientRead, server, Reads
  <2>3. QED BY <2>1, <2>2
<1>7. ASSUME NEW d \in Clients, CloseResets(d) PROVE Flow(c)
  <2>1. CASE c # d
    BY <1>2, <1>3, <1>7, <2>1 DEF CloseResets, server, client, Stays
  <2>2. CASE c = d
    BY <1>2, <1>3, <1>7, <2>2 DEF CloseResets, server, client, Resets
  <2>3. QED BY <2>1, <2>2
<1>8. QED
  BY <1>4, <1>5, <1>6, <1>7, FlowsCompletion, FlowsHandler
     DEF Next, Connect, Leave, Reset, vars, server, client

\* No more waits for a client than a buffer holds.
Brief == \A c \in Clients : Len(toClient[c]) <= BufSize

\* Every step keeps it so: a reply is sent when nothing waits.
LEMMA StepBrief ==
  ASSUME TypeOK, Small, IocpInv, Brief, [Next]_vars
  PROVE  Brief'
<1> SUFFICES ASSUME NEW c \in Clients PROVE Len(toClient'[c]) <= BufSize
  BY DEF Brief
<1>1. /\ toClient[c] \in Seq(Data) /\ buffer[c] \in Seq(Data) /\ Len(toClient[c]) \in Nat
      /\ BufSize \in Nat /\ Len(buffer[c]) <= BufSize /\ Len(toClient[c]) <= BufSize
  BY Typed DEF Small, Brief
<1>2. toClient \in [Clients -> Seq(Data)]
  BY DEF TypeOK, Data
<1>3. CASE toClient'[c] = toClient[c]
  BY <1>1, <1>3
<1>4. ASSUME NEW d \in Clients, ClientRead(d) PROVE Len(toClient'[c]) <= BufSize
  <2>1. CASE c # d
    BY <1>2, <1>3, <1>4, <2>1 DEF ClientRead
  <2>2. CASE c = d
    <3>1. toClient[c] # << >> /\ toClient'[c] = Tail(toClient[c])
      BY <1>2, <1>4, <2>2 DEF ClientRead
    <3>2. Len(toClient'[c]) = Len(toClient[c]) - 1
      BY <1>1, <3>1, HeadTailProperties
    <3>3. QED BY <1>1, <3>2
  <2>3. QED BY <2>1, <2>2
<1>5. ASSUME NEW d \in Clients, CloseResets(d) PROVE Len(toClient'[c]) <= BufSize
  <2>1. Len(<< >>) = 0
    BY EmptySeq
  <2>2. toClient'[c] = IF c = d THEN << >> ELSE toClient[c]
    BY <1>2, <1>5 DEF CloseResets
  <2>3. QED BY <1>1, <2>1, <2>2
<1>6. ASSUME NEW d \in Clients, SendCompletes(d) PROVE Len(toClient'[c]) <= BufSize
  <2>1. CASE c # d
    BY <1>2, <1>3, <1>6, <2>1 DEF SendCompletes
  <2>2. CASE c = d /\ toClient' = [toClient EXCEPT ![d] = @ \o buffer[d]]
    <3>1. op[c] = "send" /\ toClient'[c] = toClient[c] \o buffer[c]
      BY <1>2, <1>6, <2>2 DEF SendCompletes
    <3>2. toClient[c] = << >>
      BY <3>1 DEF IocpInv, Reply, ReplyTo
    <3>3. toClient'[c] = buffer[c]
      BY <1>1, <3>1, <3>2, ConcatEmptySeq
    <3>4. QED BY <1>1, <3>3
  <2>3. QED BY <1>3, <1>6, <2>1, <2>2 DEF SendCompletes
<1>7. QED
  BY <1>3, <1>4, <1>5, <1>6 DEF Next, Connect, ClientSend, Leave, Reset, AcceptCompletes,
     RecvCompletes, NewConnection, Received, SendDone, Failed, vars, server, client

\* The units of a client that are on their way.
Line(c) == Then(Then(toClient[c], Unsent(c)), toServer[c])

\* What the seven ways to treat a client's data do to its line.
LineMoves(c) ==
  \/ UNCHANGED <<echoed[c], sent[c], Line(c)>>
  \/ /\ Line(c) # << >> /\ Line(c)' = Tail(Line(c))
     /\ echoed'[c] = Append(echoed[c], Head(Line(c))) /\ UNCHANGED sent[c]
  \/ /\ peer[c] = "connected" /\ sent'[c] = sent[c] + 1
     /\ Line(c)' = Append(Line(c), [from |-> c, no |-> sent[c] + 1]) /\ UNCHANGED echoed[c]
  \/ /\ Line(c)' \in Service!Remains(Line(c)) /\ UNCHANGED <<echoed[c], sent[c]>>
     /\ Line(c)' # << >> \/ peer[c] \in {"gone", "reset"}

\* A queue of the line is lost, or nothing.
LEMMA PieceLost ==
  ASSUME NEW c \in Clients, NEW a \in Seq(Data), NEW x \in Seq(Data), NEW b \in Seq(Data),
         Line(c) = Then(Then(a, x), b), Line(c)' = Then(a, b), Len(x) <= BufSize,
         UNCHANGED <<echoed[c], sent[c]>>,
         Len(a) + Len(b) > 0 \/ peer[c] \in {"gone", "reset"}
  PROVE  LineMoves(c)
<1>1. CASE x = << >>
  BY <1>1, ThenNothing DEF LineMoves
<1>2. CASE x # << >>
  <2>1. PICK k \in Nat, l \in Nat, m \in Nat : k = Len(a) /\ l = Len(x) /\ m = Len(b)
    BY LenProperties
  <2>2. l # 0 /\ l <= BufSize /\ BufSize \in Nat
    BY <1>2, <2>1, EmptySeq, IocpAssumption
  <2>3. Len(Line(c)) = k + l + m /\ Line(c)' = Service!Without(Line(c), k, l)
    <3>1. Len(Line(c)) = k + l + m /\ Line(c)' = Gap(Line(c), k, l)
      BY <2>1, LineLoses
    <3>2. QED BY <3>1 DEF Gap, Then, Service!Without
  <2>4. k \in 0..(k + l + m - 1) /\ l \in 1..BufSize
    BY <2>2
  <2>5. Line(c)' \in Service!Remains(Line(c))
    BY <2>3, <2>4 DEF Service!Remains
  <2>6. Line(c)' # << >> \/ peer[c] \in {"gone", "reset"}
    <3>1. Line(c)' \in Seq(Data) /\ Len(Line(c)') = Len(a) + Len(b)
      BY ThenJoins
    <3>2. QED BY <3>1, EmptySeq
  <2>7. QED BY <2>5, <2>6 DEF LineMoves
<1>3. QED BY <1>1, <1>2

\* Every step moves the line of every client.
LEMMA LinesMove ==
  ASSUME TypeOK, Small, Brief, IocpInv, [Next]_vars, NEW c \in Clients
  PROVE  LineMoves(c)
<1>1. PICK t \in Seq(Data), u \in Seq(Data), s \in Seq(Data) :
        t = toClient[c] /\ u = Unsent(c) /\ s = toServer[c]
  <2>1. << >> \in Seq(Data)
    BY EmptySeq
  <2>2. toClient[c] \in Seq(Data) /\ Unsent(c) \in Seq(Data) /\ toServer[c] \in Seq(Data)
    BY <2>1, Typed, Held
  <2>3. QED BY <2>2
<1>2. /\ Len(t) \in Nat /\ Len(u) \in Nat /\ Len(s) \in Nat /\ BufSize \in Nat
      /\ Len(u) <= BufSize /\ Len(t) <= BufSize
  <2>1. BufSize \in Nat /\ Len(<< >>) <= BufSize
    BY EmptySeq, IocpAssumption
  <2>2. Len(buffer[c]) <= BufSize /\ Len(toClient[c]) <= BufSize
    BY DEF Small, Brief
  <2>3. Len(u) <= BufSize
    BY <1>1, <2>1, <2>2, Held
  <2>4. QED BY <1>1, <2>1, <2>2, <2>3
<1>3. /\ Then(t, u) \in Seq(Data) /\ Then(u, s) \in Seq(Data)
      /\ Line(c) = Then(Then(t, u), s) /\ Line(c) = Then(t, Then(u, s))
  <2>1. Then(t, u) \in Seq(Data) /\ Then(u, s) \in Seq(Data)
    BY ThenJoins
  <2>2. Line(c) = Then(Then(t, u), s)
    BY <1>1 DEF Line
  <2>3. QED BY <2>1, <2>2, ThenAssociates
<1>4. CASE Stays(c)
  BY <1>4 DEF Stays, LineMoves, Line
<1>5. CASE Reads(c)
  <2>1. /\ t # << >> /\ toClient'[c] = Tail(t) /\ echoed'[c] = Append(echoed[c], Head(t))
        /\ UNCHANGED <<Unsent(c), toServer[c], sent[c]>>
    BY <1>1, <1>5 DEF Reads
  <2>2. Tail(t) \in Seq(Data)
    BY <2>1, HeadTailProperties
  <2>3. Line(c)' = Then(Tail(t), Then(u, s))
    <3>1. Line(c)' = Then(Then(Tail(t), u), s)
      BY <1>1, <2>1 DEF Line
    <3>2. PICK w \in Seq(Data) : w = Tail(t)
      BY <2>2
    <3>3. Then(Then(w, u), s) = Then(w, Then(u, s))
      BY ThenAssociates
    <3>4. QED BY <3>1, <3>2, <3>3
  <2>4. Line(c) # << >> /\ Head(Line(c)) = Head(t) /\ Tail(Line(c)) = Then(Tail(t), Then(u, s))
    <3>1. PICK w \in Seq(Data) : w = Then(u, s)
      BY <1>3
    <3>2. Then(t, w) # << >> /\ Head(Then(t, w)) = Head(t) /\ Tail(Then(t, w)) = Then(Tail(t), w)
      BY <2>1, ThenHead
    <3>3. QED BY <1>3, <3>1, <3>2
  <2>5. QED BY <2>1, <2>3, <2>4 DEF LineMoves
<1>6. CASE Sends(c)
  <2>1. /\ peer[c] = "connected" /\ sent'[c] = sent[c] + 1
        /\ toServer'[c] = Append(s, [from |-> c, no |-> sent[c] + 1])
        /\ UNCHANGED <<echoed[c], toClient[c], Unsent(c)>>
    BY <1>1, <1>6 DEF Sends
  <2>2. [from |-> c, no |-> sent[c] + 1] \in Data
    BY Typed DEF Data
  <2>3. Line(c)' = Append(Line(c), [from |-> c, no |-> sent[c] + 1])
    <3>1. Line(c)' = Then(Then(t, u), Append(s, [from |-> c, no |-> sent[c] + 1]))
      BY <1>1, <2>1 DEF Line
    <3>2. PICK p \in Seq(Data), x \in Data :
            p = Then(t, u) /\ x = [from |-> c, no |-> sent[c] + 1]
      BY <1>3, <2>2
    <3>3. Then(p, Append(s, x)) = Append(Then(p, s), x)
      BY ThenAppend
    <3>4. QED BY <1>3, <3>1, <3>2, <3>3
  <2>4. QED BY <2>1, <2>3 DEF LineMoves
<1>7. CASE Receives(c)
  <2>1. PICK n \in 1..Len(s) : /\ Unsent(c)' = SubSeq(s, 1, n)
                               /\ toServer'[c] = SubSeq(s, n + 1, Len(s))
    BY <1>1, <1>7 DEF Receives
  <2>2. PICK v \in Seq(Data), w \in Seq(Data) :
          v = SubSeq(s, 1, n) /\ w = SubSeq(s, n + 1, Len(s))
    <3>1. SubSeq(s, 1, n) \in Seq(Data) /\ SubSeq(s, n + 1, Len(s)) \in Seq(Data)
      BY PrefixTaken
    <3>2. QED BY <3>1
  <2>3. Line(c)' = Then(t, s)
    <3>1. Line(c)' = Then(Then(t, v), w)
      BY <1>1, <1>7, <2>1, <2>2 DEF Line, Receives
    <3>2. Then(v, w) = s
      BY <2>2, LineSplits
    <3>3. QED BY <3>1, <3>2, ThenAssociates
  <2>4. Len(t) + Len(s) > 0
    BY <1>2
  <2>5. UNCHANGED <<echoed[c], sent[c]>>
    BY <1>7 DEF Receives
  <2>6. QED BY <1>2, <1>3, <2>3, <2>4, <2>5, PieceLost
<1>8. CASE Replies(c)
  <2>1. toClient'[c] = Then(t, u) /\ UNCHANGED <<echoed[c], sent[c]>>
    BY <1>1, <1>8 DEF Replies, Then
  <2>2. Line(c)' = Line(c)
    <3>1. Line(c)' = Then(Then(Then(t, u), << >>), s)
      BY <1>1, <1>8, <2>1 DEF Line, Replies
    <3>2. QED BY <1>3, <3>1, ThenNothing
  <2>3. QED BY <2>1, <2>2 DEF LineMoves
<1>9. CASE Drops(c)
  <2>1. Line(c)' = Then(t, s) /\ peer[c] \in {"gone", "reset"}
    <3>1. Line(c)' = Then(Then(t, << >>), s) /\ peer[c] \in {"gone", "reset"}
      BY <1>1, <1>9 DEF Line, Drops
    <3>2. QED BY <3>1, ThenNothing
  <2>2. UNCHANGED <<echoed[c], sent[c]>>
    BY <1>9 DEF Drops
  <2>3. QED BY <1>2, <1>3, <2>1, <2>2, PieceLost
<1>10. CASE Resets(c)
  <2>1. PICK a \in Seq(Data), b \in Seq(Data) : a = << >> /\ b = Then(u, s)
    <3>1. << >> \in Seq(Data)
      BY EmptySeq
    <3>2. QED BY <1>3, <3>1
  <2>2. Line(c) = Then(Then(a, t), b)
    BY <1>3, <2>1, ThenNothing
  <2>3. Line(c)' = Then(a, b)
    <3>1. Line(c)' = Then(Then(a, u), s)
      BY <1>1, <1>10, <2>1 DEF Line, Resets
    <3>2. Then(Then(a, u), s) = Then(a, Then(u, s))
      BY ThenAssociates
    <3>3. QED BY <2>1, <3>1, <3>2
  <2>4. Len(a) + Len(b) > 0
    <3>1. Len(b) = Len(u) + Len(s) /\ Len(a) = 0
      BY <2>1, ThenJoins, EmptySeq
    <3>2. Len(s) # 0
      BY <1>1, <1>10, EmptySeq DEF Resets
    <3>3. QED BY <1>2, <3>1, <3>2
  <2>5. UNCHANGED <<echoed[c], sent[c]>>
    BY <1>10 DEF Resets
  <2>6. QED BY <1>2, <2>2, <2>3, <2>4, <2>5, PieceLost
<1>11. QED BY Flows, <1>4, <1>5, <1>6, <1>7, <1>8, <1>9, <1>10 DEF Flow

\* Who has closed or reset its connection, and a client whose line is still.
Leavers == {c \in Clients : peer[c] \in {"gone", "reset"}}
Still(c) == UNCHANGED <<echoed[c], sent[c], Line(c)>>

\* A step moves the line of one client, or that client leaves and every line is still, or nothing
\* happens to the lines and to who has left.
LEMMA OneMoves ==
  ASSUME TypeOK, Small, IocpInv, [Next]_vars
  PROVE  \/ (\A c \in Clients : Still(c)) /\ Leavers' = Leavers
         \/ \E d \in Clients :
              /\ \A c \in Clients : c # d => Still(c)
              /\ \/ Leavers' = Leavers
                 \/ Still(d) /\ Leavers' = Leavers \cup {d}
<1>1. ASSUME NEW c \in Clients, Stays(c) PROVE Still(c)
  BY <1>1 DEF Stays, Still, Line
<1>2. UNCHANGED peer => Leavers' = Leavers
  BY DEF Leavers
<1>3. ASSUME NEW c \in Clients,
             UNCHANGED <<echoed[c], sent[c], toClient[c], toServer[c], op, port, buffer>>
      PROVE  Still(c)
  <2>1. Holds(c)' <=> Holds(c)
    BY <1>3 DEF Holds, Waiting
  <2>2. Stays(c)
    BY <1>3, <2>1, Alone
  <2>3. QED BY <1>1, <2>2
<1>4. ASSUME NEW d \in Clients, Connect(d) \/ Leave(d) \/ Reset(d)
      PROVE  /\ \A c \in Clients : Still(c)
             /\ Leavers' = Leavers \/ Leavers' = Leavers \cup {d}
  <2>1. UNCHANGED <<server, op, port, toServer, toClient, sent, echoed>>
    BY <1>4, Zenon DEF Connect, Leave, Reset
  <2>2. \A c \in Clients : Still(c)
    BY <1>3, <2>1 DEF server
  <2>3. CASE Connect(d)
    <3>1. peer[d] = "new" /\ peer' = [peer EXCEPT ![d] = "connected"]
      BY <2>3 DEF Connect
    <3>2. \A c \in Clients : peer'[c] = IF c = d THEN "connected" ELSE peer[c]
      BY <3>1 DEF TypeOK
    <3>3. Leavers' = Leavers
      BY <3>1, <3>2 DEF Leavers
    <3>4. QED BY <2>2, <3>3
  <2>4. CASE Leave(d) \/ Reset(d)
    <3>1. PICK p \in {"gone", "reset"} : peer' = [peer EXCEPT ![d] = p]
      BY <2>4, Zenon DEF Leave, Reset
    <3>2. \A c \in Clients : peer'[c] = IF c = d THEN p ELSE peer[c]
      BY <3>1 DEF TypeOK
    <3>3. Leavers' = Leavers \cup {d}
      BY <3>2 DEF Leavers
    <3>4. QED BY <2>2, <3>3
  <2>5. QED BY <1>4, <2>3, <2>4
<1>5. ASSUME NEW d \in Clients, ClientSend(d) \/ ClientRead(d) \/ CloseResets(d)
      PROVE  Leavers' = Leavers /\ \A c \in Clients : c # d => Still(c)
  <2>1. UNCHANGED <<op, port, buffer, peer>>
    BY <1>5, Zenon DEF ClientSend, ClientRead, CloseResets, server, client
  <2>2. \A c \in Clients : c # d => UNCHANGED <<echoed[c], sent[c], toClient[c], toServer[c]>>
    BY <1>5 DEF ClientSend, ClientRead, CloseResets, client, TypeOK
  <2>3. QED BY <1>2, <1>3, <2>1, <2>2
<1>6. ASSUME NEW d \in Clients, AcceptCompletes(d) \/ RecvCompletes(d) \/ SendCompletes(d)
      PROVE  Leavers' = Leavers /\ \A c \in Clients : c # d => Still(c)
  <2>1. UNCHANGED peer
    BY <1>6 DEF AcceptCompletes, RecvCompletes, SendCompletes, client
  <2>2. \A c \in Clients : c # d => Stays(c)
    BY <1>6, FlowsCompletion
  <2>3. QED BY <1>1, <1>2, <2>1, <2>2
<1>7. ASSUME NewConnection \/ Received \/ SendDone \/ Failed
      PROVE  /\ Leavers' = Leavers /\ Head(port).from \in Clients
             /\ \A c \in Clients : c # Head(port).from => Still(c)
  <2>1. UNCHANGED peer
    BY <1>7 DEF NewConnection, Received, SendDone, Failed, client
  <2>2. \A c \in Clients : c # Head(port).from => Stays(c)
    BY <1>7, FlowsHandler
  <2>3. \E k, o : Taken(k, o)
    BY <1>7, Zenon DEF NewConnection, Received, SendDone, Failed
  <2>4. Head(port).from \in Clients
    BY <2>3, TakenFrom
  <2>5. QED BY <1>1, <1>2, <2>1, <2>2, <2>4
<1>8. ASSUME UNCHANGED vars PROVE Leavers' = Leavers /\ \A c \in Clients : Still(c)
  BY <1>2, <1>3, <1>8 DEF vars, server, client
<1>9. QED BY <1>4, <1>5, <1>6, <1>7, <1>8 DEF Next

\* A step of the server, Windows or a client is one of the service's, or none.
LEMMA StepServes ==
  ASSUME TypeOK, TypeOK', Small, Brief, IocpInv, [Next]_vars
  PROVE  [Service!Next]_(Service!vars)
<1> DEFINE lines == [c \in Clients |-> Line(c)]
<1>1. /\ lines = [c \in Clients |-> toClient[c] \o Unsent(c) \o toServer[c]]
      /\ lines' = [c \in Clients |-> toClient[c] \o Unsent(c) \o toServer[c]]'
  BY DEF Line, Then
<1>2. ASSUME \A c \in Clients : Still(c), Leavers' = Leavers PROVE UNCHANGED Service!vars
  <2>1. /\ echoed = [c \in Clients |-> echoed[c]] /\ echoed' = [c \in Clients |-> echoed'[c]]
        /\ sent = [c \in Clients |-> sent[c]] /\ sent' = [c \in Clients |-> sent'[c]]
    BY DEF TypeOK
  <2>2. echoed' = echoed /\ sent' = sent
    BY <1>2, <2>1 DEF Still
  <2>3. lines' = lines
    BY <1>2 DEF Still
  <2> HIDE DEF lines
  <2>4. QED BY <1>1, <1>2, <2>2, <2>3 DEF Service!vars, Leavers
<1>3. SUFFICES ASSUME NEW d \in Clients,
                      /\ \A c \in Clients : c # d => Still(c)
                      /\ \/ Leavers' = Leavers
                         \/ Still(d) /\ Leavers' = Leavers \cup {d}
               PROVE  [Service!Next]_(Service!vars)
  BY <1>2, OneMoves
<1>4. /\ echoed = [c \in Clients |-> echoed[c]] /\ echoed' = [c \in Clients |-> echoed'[c]]
      /\ sent = [c \in Clients |-> sent[c]] /\ sent' = [c \in Clients |-> sent'[c]]
      /\ lines = [c \in Clients |-> lines[c]] /\ lines' = [c \in Clients |-> lines'[c]]
      /\ sent[d] \in Nat /\ sent'[d] <= MaxUnits /\ MaxUnits \in Nat
  <2>1. /\ echoed \in [Clients -> Seq(Data)] /\ echoed' \in [Clients -> Seq(Data)]
        /\ sent \in [Clients -> 0..MaxUnits] /\ sent' \in [Clients -> 0..MaxUnits]
    BY DEF TypeOK, Data
  <2>2. QED BY <2>1, IocpAssumption
<1>5. \A c \in Clients : c # d => /\ echoed'[c] = echoed[c] /\ sent'[c] = sent[c]
                                  /\ lines'[c] = lines[c]
  BY <1>3 DEF Still
<1>6. lines[d] = Line(d) /\ lines'[d] = Line(d)'
  OBVIOUS
<1> HIDE DEF lines
<1>7. ASSUME Leavers' = Leavers \cup {d}, Still(d) PROVE Service!Leave(d)
  <2>1. echoed' = echoed /\ sent' = sent /\ lines' = lines
    BY <1>4, <1>5, <1>6, <1>7 DEF Still
  <2>2. QED BY <1>1, <1>7, <2>1 DEF Service!Leave, Leavers
<1>8. ASSUME Leavers' = Leavers, LineMoves(d) PROVE Service!Next \/ UNCHANGED Service!vars
  <2>1. CASE UNCHANGED <<echoed[d], sent[d], Line(d)>>
    <3>1. echoed' = echoed /\ sent' = sent /\ lines' = lines
      BY <1>4, <1>5, <1>6, <2>1
    <3>2. QED BY <1>1, <1>8, <3>1 DEF Service!vars, Leavers
  <2>2. CASE /\ Line(d) # << >> /\ Line(d)' = Tail(Line(d))
             /\ echoed'[d] = Append(echoed[d], Head(Line(d))) /\ UNCHANGED sent[d]
    <3>1. /\ lines' = [lines EXCEPT ![d] = Tail(@)] /\ lines[d] # << >>
          /\ echoed' = [echoed EXCEPT ![d] = Append(@, Head(lines[d]))] /\ sent' = sent
      BY <1>4, <1>5, <1>6, <2>2
    <3>2. Service!Return(d)
      BY <1>1, <1>8, <3>1 DEF Service!Return, Leavers
    <3>3. QED BY <3>2 DEF Service!Next
  <2>3. CASE /\ peer[d] = "connected" /\ sent'[d] = sent[d] + 1
             /\ Line(d)' = Append(Line(d), [from |-> d, no |-> sent[d] + 1])
             /\ UNCHANGED echoed[d]
    <3>1. /\ lines' = [lines EXCEPT ![d] = Append(@, [from |-> d, no |-> sent[d] + 1])]
          /\ sent' = [sent EXCEPT ![d] = @ + 1] /\ echoed' = echoed
          /\ sent[d] < MaxUnits /\ d \notin Leavers
      BY <1>4, <1>5, <1>6, <2>3 DEF Leavers
    <3>2. Service!Send(d)
      BY <1>1, <1>8, <3>1 DEF Service!Send, Leavers
    <3>3. QED BY <3>2 DEF Service!Next
  <2>4. CASE /\ Line(d)' \in Service!Remains(Line(d)) /\ UNCHANGED <<echoed[d], sent[d]>>
             /\ Line(d)' # << >> \/ peer[d] \in {"gone", "reset"}
    <3>1. PICK r \in Service!Remains(lines[d]) : /\ r # << >> \/ d \in Leavers
                                                 /\ lines' = [lines EXCEPT ![d] = r]
      BY <1>4, <1>5, <1>6, <2>4 DEF Leavers
    <3>2. echoed' = echoed /\ sent' = sent
      BY <1>4, <1>5, <2>4
    <3>3. Service!Lose(d)
      BY <1>1, <1>8, <3>1, <3>2 DEF Service!Lose, Leavers
    <3>4. QED BY <3>3 DEF Service!Next
  <2>5. QED BY <1>8, <2>1, <2>2, <2>3, <2>4 DEF LineMoves
<1>9. LineMoves(d)
  BY LinesMove
<1>10. QED BY <1>3, <1>7, <1>8, <1>9 DEF Service!Next

\* The server implements the echo service, for any number of clients, any amount of data and any
\* buffer size, whatever completes when and whichever connections are reset.
THEOREM IocpServes == Spec => ImplementsEcho
<1>1. Init => Service!Init
  <2> SUFFICES ASSUME Init PROVE Service!Init
    OBVIOUS
  <2>1. \A c \in Clients : toClient[c] \o Unsent(c) \o toServer[c] = << >>
    <3>1. << >> \in Seq(Data)
      BY EmptySeq
    <3>2. << >> \o << >> \o << >> = << >>
      BY <3>1, ConcatEmptySeq
    <3>3. QED BY <3>2, Held DEF Init
  <2>2. QED BY <2>1 DEF Init, Service!Init
<1>2. Init => Brief
  BY EmptySeq, IocpAssumption DEF Init, Brief
<1>3. TypeOK /\ Small /\ IocpInv /\ Brief /\ [Next]_vars => Brief'
  BY StepBrief
<1>4. /\ TypeOK /\ Small /\ IocpInv /\ Brief /\ TypeOK' /\ [Next]_vars
      => [Service!Next]_(Service!vars)
  BY StepServes
<1>5. QED BY IocpSound, <1>1, <1>2, <1>3, <1>4, PTL DEF Spec, ImplementsEcho, Service!Spec
===============================================================================
