-------------------------------- MODULE IocpEcho --------------------------------
\* The echo server on I/O completion ports (samples/iocp_echo_server.c), Windows and the clients.
\* The server is one thread: it takes a completion packet off the port and runs the handler for it.
\* Operations complete in any order, and clients go on in between; a client that resets its
\* connection during a handler is covered by the calls of a handler failing or not once it has.
\* A client has one connection and sends numbered units, each of which arrives as a whole.
EXTENDS Integers, Sequences, FiniteSets

CONSTANTS
  Clients,
  MaxUnits,   \* units a client sends
  BufSize     \* units recv_buffer holds (BUFSIZ)

ASSUME IocpAssumption == {MaxUnits, BufSize} \subseteq Nat \ {0} /\ IsFiniteSet(Clients)

VARIABLES
  up,        \* the process is there
  accept,    \* ac: an AcceptEx is outstanding
  conn,      \* per client: "none", "live", "freed", the struct and its socket, or "lost",
             \*   a socket without a connection that nobody closes
  op,        \* the overlapped operation of a connection that Windows has in hand
  buffer,    \* recv_buffer, and send_buffer after connection_copy_buffers
  port,      \* the packets on the completion port, oldest first
  toServer, toClient,
  peer,      \* the client: "new", "connected", "gone" (closed) or "reset"
  sent,      \* units it has sent
  echoed     \* what it has read

server == <<up, accept, conn, buffer>>
client == <<peer, sent, echoed>>
vars == <<server, op, port, toServer, toClient, client>>

\* status: "ok", "deleted" (ERROR_NETNAME_DELETED) or "other" (any other error).
Packet == [key : {"listen", "conn"}, from : Clients, op : {"accept", "recv", "send"},
           status : {"ok", "deleted", "other"}, bytes : 0..BufSize]

Init ==
  /\ up = TRUE /\ accept = TRUE
  /\ conn = [c \in Clients |-> "none"] /\ op = [c \in Clients |-> "none"]
  /\ buffer = [c \in Clients |-> << >>] /\ port = << >>
  /\ toServer = [c \in Clients |-> << >>] /\ toClient = [c \in Clients |-> << >>]
  /\ peer = [c \in Clients |-> "new"] /\ sent = [c \in Clients |-> 0]
  /\ echoed = [c \in Clients |-> << >>]
-------------------------------------------------------------------------------
\* The clients.
Connect(c) == /\ peer[c] = "new" /\ peer' = [peer EXCEPT ![c] = "connected"]
              /\ UNCHANGED <<server, op, port, toServer, toClient, sent, echoed>>
ClientSend(c) ==
  /\ peer[c] = "connected" /\ sent[c] < MaxUnits
  /\ sent' = [sent EXCEPT ![c] = @ + 1]
  /\ toServer' = [toServer EXCEPT ![c] = Append(@, [from |-> c, no |-> sent[c] + 1])]
  /\ UNCHANGED <<server, op, port, toClient, peer, echoed>>
ClientRead(c) ==
  /\ peer[c] = "connected" /\ toClient[c] # << >>
  /\ echoed' = [echoed EXCEPT ![c] = Append(@, Head(toClient[c]))]
  /\ toClient' = [toClient EXCEPT ![c] = Tail(@)]
  /\ UNCHANGED <<server, op, port, toServer, peer, sent>>
Leave(c) == /\ peer[c] = "connected" /\ peer' = [peer EXCEPT ![c] = "gone"]
            /\ UNCHANGED <<server, op, port, toServer, toClient, sent, echoed>>
Reset(c) == /\ peer[c] \in {"connected", "gone"} /\ peer' = [peer EXCEPT ![c] = "reset"]
            /\ UNCHANGED <<server, op, port, toServer, toClient, sent, echoed>>
\* A socket closed with unread data resets the connection, and the client loses what is on its way.
CloseResets(c) ==
  /\ conn[c] = "freed" /\ toServer[c] # << >> /\ toClient[c] # << >>
  /\ toClient' = [toClient EXCEPT ![c] = << >>]
  /\ UNCHANGED <<server, op, port, toServer, client>>
-------------------------------------------------------------------------------
\* Windows completes an operation and queues its packet.
Errors(c) == IF peer[c] = "reset" THEN {"deleted", "other"} ELSE {}
Post(k, c, o, status, n) ==
  port' = Append(port, [key |-> k, from |-> c, op |-> o, status |-> status, bytes |-> n])

AcceptCompletes(c) ==
  /\ up /\ accept /\ peer[c] # "new" /\ conn[c] = "none"
  /\ \E status \in {"ok"} \cup Errors(c) : Post("listen", c, "accept", status, 0)
  /\ accept' = FALSE
  /\ UNCHANGED <<up, conn, buffer, op, toServer, toClient, client>>
\* recv_buffers describes a buffer of BUFSIZ.
SizesBug(c) == 1..Len(toServer[c])
Sizes(c) == {n \in 1..BufSize : n <= Len(toServer[c])}
RecvCompletes(c) ==
  /\ up /\ op[c] = "recv"
  /\ \/ \E n \in Sizes(c) :
          /\ Post("conn", c, "recv", "ok", n)
          /\ buffer' = [buffer EXCEPT ![c] = SubSeq(toServer[c], 1, n)]
          /\ toServer' = [toServer EXCEPT ![c] = SubSeq(@, n + 1, Len(@))]
     \/ /\ peer[c] = "gone" /\ toServer[c] = << >> /\ Post("conn", c, "recv", "ok", 0)
        /\ UNCHANGED <<buffer, toServer>>
     \/ /\ \E status \in Errors(c) : Post("conn", c, "recv", status, 0)
        /\ UNCHANGED <<buffer, toServer>>
  /\ op' = [op EXCEPT ![c] = "none"]
  /\ UNCHANGED <<up, accept, conn, toClient, client>>
SendCompletes(c) ==
  /\ up /\ op[c] = "send"
  /\ \/ /\ Post("conn", c, "send", "ok", Len(buffer[c]))
        /\ toClient' = [toClient EXCEPT ![c] = @ \o buffer[c]]
     \/ /\ \E status \in Errors(c) : Post("conn", c, "send", status, 0)
        /\ UNCHANGED toClient
  /\ op' = [op EXCEPT ![c] = "none"]
  /\ UNCHANGED <<up, accept, conn, buffer, toServer, client>>
-------------------------------------------------------------------------------
\* The server: w_iocp_wait takes the oldest packet, and main or a handler deals with it.
Taken(k, o) == /\ up /\ port # << >>
               /\ Head(port).key = k /\ Head(port).op = o
               /\ port' = Tail(port)
Exits == up' = FALSE /\ UNCHANGED <<accept, conn, buffer, op>>

create_iocp_acceptBug == accept' = accept
create_iocp_accept == accept' = TRUE

connection_remove(c) ==
  conn' = [conn EXCEPT ![c] = "freed"] /\ UNCHANGED <<up, accept, buffer, op>>

\* handle_new_connection. setsockopt, getpeername and WSARecv may fail once the client has reset the
\* connection: the first and the last end the process, the second returns before
\* create_iocp_accept and leaves ac.sockfd open.
NewConnection ==
  LET c == Head(port).from
  IN  /\ Taken("listen", "accept") /\ Head(port).status = "ok"
      /\ \/ /\ conn' = [conn EXCEPT ![c] = "live"] /\ op' = [op EXCEPT ![c] = "recv"]
            /\ create_iocp_accept
            /\ UNCHANGED <<up, buffer>>
         \/ peer[c] = "reset" /\ Exits
         \/ /\ peer[c] = "reset" /\ conn' = [conn EXCEPT ![c] = "lost"]
            /\ UNCHANGED <<up, accept, buffer, op>>
      /\ UNCHANGED <<toServer, toClient, client>>

ReceivedBug ==
  LET c == Head(port).from
  IN  /\ Taken("conn", "recv") /\ Head(port).status = "ok"
      /\ IF Head(port).bytes = 0 THEN Exits
         ELSE \/ op' = [op EXCEPT ![c] = "send"] /\ UNCHANGED server
              \/ peer[c] = "reset" /\ Exits
      /\ UNCHANGED <<toServer, toClient, client>>
\* handle_aio, a receive: the copy and WSASend, which fails if the client has reset the connection.
Received ==
  LET c == Head(port).from
  IN  /\ Taken("conn", "recv") /\ Head(port).status = "ok"
      /\ IF Head(port).bytes = 0 THEN connection_remove(c)
         ELSE \/ op' = [op EXCEPT ![c] = "send"] /\ UNCHANGED server
              \/ peer[c] = "reset" /\ Exits
      /\ UNCHANGED <<toServer, toClient, client>>

SendDoneBug == /\ Taken("conn", "send") /\ Head(port).status = "ok"
               /\ UNCHANGED <<server, op, toServer, toClient, client>>
ResendBug == /\ Taken("conn", "send") /\ Head(port).status = "ok"
             /\ op' = [op EXCEPT ![Head(port).from] = "send"]
             /\ UNCHANGED <<server, toServer, toClient, client>>
\* handle_aio, a send: the connection is closed.
SendDone == /\ Taken("conn", "send") /\ Head(port).status = "ok"
            /\ connection_remove(Head(port).from)
            /\ UNCHANGED <<toServer, toClient, client>>

\* main, with a failed operation: ERROR_NETNAME_DELETED removes the connection the key points to
\* (listenfd points nowhere), any other error ends the process.
Failed ==
  /\ \E k \in {"listen", "conn"} : \E o \in {"accept", "recv", "send"} : Taken(k, o)
  /\ Head(port).status # "ok"
  /\ IF Head(port).status = "deleted" /\ Head(port).key = "conn"
       THEN connection_remove(Head(port).from)
       ELSE Exits
  /\ UNCHANGED <<toServer, toClient, client>>

Server == NewConnection \/ Received \/ SendDone \/ Failed
Completes(c) == AcceptCompletes(c) \/ RecvCompletes(c) \/ SendCompletes(c)
Next == \/ \E c \in Clients : \/ Connect(c) \/ ClientSend(c) \/ ClientRead(c) \/ Leave(c)
                              \/ Reset(c) \/ CloseResets(c)
                              \/ AcceptCompletes(c) \/ RecvCompletes(c) \/ SendCompletes(c)
        \/ NewConnection \/ Received \/ SendDone \/ Failed
Spec == Init /\ [][Next]_vars
\* The thread runs, Windows completes what can be completed and accepts every client in the end,
\* and clients read what arrives.
FairSpec == /\ Spec /\ WF_vars(Server)
            /\ \A c \in Clients : SF_vars(Completes(c)) /\ WF_vars(ClientRead(c))
-------------------------------------------------------------------------------
TypeOK ==
  /\ up \in BOOLEAN /\ accept \in BOOLEAN
  /\ conn \in [Clients -> {"none", "live", "freed", "lost"}]
  /\ op \in [Clients -> {"none", "recv", "send"}]
  /\ {buffer, toServer, toClient, echoed} \subseteq
       [Clients -> Seq([from : Clients, no : Nat])]
  /\ port \in Seq(Packet)
  /\ peer \in [Clients -> {"new", "connected", "gone", "reset"}]
  /\ sent \in [Clients -> 0..MaxUnits]

PacketsOf(c) == {i \in DOMAIN port : port[i].key = "conn" /\ port[i].from = c}
AcceptPackets == {i \in DOMAIN port : port[i].key = "listen"}

\* A live connection has exactly one operation, in hand or completed and not yet handled; a
\* connection that was removed has none, so that no packet's key points to freed memory
\* (connection_complete_socket_send frees without asking).
OneOperation ==
  up => \A c \in Clients :
          IF conn[c] = "live"
            THEN \/ op[c] # "none" /\ PacketsOf(c) = {}
                 \/ op[c] = "none" /\ \E i \in DOMAIN port : PacketsOf(c) = {i}
            ELSE op[c] = "none" /\ PacketsOf(c) = {}

\* There is one accept at a time, since all of them share `ac`, and the server is never without one
\* unless a client has reset its connection.
OneAccept ==
  up => \/ accept /\ AcceptPackets = {}
        \/ ~accept /\ \E i \in DOMAIN port : AcceptPackets = {i}
        \/ ~accept /\ AcceptPackets = {} /\ \E c \in Clients : peer[c] = "reset"

\* The reply is the beginning of what the client sent, in order and not interleaved with a second
\* one.
EchoIsPrefix ==
  \A c \in Clients :
    LET back == echoed[c] \o toClient[c]
    IN  \A i \in DOMAIN back : i <= sent[c] /\ back[i] = [from |-> c, no |-> i]

\* The server ends only when a client has reset its connection.
DownOnlyByReset == ~up => \E c \in Clients : peer[c] = "reset"

\* A client that sends and stays gets its first unit back, unless clients reset connections or its
\* own further units make the close lose the reply.
FirstUnitEchoed ==
  \A c \in Clients :
    peer[c] = "connected" /\ sent[c] = 1 ~>
      \/ echoed[c] # << >> \/ sent[c] > 1 \/ peer[c] # "connected"
      \/ \E d \in Clients : peer[d] = "reset"

\* The data a connection holds: received and not yet handed to the client.
Unsent(c) ==
  IF op[c] = "send" \/ \E i \in PacketsOf(c) : port[i].op = "recv" /\ port[i].bytes > 0
  THEN buffer[c] ELSE << >>

\* Whatever completes when, the server is an echo service.
Service == INSTANCE EchoService WITH
  pending <- [c \in Clients |-> toClient[c] \o Unsent(c) \o toServer[c]],
  left <- {c \in Clients : peer[c] \in {"gone", "reset"}}
ImplementsEcho == Service!Spec

\* "Use AcceptEx to schedule new connection acceptance" (iocp_echo_server.c:287): as long as the
\* server is up, it is ready for the next client.
AlwaysAccepting == up => accept \/ AcceptPackets # {}
===============================================================================
