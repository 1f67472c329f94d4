------------------------------- MODULE EpollEcho -------------------------------
\* The epoll echo server (samples/epoll_echo_server.c), its kernel and its clients. The server is
\* one thread: it waits for one event, and runs the handlers the event calls for. Between the wait
\* and the handlers, and between two handlers, the clients and the network go on.
\* A client has one connection. Its data are numbered units, each of which arrives as a whole; how
\* many of them a recv returns is the network's choice.
EXTENDS Integers, Sequences, FiniteSets

CONSTANTS
  Clients,
  Polite,      \* clients that send one unit, and leave, only when the last unit has come back
  MaxUnits,    \* units a client sends
  BufSize,     \* units recv_buffer holds (BUFSIZ)
  Room,        \* units the kernel holds for a client that does not read
  ShortSends   \* send may take a part of the data (checker-lin/_test/sockop_preload.c)

ASSUME EpollAssumption ==
  /\ Clients # {} /\ Polite \subseteq Clients
  /\ {MaxUnits, BufSize, Room} \subseteq Nat \ {0} /\ BufSize <= Room
  /\ ShortSends \in BOOLEAN

VARIABLES
  \* the server
  pc,        \* "wait", "accept", "in" or "out": what main does next; "dead": the process is gone
  rev,       \* the event epoll_wait returned: connection, EPOLLIN, EPOLLOUT
  conn,      \* per client: "none", "live" or "freed", the struct connection and its socket
  interest,  \* the events epoll watches the socket for: "none", "in" or "inout"
  buffer,    \* send_buffer up to send_len; receiving fills it through recv_buffer
  \* the kernel's queues
  toServer, toClient,
  \* the clients
  peer,      \* "new", "connected", "shut" (writing half closed), "gone" or "reset"
  sent,      \* units sent so far
  echoed     \* what the client has read

server == <<pc, rev, conn, interest, buffer>>
client == <<peer, sent, echoed>>
vars == <<server, toServer, toClient, client>>

Unit == [from : Clients, no : Nat]

Init ==
  /\ pc = "wait" /\ rev = [from |-> CHOOSE c \in Clients : TRUE, in |-> FALSE, out |-> FALSE]
  /\ conn = [c \in Clients |-> "none"] /\ interest = [c \in Clients |-> "none"]
  /\ buffer = [c \in Clients |-> << >>]
  /\ toServer = [c \in Clients |-> << >>] /\ toClient = [c \in Clients |-> << >>]
  /\ peer = [c \in Clients |-> "new"] /\ sent = [c \in Clients |-> 0]
  /\ echoed = [c \in Clients |-> << >>]

-------------------------------------------------------------------------------
\* The clients and the network.
Waits(c) == c \in Polite => Len(echoed[c]) = sent[c]

Connect(c) == /\ peer[c] = "new" /\ peer' = [peer EXCEPT ![c] = "connected"]
              /\ UNCHANGED <<server, toServer, toClient, sent, echoed>>

ClientSend(c) ==
  /\ peer[c] = "connected" /\ sent[c] < MaxUnits /\ Waits(c)
  /\ sent' = [sent EXCEPT ![c] = @ + 1]
  /\ toServer' = [toServer EXCEPT ![c] = Append(@, [from |-> c, no |-> sent[c] + 1])]
  /\ UNCHANGED <<server, toClient, peer, echoed>>

ClientRead(c) ==
  /\ peer[c] \in {"connected", "shut"} /\ toClient[c] # << >>
  /\ echoed' = [echoed EXCEPT ![c] = Append(@, Head(toClient[c]))]
  /\ toClient' = [toClient EXCEPT ![c] = Tail(@)]
  /\ UNCHANGED <<server, toServer, peer, sent>>

Shut(c) == /\ peer[c] = "connected" /\ Waits(c) /\ peer' = [peer EXCEPT ![c] = "shut"]
           /\ UNCHANGED <<server, toServer, toClient, sent, echoed>>
Leave(c) == /\ peer[c] \in {"connected", "shut"} /\ Waits(c)
            /\ peer' = [peer EXCEPT ![c] = "gone"]
            /\ UNCHANGED <<server, toServer, toClient, sent, echoed>>
\* Data for a client that is gone make its kernel reset the connection.
Reset(c) == /\ peer[c] = "gone" /\ toClient[c] # << >>
            /\ peer' = [peer EXCEPT ![c] = "reset"]
            /\ UNCHANGED <<server, toServer, toClient, sent, echoed>>
-------------------------------------------------------------------------------
\* What epoll reports. A connection that was reset is ready for everything.
HasEnded(c) == peer[c] \in {"shut", "gone"} /\ toServer[c] = << >>
InReady(c) == toServer[c] # << >> \/ HasEnded(c) \/ peer[c] = "reset"
OutReady(c) == Len(toClient[c]) < Room \/ peer[c] = "reset"

epoll_wait(c) ==
  /\ pc = "wait"
  /\ \/ peer[c] # "new" /\ conn[c] = "none" /\ pc' = "accept"
        /\ rev' = [from |-> c, in |-> TRUE, out |-> FALSE]
     \/ /\ rev' = [from |-> c, in |-> interest[c] # "none" /\ InReady(c),
                   out |-> interest[c] = "inout" /\ OutReady(c)]
        /\ \/ rev'.in /\ pc' = "in"
           \/ ~rev'.in /\ rev'.out /\ pc' = "out"
  /\ UNCHANGED <<conn, interest, buffer, toServer, toClient, client>>

\* w_epoll.h
w_epoll_add_ptr_in(c) == interest' = [interest EXCEPT ![c] = "in"]
w_epoll_update_ptr_inBug(c) == UNCHANGED interest
w_epoll_update_ptr_in(c) == interest' = [interest EXCEPT ![c] = "in"]
w_epoll_update_ptr_inoutBug(c) == interest' = [interest EXCEPT ![c] = "in"]
w_epoll_update_ptr_inout(c) == interest' = [interest EXCEPT ![c] = "inout"]
w_epoll_remove_ptr(c) == interest' = [interest EXCEPT ![c] = "none"]

\* Always after w_epoll_remove_ptr: the socket is closed and the structure freed.
connection_remove(c) == conn' = [conn EXCEPT ![c] = "freed"]

handle_new_connection ==
  LET c == rev.from
  IN  /\ pc = "accept" /\ pc' = "wait"
      /\ conn' = [conn EXCEPT ![c] = "live"] /\ w_epoll_add_ptr_in(c)
      /\ UNCHANGED <<rev, buffer, toServer, toClient, client>>

\* main asks for EPOLLOUT after the receive, of the event and not of the connection.
AfterInBug == "out"
AfterIn == IF rev.out THEN "out" ELSE "wait"
\* recv is asked for BUFSIZ.
SizesBug(c) == 1..Len(toServer[c])
Sizes(c) == {n \in 1..BufSize : n <= Len(toServer[c])}
\* handle_client_request: receive, copy over whatever the send buffer holds, ask for EPOLLOUT.
Receive ==
  LET c == rev.from
  IN  /\ pc = "in" /\ toServer[c] # << >>
      /\ \E n \in Sizes(c) :
           /\ buffer' = [buffer EXCEPT ![c] = SubSeq(toServer[c], 1, n)]
           /\ toServer' = [toServer EXCEPT ![c] = SubSeq(@, n + 1, Len(@))]
      /\ w_epoll_update_ptr_inout(c)
      /\ pc' = AfterIn
      /\ UNCHANGED <<rev, conn, toClient, client>>
\* The end of the data, or an error of getpeername or recv: the connection goes.
ReceiveEnd ==
  LET c == rev.from
  IN  /\ pc = "in" /\ (HasEnded(c) \/ peer[c] = "reset")
      /\ w_epoll_remove_ptr(c) /\ connection_remove(c)
      /\ pc' = AfterIn
      /\ UNCHANGED <<rev, buffer, toServer, toClient, client>>

\* send_message. main calls it with the pointer of the event, whatever handle_client_request did.
Send ==
  LET c == rev.from
  IN  /\ pc = "out" /\ conn[c] = "live" /\ peer[c] # "reset"
      /\ \E n \in IF ShortSends THEN 1..Len(buffer[c]) ELSE {Len(buffer[c])} :
           /\ Len(toClient[c]) + n <= Room       \* the socket is a blocking one
           /\ toClient' = [toClient EXCEPT ![c] = @ \o SubSeq(buffer[c], 1, n)]
      /\ w_epoll_update_ptr_in(c)
      /\ pc' = "wait"
      /\ UNCHANGED <<rev, conn, buffer, toServer, client>>
\* send finds no room for what it is given: it sleeps until the client reads, or is reset.
Blocked ==
  LET c == rev.from
  IN  /\ pc = "out" /\ conn[c] = "live" /\ peer[c] # "reset"
      /\ Len(toClient[c]) + Len(buffer[c]) > Room
\* getpeername or send fails. A send that meets the reset raises SIGPIPE, which nothing handles.
SendFails ==
  LET c == rev.from
  IN  /\ pc = "out" /\ conn[c] = "live" /\ peer[c] = "reset"
      /\ \/ w_epoll_remove_ptr(c) /\ connection_remove(c) /\ pc' = "wait"
         \/ pc' = "dead" /\ UNCHANGED <<conn, interest>>
      /\ UNCHANGED <<rev, buffer, toServer, toClient, client>>
\* The connection has been freed. Whatever is left of its descriptor, none is open that it names:
\* getpeername fails, and DIE ends the process when epoll_ctl fails as well.
SendOnFreed ==
  /\ pc = "out" /\ conn[rev.from] = "freed" /\ pc' = "dead"
  /\ UNCHANGED <<rev, conn, interest, buffer, toServer, toClient, client>>

Server == \/ \E c \in Clients : epoll_wait(c)
          \/ handle_new_connection \/ Receive \/ ReceiveEnd
          \/ Send \/ SendFails \/ SendOnFreed
Next == \/ \E c \in Clients : \/ Connect(c) \/ ClientSend(c) \/ ClientRead(c)
                              \/ Shut(c) \/ Leave(c) \/ Reset(c)
        \/ \E c \in Clients : epoll_wait(c)
        \/ handle_new_connection \/ Receive \/ ReceiveEnd
        \/ Send \/ SendFails \/ SendOnFreed
Spec == Init /\ [][Next]_vars
\* The thread runs when send does not hold it; epoll moves a socket it has reported to the end of
\* its list, so that none is passed over for ever; a kernel answers what it cannot deliver. Polite
\* clients read what arrives, the others need not.
FairSpec == /\ Spec /\ WF_vars(Server /\ ~Blocked)
            /\ \A c \in Clients : SF_vars(epoll_wait(c)) /\ WF_vars(Reset(c))
            /\ \A c \in Polite : WF_vars(ClientRead(c))
-------------------------------------------------------------------------------
TypeOK ==
  /\ pc \in {"wait", "accept", "in", "out", "dead"}
  /\ rev \in [from : Clients, in : BOOLEAN, out : BOOLEAN]
  /\ conn \in [Clients -> {"none", "live", "freed"}]
  /\ interest \in [Clients -> {"none", "in", "inout"}]
  /\ {buffer, toServer, toClient, echoed} \subseteq [Clients -> Seq(Unit)]
  /\ \A c \in Clients : Len(buffer[c]) <= BufSize /\ Len(toClient[c]) <= Room
  /\ peer \in [Clients -> {"new", "connected", "shut", "gone", "reset"}]
  /\ sent \in [Clients -> 0..MaxUnits]

\* The data of a connection that the server holds and still means to send.
Unsent(c) == IF conn[c] = "live" /\ interest[c] = "inout" THEN buffer[c] ELSE << >>

\* What a client gets back is its own data, in the order it sent them, and nothing twice, whatever
\* the server lost on the way (connection_copy_buffers overwrites, a short send drops).
EchoInOrder ==
  \A c \in Clients :
    LET back == echoed[c] \o toClient[c] \o Unsent(c) \o toServer[c]
    IN  \A i \in DOMAIN back : /\ back[i].from = c /\ back[i].no <= sent[c]
                               /\ \A j \in 1..(i - 1) : back[j].no < back[i].no

\* "The server will reply with the same message" (samples/README) to a client that waits for the
\* reply to a message of one segment: each of its units is with the client, in a queue, or in the
\* server's hands, until the server goes down.
PoliteLoseNothing ==
  \A c \in Polite :
    pc # "dead" =>
      Len(echoed[c]) + Len(toClient[c]) + Len(Unsent(c)) + Len(toServer[c]) = sent[c]

\* The server only goes down over a client that ended its data, all or its side of the connection,
\* while none of the reply to them had been sent (send_message on a removed connection, SIGPIPE):
\* a half-closed client may still wait for that reply, one that only sends and reads is safe.
DownOnlyByUnsentReply ==
  pc = "dead" =>
    LET c == rev.from
        back == echoed[c] \o toClient[c]
    IN  /\ c \notin Polite /\ peer[c] \in {"shut", "gone", "reset"} /\ buffer[c] # << >>
        /\ \A i \in DOMAIN back, j \in DOMAIN buffer[c] : back[i] # buffer[c][j]

\* Every polite client gets its reply, unless another client brings the server down or keeps it in
\* send for ever by not reading: no client but the polite ones is obliged to read.
PoliteAreServed ==
  \A c \in Polite :
    Len(echoed[c]) < sent[c] ~>
      Len(echoed[c]) = sent[c] \/ pc = "dead" \/ [](Blocked /\ rev.from \notin Polite)

\* With its buffers, events and handlers the server is an echo service that overwrites, and drops,
\* no more than EchoService allows.
Service == INSTANCE EchoService WITH
  pending <- [c \in Clients |-> toClient[c] \o Unsent(c) \o toServer[c]],
  left <- {c \in Clients : peer[c] \in {"shut", "gone", "reset"}}
ImplementsEcho == Service!Spec

\* The descriptor send_message works on is registered with epoll: DIE(rc < 0, "w_epoll_remove_ptr")
\* and DIE(rc < 0, "w_epoll_update_ptr_in") take it for granted.
SendsOnLiveConnections == pc = "out" => conn[rev.from] = "live"
===============================================================================
