------------------------------ MODULE EchoService ------------------------------
(***************************************************************************)
(* What the echo servers promise (samples/README: "The server will reply   *)
(* with the same message"), without sockets, buffers, events or completions*)
(* Each connection is a line on which a client's units travel to the server*)
(* and back. Order is kept and nothing is made up. A burst of units may be *)
(* lost, of a buffer at most, but while the client stays something it waits*)
(* for remains: one that has a single unit on the line gets it back.       *)
(***************************************************************************)
EXTENDS Integers, Sequences

CONSTANTS Clients, MaxUnits, BufSize

VARIABLES
  sent,     \* units each client has sent
  pending,  \* those on the line, oldest first
  echoed,   \* those that came back
  left      \* the clients that have closed their end, or half of it

vars == <<sent, pending, echoed, left>>

Init ==
  /\ sent = [c \in Clients |-> 0] /\ left = {}
  /\ pending = [c \in Clients |-> << >>] /\ echoed = [c \in Clients |-> << >>]

Send(c) ==
  /\ c \notin left /\ sent[c] < MaxUnits /\ sent' = [sent EXCEPT ![c] = @ + 1]
  /\ pending' = [pending EXCEPT ![c] = Append(@, [from |-> c, no |-> sent[c] + 1])]
  /\ UNCHANGED <<echoed, left>>

Return(c) ==
  /\ pending[c] # << >> /\ pending' = [pending EXCEPT ![c] = Tail(@)]
  /\ echoed' = [echoed EXCEPT ![c] = Append(@, Head(pending[c]))]
  /\ UNCHANGED <<sent, left>>

\* What remains of q when up to BufSize units that follow each other are taken out.
Without(q, i, n) == SubSeq(q, 1, i) \o SubSeq(q, i + n + 1, Len(q))
Remains(q) == {Without(q, i, n) : i \in 0..(Len(q) - 1), n \in 1..BufSize}

Lose(c) ==
  /\ \E r \in Remains(pending[c]) : /\ r # << >> \/ c \in left
                                    /\ pending' = [pending EXCEPT ![c] = r]
  /\ UNCHANGED <<sent, echoed, left>>

Leave(c) == left' = left \cup {c} /\ UNCHANGED <<sent, pending, echoed>>

Next == \E c \in Clients : Send(c) \/ Return(c) \/ Lose(c) \/ Leave(c)

Spec == Init /\ [][Next]_vars
================================================================================
