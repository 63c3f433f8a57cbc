------------------------------ MODULE Transfer ------------------------------
(***************************************************************************)
(* What a message transport between nodes promises: the messages a node       *)
(* sends to a peer arrive whole, in the order they were sent and at most       *)
(* once.  A message may be lost, and then the following ones may still come.   *)
(* A message is a number, and what is sent later has a greater one.            *)
(***************************************************************************)
EXTENDS Integers, Sequences

CONSTANTS
  Nodes,      \* who sends and receives
  Messages    \* what is sent: numbers

VARIABLES
  sent,       \* <<sender, receiver>> -> the messages sent
  received    \* <<sender, receiver>> -> the messages received

transferVars == <<sent, received>>
Pairs == {x \in Nodes \X Nodes : x[1] # x[2]}

Init ==
  /\ sent = [x \in Pairs |-> {}]
  /\ received = [x \in Pairs |-> <<>>]

(* to one peer, or to several at once *)
Send(a, peers, m) ==
  /\ \A x \in Pairs : x[1] = a => \A k \in sent[x] : k < m
  /\ sent' = [x \in Pairs |-> IF x[1] = a /\ x[2] \in peers THEN sent[x] \cup {m} ELSE sent[x]]
  /\ UNCHANGED received

Receive(x, m) ==
  /\ m \in sent[x] /\ \A i \in DOMAIN received[x] : received[x][i] < m
  /\ received' = [received EXCEPT ![x] = Append(@, m)]
  /\ UNCHANGED sent

Next ==
  \/ \E a \in Nodes : \E peers \in SUBSET Nodes, m \in Messages : Send(a, peers, m)
  \/ \E x \in Pairs : \E m \in sent[x] : Receive(x, m)

Spec == Init /\ [][Next]_transferVars
=============================================================================
