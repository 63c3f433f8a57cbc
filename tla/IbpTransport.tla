---------------------------- MODULE IbpTransport ----------------------------
(***************************************************************************)
(* Events over the in-band protocol (canbus/IBP.py: Transport, with ack).  A     *)
(* sender cuts an event into chunks and announces it with an empty packet; the   *)
(* receiver asks for chunk after chunk, and its idle thread asks again.  A        *)
(* request carries the address of the node it goes to; every node hears every     *)
(* packet.  Packets are steps here: IbpPacket has their frames.                   *)
(***************************************************************************)
EXTENDS Integers, Sequences, FiniteSets, Functions

CONSTANTS
  IbpNodes,      \* the nodes on the channel (their addresses)
  EventSizes,    \* chunks an event is cut into
  Lossy,         \* packets that may be lost: "handshake", "data", "request", "final"
  Overlaps,      \* may an event be sent before the last one got through?
  Premature,     \* may a request be repeated while its answer is under way?
  MaxEvents,     \* bound: events
  MaxPacketsLost \* bound: packets lost

EventIds == 1..MaxEvents
IbpPairs == {x \in IbpNodes \X IbpNodes : x[1] # x[2]}

VARIABLES
  ibpEvents,  \* the events sent: sender and number of chunks
  chSend,     \* node -> __ch_send: chunks <<event, number>>
  chRecv,     \* node -> __ch_recv: address -> number -> chunk
  chReq,      \* node -> __ch_req: address -> number of the last chunk
  air,        \* <<sender, receiver>> -> packets on their way
  heard,      \* <<sender, receiver>> -> events passed up; 0 is none that was sent
  packetsLost \* packets lost (bound)

ibpVars == <<ibpEvents, chSend, chRecv, chReq, air, heard, packetsLost>>

Nothing == <<0, 0>>
Chunks(id) == [i \in 1..ibpEvents[id].size |-> <<id, i>>]

IbpInit ==
  /\ ibpEvents = <<>>
  /\ chSend = [n \in IbpNodes |-> <<>>]
  /\ chRecv = [n \in IbpNodes |-> <<>>] /\ chReq = [n \in IbpNodes |-> <<>>]
  /\ air = [x \in IbpPairs |-> <<>>] /\ heard = [x \in IbpPairs |-> <<>>]
  /\ packetsLost = 0

Data(from, seq, chunk, fin) == [addr |-> from, ack |-> FALSE, fin |-> fin, seq |-> seq, chunk |-> chunk]
AckOf(to, seq, fin) == [addr |-> to, ack |-> TRUE, fin |-> fin, seq |-> seq, chunk |-> Nothing]

Kind(p) ==
  CASE ~p.ack /\ p.chunk = Nothing -> "handshake"
    [] ~p.ack /\ p.chunk # Nothing -> "data"
    [] p.ack /\ ~p.fin -> "request"
    [] p.ack /\ p.fin -> "final"

(* A packet from node a, or a request for it, is on its way.                         *)
OnAir(a) == \E x \in IbpPairs : \E i \in DOMAIN air[x] : air[x][i].addr = a

(* An event of node n is under way: the nodes it goes to are not through with it.     *)
UnderWay(n) == OnAir(n) \/ \E m \in IbpNodes : n \in DOMAIN chReq[m]

(* Node n sends packets; x, when it is not <<>>, is where the one it handles came from. *)
Put(n, x, ps) ==
  air' = [y \in IbpPairs |-> (IF y = x THEN Tail(air[y]) ELSE air[y]) \o (IF y[1] = n THEN ps ELSE <<>>)]

-----------------------------------------------------------------------------
(* send_data(): the chunks join those of an event that is not through yet.           *)
SendData(n, size) ==
  /\ Len(ibpEvents) < MaxEvents
  /\ Overlaps \/ ~UnderWay(n)
  /\ ibpEvents' = Append(ibpEvents, [by |-> n, size |-> size])
  /\ chSend' = [chSend EXCEPT ![n] = @ \o [i \in 1..size |-> <<Len(ibpEvents) + 1, i>>]]
  /\ Put(n, <<>>, <<Data(n, 0, Nothing, FALSE)>>)
  /\ UNCHANGED <<chRecv, chReq, heard, packetsLost>>

IsMine(n, p) == p.ack /\ p.addr = n

ReceiveAckKeep(x) ==   \* mutant: the final request does not clear the chunks
  /\ air[x] # <<>> /\ IsMine(x[2], Head(air[x]))
  /\ LET p == Head(air[x])
         chunks == chSend[x[2]]
     IN /\ chSend' = chSend
        /\ Put(x[2], x, IF p.fin \/ p.seq >= Len(chunks) THEN <<>>
                        ELSE <<Data(x[2], p.seq, chunks[p.seq + 1], p.seq = Len(chunks) - 1)>>)
  /\ UNCHANGED <<ibpEvents, chRecv, chReq, heard, packetsLost>>

(* recv_raw(), a request for this node: it sends the chunk, or is done.               *)
ReceiveAck(x) ==
  /\ air[x] # <<>> /\ IsMine(x[2], Head(air[x]))
  /\ LET p == Head(air[x])
         chunks == chSend[x[2]]
     IN /\ chSend' = [chSend EXCEPT ![x[2]] = IF p.fin THEN <<>> ELSE @]
        /\ Put(x[2], x, IF p.fin \/ p.seq >= Len(chunks) THEN <<>>
                        ELSE <<Data(x[2], p.seq, chunks[p.seq + 1], p.seq = Len(chunks) - 1)>>)
  /\ UNCHANGED <<ibpEvents, chRecv, chReq, heard, packetsLost>>

(* __flush(): the chunks are joined in the order of their numbers.                      *)
First(buf) == CHOOSE k \in DOMAIN buf : \A j \in DOMAIN buf : k <= j
Place(buf, k) == Cardinality({j \in DOMAIN buf : j < k}) + 1

(* flush_data(): the first one says how long the pickle is: what follows it is ignored, and  *)
(* one that is cut off, or has no beginning, raises an exception.                         *)
Flushed(buf) ==
  LET id == buf[First(buf)][1]
      size == ibpEvents[id].size
  IN IF buf = <<>> THEN <<>>
     ELSE IF buf[First(buf)][2] # 1 \/ Cardinality(DOMAIN buf) < size THEN <<>>
     ELSE IF \A k \in DOMAIN buf : Place(buf, k) <= size => buf[k] = <<id, Place(buf, k)>>
          THEN <<id>> ELSE <<0>>

With(f, a, v) == [b \in DOMAIN f \cup {a} |-> IF b = a THEN v ELSE f[b]]
Without(f, a) == [b \in DOMAIN f \ {a} |-> f[b]]
BufferOf(n, a) == IF a \in DOMAIN chRecv[n] THEN chRecv[n][a] ELSE <<>>

(* recv_raw(), everything else: what it keeps, what it passes up, what it asks for next. *)
(* A request for another node has no data, so that it counts as a handshake.             *)
ReceiveData(x) ==
  /\ air[x] # <<>> /\ ~IsMine(x[2], Head(air[x]))
  /\ LET p == Head(air[x])
         n == x[2]
         seq == IF p.chunk = Nothing THEN -1 ELSE p.seq
         buf == IF p.chunk = Nothing THEN BufferOf(n, p.addr) ELSE With(BufferOf(n, p.addr), seq, p.chunk)
     IN /\ IF p.fin
           THEN /\ heard' = [heard EXCEPT ![<<x[1], n>>] = @ \o Flushed(buf)]
                /\ chRecv' = [chRecv EXCEPT ![n] = Without(@, p.addr)]
                /\ chReq' = [chReq EXCEPT ![n] = Without(@, p.addr)]
           ELSE /\ UNCHANGED heard
                /\ chRecv' = IF p.chunk = Nothing THEN chRecv
                             ELSE [chRecv EXCEPT ![n] = With(@, p.addr, buf)]
                /\ chReq' = [chReq EXCEPT ![n] = With(@, p.addr, seq)]
        /\ Put(n, x, <<AckOf(p.addr, seq + 1, p.fin)>>)
  /\ UNCHANGED <<ibpEvents, chSend, packetsLost>>

IdleAfterFirst(n, a) ==   \* mutant: the first chunk is not asked for again
  /\ a \in DOMAIN chReq[n] /\ chReq[n][a] >= 0
  /\ Premature \/ ~OnAir(a)
  /\ Put(n, <<>>, <<AckOf(a, chReq[n][a] + 1, FALSE)>>)
  /\ UNCHANGED <<ibpEvents, chSend, chRecv, chReq, heard, packetsLost>>

(* idle(): the chunk after the last one is asked for again.                             *)
Idle(n, a) ==
  /\ a \in DOMAIN chReq[n]
  /\ Premature \/ ~OnAir(a)
  /\ Put(n, <<>>, <<AckOf(a, chReq[n][a] + 1, FALSE)>>)
  /\ UNCHANGED <<ibpEvents, chSend, chRecv, chReq, heard, packetsLost>>

LosePacket(x) ==
  /\ packetsLost < MaxPacketsLost
  /\ air[x] # <<>> /\ Kind(Head(air[x])) \in Lossy
  /\ packetsLost' = packetsLost + 1
  /\ air' = [air EXCEPT ![x] = Tail(@)]
  /\ UNCHANGED <<ibpEvents, chSend, chRecv, chReq, heard>>

IbpNext ==
  \/ \E n \in IbpNodes : \/ \E size \in EventSizes : SendData(n, size)
                         \/ \E a \in IbpNodes : Idle(n, a)
  \/ \E x \in IbpPairs : ReceiveAck(x) \/ ReceiveData(x) \/ LosePacket(x)

(* Packets are received, and the idle threads run; an event or a loss is never due.         *)
IbpWork ==
  \/ \E x \in IbpPairs : ReceiveAck(x) \/ ReceiveData(x)
  \/ \E n, a \in IbpNodes : Idle(n, a)
-----------------------------------------------------------------------------
SentEvents(n) == {id \in DOMAIN ibpEvents : ibpEvents[id].by = n}

Promise == INSTANCE Transfer WITH
  Nodes <- IbpNodes, Messages <- EventIds,
  sent <- [x \in IbpPairs |-> SentEvents(x[1])],
  received <- heard

(* What is passed up is an event that was sent, whole, in order and once, although chunks    *)
(* and requests are lost and asked for again.                                            *)
EventTransfer == Promise!Spec

(* Every event arrives, although chunks and requests are lost: idle() asks again.            *)
HeardByAll(id) ==
  id \in DOMAIN ibpEvents /\ \A x \in IbpPairs : x[1] = ibpEvents[id].by => id \in Range(heard[x])

EventArrives == \A id \in EventIds : (id \in DOMAIN ibpEvents) ~> HeardByAll(id)
=============================================================================
