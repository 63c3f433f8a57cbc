------------------------------ MODULE Channel -------------------------------
(***************************************************************************)
(* Events over UDP (event.py: Channel).  An event is cut into numbered chunks,   *)
(* the last of which is marked; the listener keeps the chunks of each address    *)
(* and, at a marked one, tries to make an event of all it has.  Nothing is       *)
(* acknowledged: packets may be lost, and may overtake each other.               *)
(***************************************************************************)
EXTENDS Integers, Sequences, SequencesExt, TLC

CONSTANTS
  ChSenders,     \* addresses that send
  ChSizes,       \* chunks an event is cut into
  Overtaking,    \* may a packet overtake another?
  MaxChEvents,   \* bound: events
  MaxChLost      \* bound: packets lost, by sender

VARIABLES
  chEvents,   \* the events sent: sender and number of chunks
  net,        \* sender -> packets on their way
  buf,        \* __buf: address -> number -> chunk <<event, number>>
  chHeard,    \* address -> events passed up; 0 is none that was sent
  chLost      \* sender -> events that lost a packet (history, and bound)

chVars == <<chEvents, net, buf, chHeard, chLost>>

ChInit ==
  /\ chEvents = <<>>
  /\ net = [s \in ChSenders |-> <<>>] /\ buf = [s \in ChSenders |-> <<>>]
  /\ chHeard = [s \in ChSenders |-> <<>>] /\ chLost = [s \in ChSenders |-> {}]

ChunkAt(id, i) == <<id, i>>

(* send(): every chunk of the event, numbered from 0.                                   *)
ChSend(s, size) ==
  /\ Len(chEvents) < MaxChEvents
  /\ chEvents' = Append(chEvents, [by |-> s, size |-> size])
  /\ LET id == Len(chEvents) + 1 IN
     net' = [net EXCEPT ![s] = @ \o [i \in 1..size |-> [seq |-> i - 1, chunk |-> ChunkAt(id, i), fin |-> i = size]]]
  /\ UNCHANGED <<buf, chHeard, chLost>>

Kept(b, p) == IF p.seq \in DOMAIN b THEN b ELSE b @@ (p.seq :> p.chunk)   \* mutant: an old chunk stays

(* The chunk replaces one that has its number.                                          *)
Put(b, p) == [k \in DOMAIN b \cup {p.seq} |-> IF k = p.seq THEN p.chunk ELSE b[k]]

(* The chunks are joined in the order of their numbers; this is the place of number k.        *)
Place(b, k) == Cardinality({j \in DOMAIN b : j < k}) + 1

(* The first one says how long the event is: what follows it is ignored, and one that is       *)
(* cut off, or has no beginning, raises an exception.                                       *)
Begins(b, id) == \E k \in DOMAIN b : b[k] = ChunkAt(id, 1) /\ \A j \in DOMAIN b : k <= j
IsLong(b, id) == Cardinality(DOMAIN b) >= chEvents[id].size
IsWhole(b, id) == \A k \in DOMAIN b : Place(b, k) <= chEvents[id].size => b[k] = ChunkAt(id, Place(b, k))

EventOf(b) ==
  LET said == {id \in DOMAIN chEvents : Begins(b, id) /\ IsLong(b, id)}
      id == CHOOSE i \in said : TRUE
  IN IF said = {} THEN <<>> ELSE IF IsWhole(b, id) THEN <<id>> ELSE <<0>>

(* main(), a packet; with flush() when it is marked: if that makes an event the buffer is     *)
(* dropped, and if not it stays.                                                         *)
ChReceive(s, i) ==
  /\ i \in DOMAIN net[s] /\ (Overtaking \/ i = 1)
  /\ net' = [net EXCEPT ![s] = RemoveAt(@, i)]
  /\ LET p == net[s][i]
         b == Put(buf[s], p)
         event == IF p.fin THEN EventOf(b) ELSE <<>>
     IN /\ buf' = [buf EXCEPT ![s] = IF event = <<>> THEN b ELSE <<>>]
        /\ chHeard' = [chHeard EXCEPT ![s] = @ \o event]
  /\ UNCHANGED <<chEvents, chLost>>

ChLose(s) ==
  /\ net[s] # <<>> /\ Cardinality(chLost[s]) < MaxChLost
  /\ chLost' = [chLost EXCEPT ![s] = @ \cup {Head(net[s]).chunk[1]}]
  /\ net' = [net EXCEPT ![s] = Tail(@)]
  /\ UNCHANGED <<chEvents, buf, chHeard>>

ChNext ==
  \E s \in ChSenders :
    \/ \E size \in ChSizes : ChSend(s, size)
    \/ \E i \in DOMAIN net[s] : ChReceive(s, i)
    \/ ChLose(s)
-----------------------------------------------------------------------------
SentBy(s) == {id \in DOMAIN chEvents : chEvents[id].by = s}
HeardBy(s) == {chHeard[s][i] : i \in DOMAIN chHeard[s]}

(* When all is handled, the events that lost no packet have been passed up, whole, in order    *)
(* and once, and no others: what is left in the buffer of an event that lost one does not       *)
(* hinder, and is not mixed with, the events that follow.                                    *)
UnhurtArrive ==
  \A s \in ChSenders : net[s] = <<>> =>
    /\ \A i, j \in DOMAIN chHeard[s] : i < j => chHeard[s][i] < chHeard[s][j]
    /\ HeardBy(s) = SentBy(s) \ chLost[s]
=============================================================================
