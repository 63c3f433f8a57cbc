-------------------------------- MODULE IsoTp -------------------------------
(***************************************************************************)
(* The ISO 15765 transport (canbus/UDS.py: construct_frames,                 *)
(* ISOTransportQueue, ISO).  A message of less than eight bytes is one frame;  *)
(* a longer one is a first frame with the length, which the receiver answers   *)
(* with a flow control frame, whereupon the sender sends all the consecutive   *)
(* frames, numbered modulo 16.  A node keeps the frames of one message for     *)
(* each receiver, and one reassembly for each sender.  No timer ends either.   *)
(*                                                                          *)
(* A node has two threads: the event thread starts messages, the packet        *)
(* thread handles incoming frames, and sends all the consecutive frames        *)
(* before it handles the next.  The bus keeps the order of a node's frames,    *)
(* and may lose one.                                                          *)
(***************************************************************************)
EXTENDS Integers, Sequences, FiniteSets, FiniteSetsExt

CONSTANTS
  Nodes,      \* the nodes on the bus
  Lengths,    \* node -> lengths of the messages it sends, in bytes
  Priority,   \* of the links between the plugin and the bus: 0 or 1
  Overlap,    \* may a node send to a peer before the last message got through?
  MaxSends,   \* bound: messages
  MaxLost     \* bound: frames lost

NumMod == 16      \* the frame number has four bits,
LenMod == 4096    \* the length twelve

(* From 8192 bytes on the length changes even the kind of the first frame; a    *)
(* message has at least its service identifier.                                *)
IsoConstants ==
  /\ IsFiniteSet(Nodes)
  /\ Lengths \in [Nodes -> SUBSET (1..(2 * LenMod - 1))]
  /\ Priority \in {0, 1} /\ Overlap \in BOOLEAN /\ MaxSends \in Nat /\ MaxLost \in Nat

Ids == 1..MaxSends
Pairs == {x \in Nodes \X Nodes : x[1] # x[2]}

(* Consecutive frames after the six bytes of the first frame: seven bytes each. *)
Blocks(len) == len \div 7
IsLong(len) == len >= 8

(* n: the length field of a first frame, the block in a consecutive frame       *)
Frames == [kind : {"single", "first", "consecutive"}, id : Ids, n : Nat]
FlowControl == [kind |-> "flow", id |-> 0, n |-> 0]
Frame(kind, id, n) == [kind |-> kind, id |-> id, n |-> n]

VARIABLES
  msgs,     \* the messages: sender, receiver, length (the number is their content)
  bus,      \* <<sender, receiver>> -> frames on their way
  starting, \* node -> the message its event thread is sending, or 0
  txq,      \* <<sender, receiver>> -> tx_queues: the message whose frames wait, or 0
  rxq,      \* <<sender, receiver>> -> rx_queues: the reassembly, or None
  burst,    \* node -> the consecutive frames its packet thread is sending
  got,      \* <<sender, receiver>> -> the messages passed up: their parts
  lost      \* frames lost (bound)

vars == <<msgs, bus, starting, txq, rxq, burst, got, lost>>

None == [first |-> 0, len |-> 0, slots |-> <<>>]
NoBurst == [id |-> 0, to |-> "none", n |-> 0]
Part(id, n) == <<id, n>>
Hole == <<0, 0>>

TypeOK ==
  /\ msgs \in Seq([pair : Pairs, len : UNION {Lengths[a] : a \in Nodes}]) /\ Len(msgs) <= MaxSends
  /\ bus \in [Pairs -> Seq(Frames \cup {FlowControl})]
  /\ starting \in [Nodes -> Ids \cup {0}]
  /\ txq \in [Pairs -> Ids \cup {0}]
  /\ rxq \in [Pairs -> [first : Ids \cup {0}, len : 0..(LenMod - 1), slots : Seq(Ids \X Nat \cup {Hole})]]
  /\ burst \in [Nodes -> [id : Ids, to : Nodes, n : Nat] \cup {NoBurst}]
  /\ got \in [Pairs -> Seq([len : Nat, parts : Seq(Ids \X Nat)])]
  /\ lost \in 0..MaxLost

Init ==
  /\ msgs = <<>> /\ bus = [x \in Pairs |-> <<>>]
  /\ starting = [a \in Nodes |-> 0] /\ txq = [x \in Pairs |-> 0]
  /\ rxq = [x \in Pairs |-> None] /\ burst = [a \in Nodes |-> NoBurst]
  /\ got = [x \in Pairs |-> <<>>] /\ lost = 0

Back(x) == <<x[2], x[1]>>

(* A frame that answers another is sent with dispatch = info['prev'].  That is a set *)
(* of names, which __dispatch() takes for one name, and no link has it: only links  *)
(* of a positive priority carry the frame.                                         *)
AnswersLeave == Priority > 0

Put(x, f) == bus' = [bus EXCEPT ![x] = Append(@, f)]

-----------------------------------------------------------------------------
(* Sending. *)

(* A message from x[1] to x[2] is under way: a thread is sending it, or one of   *)
(* its frames or the flow control for it is on the bus.                         *)
UnderWay(x) ==
  \/ starting[x[1]] # 0 /\ msgs[starting[x[1]]].pair = x
  \/ burst[x[1]].to = x[2]
  \/ \E i \in DOMAIN bus[x] : bus[x][i] # FlowControl
  \/ \E i \in DOMAIN bus[Back(x)] : bus[Back(x)][i] = FlowControl

SendMessageKeep(x, len) ==   \* mutant: frames that still wait are kept
  /\ Len(msgs) < MaxSends /\ starting[x[1]] = 0
  /\ Overlap \/ ~UnderWay(x)
  /\ msgs' = Append(msgs, [pair |-> x, len |-> len])
  /\ starting' = [starting EXCEPT ![x[1]] = Len(msgs) + 1]
  /\ txq' = [txq EXCEPT ![x] = IF IsLong(len) /\ @ = 0 THEN Len(msgs) + 1 ELSE @]
  /\ UNCHANGED <<bus, rxq, burst, got, lost>>

(* send_message(): the frames of a long message are kept for the flow control ... *)
SendMessage(x, len) ==
  /\ Len(msgs) < MaxSends /\ starting[x[1]] = 0
  /\ Overlap \/ ~UnderWay(x)
  /\ msgs' = Append(msgs, [pair |-> x, len |-> len])
  /\ starting' = [starting EXCEPT ![x[1]] = Len(msgs) + 1]
  /\ txq' = [txq EXCEPT ![x] = IF IsLong(len) THEN Len(msgs) + 1 ELSE @]
  /\ UNCHANGED <<bus, rxq, burst, got, lost>>

(* ... and the first frame is sent.                                            *)
SendFirst(a) ==
  /\ starting[a] # 0
  /\ LET m == msgs[starting[a]] IN
       Put(m.pair, IF IsLong(m.len) THEN Frame("first", starting[a], m.len % LenMod)
                                    ELSE Frame("single", starting[a], m.len))
  /\ starting' = [starting EXCEPT ![a] = 0]
  /\ UNCHANGED <<msgs, txq, rxq, burst, got, lost>>

(* The packet thread's loop over the consecutive frames, which ends with "del    *)
(* self.tx_queues[sa]", whatever is there by then.                              *)
SendConsecutive(a) ==
  /\ burst[a] # NoBurst
  /\ burst[a].n <= Blocks(msgs[burst[a].id].len)
  /\ IF AnswersLeave THEN Put(<<a, burst[a].to>>, Frame("consecutive", burst[a].id, burst[a].n))
                     ELSE UNCHANGED bus
  /\ burst' = [burst EXCEPT ![a].n = @ + 1]
  /\ UNCHANGED <<msgs, starting, txq, rxq, got, lost>>

SendDone(a) ==
  /\ burst[a] # NoBurst
  /\ burst[a].n > Blocks(msgs[burst[a].id].len)
  /\ txq' = [txq EXCEPT ![<<a, burst[a].to>>] = 0]
  /\ burst' = [burst EXCEPT ![a] = NoBurst]
  /\ UNCHANGED <<msgs, bus, starting, rxq, got, lost>>

-----------------------------------------------------------------------------
(* Receiving: read_frame() and process_frame() of the packet thread of x[2].     *)

Incoming(x, kind) ==
  /\ burst[x[2]] = NoBurst
  /\ bus[x] # <<>> /\ Head(bus[x]).kind = kind

PassUp(x, len, parts) ==
  got' = [got EXCEPT ![x] = Append(@, [len |-> len, parts |-> parts])]

ReceiveSingle(x) ==
  /\ Incoming(x, "single")
  /\ PassUp(x, Head(bus[x]).n, <<Part(Head(bus[x]).id, 0)>>)
  /\ bus' = [bus EXCEPT ![x] = Tail(@)]
  /\ UNCHANGED <<msgs, starting, txq, rxq, burst, lost>>

(* A first frame starts a reassembly and is answered, unless there is one; whether *)
(* the answer leaves or not, the reassembly stays.                               *)
ReceiveFirst(x) ==
  /\ Incoming(x, "first")
  /\ LET f == Head(bus[x]) IN
     IF rxq[x] = None
     THEN /\ rxq' = [rxq EXCEPT ![x] =
                       [first |-> f.id, len |-> f.n,
                        slots |-> [i \in 1..Blocks(f.n) |-> Hole]]]
          /\ bus' = [bus EXCEPT ![x] = Tail(@),
                                ![Back(x)] = IF AnswersLeave THEN Append(@, FlowControl) ELSE @]
     ELSE /\ bus' = [bus EXCEPT ![x] = Tail(@)]
          /\ UNCHANGED rxq
  /\ UNCHANGED <<msgs, starting, txq, burst, got, lost>>

FreeUnwrapped(slots, n) == {i \in DOMAIN slots : slots[i] = Hole /\ i = n % NumMod}   \* mutant

(* add_message(): the free slots that the frame's number may stand for.          *)
Free(slots, n) == {i \in DOMAIN slots : slots[i] = Hole /\ i % NumMod = n % NumMod}

Place(slots, n, p) == [slots EXCEPT ![Min(Free(slots, n))] = p]

IsFull(slots) == \A i \in DOMAIN slots : slots[i] # Hole

(* A consecutive frame goes into the first of them; the reassembly is passed up   *)
(* when it is full.  Without a reassembly, or a slot (an exception), it is         *)
(* ignored.                                                                       *)
ReceiveConsecutive(x) ==
  /\ Incoming(x, "consecutive")
  /\ LET f == Head(bus[x])
         r == rxq[x]
         slots == Place(r.slots, f.n, Part(f.id, f.n))
     IN IF r = None \/ Free(r.slots, f.n) = {}
        THEN UNCHANGED <<rxq, got>>
        ELSE IF IsFull(slots)
        THEN /\ PassUp(x, r.len, <<Part(r.first, 0)>> \o slots)
             /\ rxq' = [rxq EXCEPT ![x] = None]
        ELSE /\ rxq' = [rxq EXCEPT ![x].slots = slots]
             /\ UNCHANGED got
  /\ bus' = [bus EXCEPT ![x] = Tail(@)]
  /\ UNCHANGED <<msgs, starting, txq, burst, lost>>

(* A flow control frame releases the frames kept for its sender.                  *)
ReceiveFlow(x) ==
  /\ Incoming(x, "flow")
  /\ burst' = IF txq[Back(x)] = 0 THEN burst
              ELSE [burst EXCEPT ![x[2]] = [id |-> txq[Back(x)], to |-> x[1], n |-> 1]]
  /\ bus' = [bus EXCEPT ![x] = Tail(@)]
  /\ UNCHANGED <<msgs, starting, txq, rxq, got, lost>>

Lose(x) ==
  /\ lost < MaxLost
  /\ bus[x] # <<>>
  /\ lost' = lost + 1
  /\ bus' = [bus EXCEPT ![x] = Tail(@)]
  /\ UNCHANGED <<msgs, starting, txq, rxq, burst, got>>

-----------------------------------------------------------------------------
Receive(x) ==
  ReceiveSingle(x) \/ ReceiveFirst(x) \/ ReceiveConsecutive(x) \/ ReceiveFlow(x)

Send(a) == SendFirst(a) \/ SendConsecutive(a) \/ SendDone(a)

Next ==
  \/ \E x \in Pairs : (\E len \in Lengths[x[1]] : SendMessage(x, len)) \/ Receive(x) \/ Lose(x)
  \/ \E a \in Nodes : Send(a)

Spec == Init /\ [][Next]_vars

(* The threads do not all stop while one of them has something to do; a send or a   *)
(* loss is never due.                                                            *)
Work == (\E x \in Pairs : Receive(x)) \/ (\E a \in Nodes : Send(a))
FairSpec == Spec /\ WF_vars(Work)
-----------------------------------------------------------------------------
(* the parts of message id, in order *)
Whole(id) == [i \in 1..(Blocks(msgs[id].len) + 1) |-> Part(id, i - 1)]
PartsOf(id) == IF IsLong(msgs[id].len) THEN Whole(id) ELSE <<Part(id, 0)>>
IsMessage(x, g, id) ==
  id \in DOMAIN msgs /\ msgs[id].pair = x /\ g.len = msgs[id].len /\ g.parts = PartsOf(id)

(* "generate events if full message received": what is passed up is a message     *)
(* that was sent, all of it and nothing else.                                     *)
Integrity ==
  \A x \in Pairs : \A i \in DOMAIN got[x] :
    \E id \in DOMAIN msgs : IsMessage(x, got[x][i], id)

Delivered(id) ==
  /\ id \in DOMAIN msgs
  /\ \E i \in DOMAIN got[msgs[id].pair] : IsMessage(msgs[id].pair, got[msgs[id].pair][i], id)

(* As long as no frame is lost every message arrives: over links of priority 1.     *)
AllDelivered == \A id \in Ids : (id \in DOMAIN msgs) ~> (lost > 0 \/ Delivered(id))

(* A loss costs the message it hits and no other: one sent when nothing is under   *)
(* way any more, and which loses no frame, arrives.                               *)
Recovers ==
  \A id \in Ids : (id \in DOMAIN msgs /\ lost = MaxLost /\ starting[msgs[id].pair[1]] = id)
                    ~> Delivered(id)

(* The transport implements Transfer.                                             *)
IdsOf(x) == {i \in DOMAIN msgs : msgs[i].pair = x}
IdOf(x, g) == IF \E id \in DOMAIN msgs : IsMessage(x, g, id)
              THEN CHOOSE id \in DOMAIN msgs : IsMessage(x, g, id) ELSE 0
GotIds(x) == [i \in DOMAIN got[x] |-> IdOf(x, got[x][i])]

Abstract == INSTANCE Transfer WITH
  Messages <- Ids,
  sent <- [x \in Pairs |-> IdsOf(x)],
  received <- [x \in Pairs |-> GotIds(x)]

ImplementsTransfer == Abstract!Spec
=============================================================================
