------------------------------ MODULE IbpPacket -----------------------------
(***************************************************************************)
(* Packets of the in-band protocol (canbus/IBP.py: Packet).  A packet is a      *)
(* header frame, with the number of data frames and a checksum over all, and    *)
(* the data frames, numbered from one.  A receiver keeps one buffer for each     *)
(* sender; a header starts it anew, and the packet is passed up when the last    *)
(* frame comes and the checksum is right.  Threads of a node send packets at     *)
(* the same time, and their frames mix.                                       *)
(***************************************************************************)
EXTENDS Integers, Sequences, Functions

CONSTANTS
  PktNodes,       \* the nodes on the channel
  PktThreads,     \* threads that send, <<node, name>>
  PktLengths,     \* lengths of packets, in data frames
  Count,          \* times each frame is sent
  MaxPackets,     \* bound: packets
  MaxFramesLost   \* bound: frames lost

PktIds == 1..MaxPackets
PktPairs == {x \in PktNodes \X PktNodes : x[1] # x[2]}

VARIABLES
  packets,    \* the packets: sending thread and length (the number is the content)
  sending,    \* thread -> the packet it sends and the frames it has sent
  wire,       \* <<sender, receiver>> -> frames on their way
  frames,     \* <<receiver, sender>> -> self.frames: the buffer, or NoBuffer
  passed,     \* <<sender, receiver>> -> the packets passed up
  framesLost  \* frames lost (bound)

pktVars == <<packets, sending, wire, frames, passed, framesLost>>

NotSending == [id |-> 0, n |-> 0]
NoBuffer == [id |-> 0, len |-> 0, slots |-> <<>>]

PktInit ==
  /\ packets = <<>> /\ sending = [t \in PktThreads |-> NotSending]
  /\ wire = [x \in PktPairs |-> <<>>] /\ frames = [x \in PktPairs |-> NoBuffer]
  /\ passed = [x \in PktPairs |-> <<>>] /\ framesLost = 0

-----------------------------------------------------------------------------
(* send_raw(): the copies of the header, then those of each data frame; the number   *)
(* of a frame counts the copies too, and a data frame holds the part it belongs to.   *)
FrameAt(id, n) ==
  IF n <= Count THEN [id |-> id, seq |-> 0, part |-> 0]
                ELSE [id |-> id, seq |-> n - Count, part |-> (n - Count - 1) \div Count + 1]

FramesOf(id) == Count * (1 + packets[id].len)

Broadcast(node, f) == wire' = [x \in PktPairs |-> IF x[1] = node THEN Append(wire[x], f) ELSE wire[x]]

SendRaw(t, len) ==
  /\ sending[t] = NotSending /\ Len(packets) < MaxPackets
  /\ packets' = Append(packets, [by |-> t, len |-> len])
  /\ sending' = [sending EXCEPT ![t] = [id |-> Len(packets) + 1, n |-> 1]]
  /\ Broadcast(t[1], FrameAt(Len(packets) + 1, 1))
  /\ UNCHANGED <<frames, passed, framesLost>>

SendFrame(t) ==
  /\ sending[t] # NotSending
  /\ IF sending[t].n = FramesOf(sending[t].id)
     THEN sending' = [sending EXCEPT ![t] = NotSending] /\ UNCHANGED wire
     ELSE /\ sending' = [sending EXCEPT ![t].n = @ + 1]
          /\ Broadcast(t[1], FrameAt(sending[t].id, sending[t].n + 1))
  /\ UNCHANGED <<packets, frames, passed, framesLost>>

-----------------------------------------------------------------------------
BufferedKept(b, f) ==   \* mutant: a header does not start a buffer anew
  IF f.seq = 0 /\ b = NoBuffer THEN [id |-> f.id, len |-> packets[f.id].len, slots |-> <<>>]
  ELSE IF b = NoBuffer \/ f.seq = 0 \/ f.seq > b.len THEN b
  ELSE [b EXCEPT !.slots = [i \in DOMAIN @ \cup {f.seq} |->
                              IF i = f.seq THEN <<f.id, f.part>> ELSE @[i]]]

(* handle_packet(): what the frame leaves in the buffer of its sender ...              *)
Buffered(b, f) ==
  IF f.seq = 0 THEN [id |-> f.id, len |-> packets[f.id].len, slots |-> <<>>]
  ELSE IF b = NoBuffer \/ f.seq > b.len THEN b
  ELSE [b EXCEPT !.slots = [i \in DOMAIN @ \cup {f.seq} |->
                              IF i = f.seq THEN <<f.id, f.part>> ELSE @[i]]]

WholeThere(b) == DOMAIN b.slots = 1..b.len   \* mutant: the checksum is not looked at

(* ... every frame is there, and the checksum of the header fits them ...               *)
WholePacket(b) ==
  /\ DOMAIN b.slots = 1..b.len
  /\ \A i \in 1..b.len : b.slots[i] = <<b.id, i>>

(* the packet whose data frames these are, or 0                                       *)
ContentOf(b) == IF \A i \in 1..b.len : b.slots[i] = <<b.id, i>> THEN b.id ELSE 0

(* ... it is passed up, and the buffer goes; else it stays.                              *)
ReceiveFrame(x) ==
  /\ wire[x] # <<>>
  /\ LET f == Head(wire[x])
         kept == Buffered(frames[x], f)
     IN IF kept # NoBuffer /\ f.seq = kept.len /\ WholePacket(kept)
        THEN /\ passed' = [passed EXCEPT ![x] = Append(@, ContentOf(kept))]
             /\ frames' = [frames EXCEPT ![x] = NoBuffer]
        ELSE frames' = [frames EXCEPT ![x] = kept] /\ UNCHANGED passed
  /\ wire' = [wire EXCEPT ![x] = Tail(@)]
  /\ UNCHANGED <<packets, sending, framesLost>>

LoseFrame(x) ==
  /\ framesLost < MaxFramesLost /\ wire[x] # <<>>
  /\ framesLost' = framesLost + 1
  /\ wire' = [wire EXCEPT ![x] = Tail(@)]
  /\ UNCHANGED <<packets, sending, frames, passed>>

PktNext ==
  \/ \E t \in PktThreads : (\E len \in PktLengths : SendRaw(t, len)) \/ SendFrame(t)
  \/ \E x \in PktPairs : ReceiveFrame(x) \/ LoseFrame(x)

(* A thread goes on with the packet it sends, and frames are received; a packet or a     *)
(* loss is never due.                                                                *)
PktWork == (\E t \in PktThreads : SendFrame(t)) \/ (\E x \in PktPairs : ReceiveFrame(x))
-----------------------------------------------------------------------------
SentBy(node) == {id \in DOMAIN packets : packets[id].by[1] = node}

Promise == INSTANCE Transfer WITH
  Nodes <- PktNodes, Messages <- PktIds,
  sent <- [x \in PktPairs |-> SentBy(x[1])],
  received <- passed

(* What is passed up is a packet that was sent, whole, in order and at most once,         *)
(* whatever frames are lost and however the frames of two threads of a node mix:          *)
(* the checksum, and a buffer that goes when it was passed up.                            *)
PacketTransfer == Promise!Spec

(* No other thread of its node sends a packet.                                             *)
Alone(id) ==
  id \in DOMAIN packets /\ \A i \in DOMAIN packets :
    packets[i].by[1] = packets[id].by[1] => packets[i].by = packets[id].by

(* A packet no other thread of its node sends along with arrives, unless one of its own      *)
(* frames is lost: the rest of an earlier packet does no harm.                             *)
Receivers(id) == {x \in PktPairs : x[1] = packets[id].by[1]}
Begun(id) ==
  /\ id \in DOMAIN packets /\ sending[packets[id].by] = [id |-> id, n |-> 1]
  /\ \A x \in Receivers(id) : FrameAt(id, 1) \in Range(wire[x])
Arrived(id) == id \in DOMAIN packets /\ \A x \in Receivers(id) : id \in Range(passed[x])

PacketArrives ==
  \A id \in PktIds : \A k \in 0..MaxFramesLost :
    (Begun(id) /\ framesLost = k) ~> (framesLost > k \/ ~Alone(id) \/ Arrived(id))
=============================================================================
