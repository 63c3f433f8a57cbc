------------------------------ MODULE MCCanbus ------------------------------
(* The protocols and helpers on the CAN bus, one at a time: a behaviour is one of    *)
(* IsoTp, IbpPacket, IbpTransport, J1939, Periodic or Comm, chosen at the start, and    *)
(* the variables of the others do not change.  They share no state.                   *)
EXTENDS Integers

CONSTANTS
  Parts,                                                                        \* those that a behaviour may be
  a, b, all,                                                                    \* nodes
  Nodes, Lengths, Priority, Overlap, MaxSends, MaxLost,                                   \* IsoTp
  PktNodes, PktThreads, PktLengths, Count, MaxPackets, MaxFramesLost,           \* IbpPacket
  IbpNodes, EventSizes, Lossy, Overlaps, Premature, MaxEvents, MaxPacketsLost,  \* IbpTransport
  BusNodes, Everybody, Sizes, Duplex, MissesRestart, MaxTransfers, MaxAborts, MaxMissed,  \* J1939
  EcuThreads, FrameIds, FrameData, Durations, BusRefuses, MaxSets,              \* Periodic
  CommIds, Wanted, WaitTimeout, MaxListens, MaxSeen                             \* Comm

VARIABLES
  part,
  msgs, bus, starting, txq, rxq, burst, got, lost,
  packets, sending, wire, frames, passed, framesLost,
  ibpEvents, chSend, chRecv, chReq, air, heard, packetsLost,
  transfers, current, track, joined, aborts, missed,
  lastData, calling, taskEvents, ecuBus, tasks, asked, unstarted, sets,
  buffers, listening, rcvd, listener, handling, due, seen

Iso == INSTANCE IsoTp
Packet == INSTANCE IbpPacket
Transport == INSTANCE IbpTransport
Decoder == INSTANCE J1939
Ecu == INSTANCE Periodic
Talk == INSTANCE Comm

ASSUME PartsAssumption == Parts \subseteq {"iso", "packet", "transport", "decoder", "periodic", "comm"}
ASSUME IsoAssumption == Iso!IsoConstants
ASSUME PacketAssumption ==
  /\ \A t \in PktThreads : t[1] \in PktNodes
  /\ PktLengths \subseteq Nat /\ Count \in Nat \ {0} /\ MaxPackets \in Nat
ASSUME TransportAssumption == EventSizes \subseteq Nat \ {0} /\ MaxEvents \in Nat
ASSUME DecoderAssumption ==
  /\ Sizes \subseteq Nat \ {0} /\ Duplex \in BOOLEAN /\ MissesRestart \in BOOLEAN
  /\ MaxTransfers \in Nat /\ MaxAborts \in Nat /\ MaxMissed \in Nat
ASSUME EcuAssumption == Ecu!NoData \notin FrameIds /\ MaxSets \in Nat
ASSUME CommAssumption == Talk!NotListening \notin CommIds

(* Messages of one frame, of several, and of more than there are frame numbers; of several; *)
(* and a reassembly of 4116 % 4096 = 20 bytes.                                           *)
MCLengths == [n \in Nodes |-> IF n = a THEN {20, 125} ELSE {3, 20}]
MCShort == [n \in Nodes |-> {20}]
MCLong == [n \in Nodes |-> {4116}]
MCThreads == {<<a, "event">>, <<a, "packet">>}
MCTwo == {<<a, "event">>, <<b, "event">>}

Init ==
  /\ part \in Parts /\ Iso!Init
  /\ Packet!PktInit /\ Transport!IbpInit /\ Decoder!JInit /\ Ecu!PeriodicInit /\ Talk!CommInit

IsoVars == <<msgs, bus, starting, txq, rxq, burst, got, lost>>
PacketVars == <<packets, sending, wire, frames, passed, framesLost>>
TransportVars == <<ibpEvents, chSend, chRecv, chReq, air, heard, packetsLost>>
DecoderVars == <<transfers, current, track, joined, aborts, missed>>
EcuVars == <<lastData, calling, taskEvents, ecuBus, tasks, asked, unstarted, sets>>
TalkVars == <<buffers, listening, rcvd, listener, handling, due, seen>>
vars == <<part, IsoVars, PacketVars, TransportVars, DecoderVars, EcuVars, TalkVars>>

Others(p) ==
  /\ part = p /\ UNCHANGED part
  /\ p # "iso" => UNCHANGED IsoVars
  /\ p # "packet" => UNCHANGED PacketVars
  /\ p # "transport" => UNCHANGED TransportVars
  /\ p # "decoder" => UNCHANGED DecoderVars
  /\ p # "periodic" => UNCHANGED EcuVars
  /\ p # "comm" => UNCHANGED TalkVars

IsoStep == part = "iso" /\ Iso!Next /\ Others("iso")
PacketStep == part = "packet" /\ Packet!PktNext /\ Others("packet")
TransportStep == part = "transport" /\ Transport!IbpNext /\ Others("transport")
DecoderStep == part = "decoder" /\ Decoder!JNext /\ Others("decoder")
PeriodicStep == part = "periodic" /\ Ecu!PeriodicNext /\ Others("periodic")
CommStep == part = "comm" /\ Talk!CommNext /\ Others("comm")

Next == IsoStep \/ PacketStep \/ TransportStep \/ DecoderStep \/ PeriodicStep \/ CommStep

Work ==
  \/ part = "iso" /\ Iso!Work /\ Others("iso")
  \/ part = "packet" /\ Packet!PktWork /\ Others("packet")
  \/ part = "transport" /\ Transport!IbpWork /\ Others("transport")

(* Comm: the two threads. *)
ListenWork == part = "comm" /\ Talk!ListenWork /\ Others("comm")
HandleWork == part = "comm" /\ Talk!HandleWork /\ Others("comm")

Spec == Init /\ [][Next]_vars /\ WF_vars(Work) /\ WF_vars(ListenWork) /\ WF_vars(HandleWork)

(* IsoTp: as long as no frame is lost every message arrives, over links of priority 1.    *)
AllDelivered == Iso!AllDelivered
(* IsoTp: messages arrive whole, in order and once, although frames are lost.             *)
MessageTransfer == Iso!ImplementsTransfer
(* IbpPacket: packets arrive whole, in order and once, whatever is lost or mixed.     *)
PacketTransfer == Packet!PacketTransfer
(* IbpPacket: and the rest of an earlier packet keeps none from arriving.              *)
PacketArrives == Packet!PacketArrives
(* IbpTransport: events arrive whole, in order and once, although packets are lost.     *)
EventTransfer == Transport!EventTransfer
(* IbpTransport: and every event arrives, because idle() asks again.                    *)
EventArrives == Transport!EventArrives
(* J1939: frames of two transfers are never joined.                                    *)
DecoderTransfer == Decoder!DecoderTransfer
(* Periodic: at rest the interface sends what was last set, but for what did not start.   *)
SendsWhatWasSet == Ecu!SendsWhatWasSet
(* Comm: a frame that comes while listen() listens is in its list.                      *)
NothingMissed == Talk!NothingMissed
(* Comm: and the last one that it wants ends the call, when it comes while it waits.      *)
ListenReturns == Talk!ListenReturns

(* What does not hold, or only in other configurations; the README says where.            *)
(* IsoTp: what is delivered under a message's number is that message.                     *)
Integrity == Iso!Integrity
(* IsoTp: after a loss the next message that is whole arrives.                            *)
Recovers == Iso!Recovers
(* Periodic: a frame that was set to something is sent.                                  *)
StartsAgain == Ecu!StartsAgain
(* Comm: who waits has no frame that it wants.                                          *)
NeverWaitsInVain == Talk!NeverWaitsInVain
=============================================================================
