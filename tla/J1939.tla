-------------------------------- MODULE J1939 -------------------------------
(***************************************************************************)
(* Transfers on a J1939 bus and the plugin that watches them                   *)
(* (canbus/j1939.py: J1939Decoder).  A control message announces a transfer, to   *)
(* everybody (BAM) or to one node (RTS, which that one clears with CTS and          *)
(* acknowledges at the end); numbered data frames follow.  The decoder keeps        *)
(* what it has seen by the destination and the source in a frame's identifier,      *)
(* so that what a node sends to another and what it answers it share one track.     *)
(* It may miss frames.                                                          *)
(***************************************************************************)
EXTENDS Integers, Sequences

CONSTANTS
  BusNodes,      \* the nodes, and the address of all
  Everybody,     \* the address of all
  Sizes,         \* frames a transfer has
  Duplex,        \* may two nodes send to each other at the same time?
  MaxTransfers,  \* bound: transfers
  MissesRestart, \* may it miss an announcement, with data of an earlier transfer on the track?
  MaxAborts,     \* bound: transfers given up, by the sender or by the receiver
  MaxMissed      \* bound: frames the decoder misses

TransferIds == 1..MaxTransfers
Tracks == {x \in BusNodes \X BusNodes : x[1] # x[2] /\ x[1] # Everybody}   \* <<source, destination>>
Answering(x) == <<x[2], x[1]>>

VARIABLES
  transfers,  \* the transfers: track and number of frames
  current,    \* track -> the transfer under way, its state and the frames sent
  track,      \* TP_TRACK: track -> what the decoder knows of it
  joined,     \* track -> the transfers joined; 0 is none that was sent
  aborts, missed  \* bounds

jVars == <<transfers, current, track, joined, aborts, missed>>

Idling == [id |-> 0, state |-> "idle", n |-> 0]

(* len: the key 'bytes', as the transfer it is of; dt: 'DT', when there is one            *)
NoTrack == [known |-> FALSE, len |-> 0, packets |-> 0, hasDT |-> FALSE, dt |-> <<>>]

JInit ==
  /\ transfers = <<>> /\ current = [x \in Tracks |-> Idling]
  /\ track = [x \in Tracks |-> NoTrack] /\ joined = [x \in Tracks |-> <<>>]
  /\ aborts = 0 /\ missed = 0

-----------------------------------------------------------------------------
(* J1939DecodeCM() and what effect() does with it.                                  *)

(* BAM and RTS start the track anew,                                                 *)
TrackStart(x, id) ==
  /\ track' = [track EXCEPT ![x] = [known |-> TRUE, len |-> id, packets |-> transfers'[id].size,
                                    hasDT |-> TRUE, dt |-> <<>>]]
  /\ UNCHANGED joined

(* CTS overwrites the number of packets, and keeps the data there may be,               *)
TrackClear(x, id) ==
  /\ track' = [track EXCEPT ![x].known = TRUE, ![x].packets = transfers[id].size]
  /\ UNCHANGED joined

(* ACK and an abort remove it.                                                        *)
TrackEnd(x) == track' = [track EXCEPT ![x] = NoTrack] /\ UNCHANGED joined

CompleteTwo(dt, packets) == \A s \in {1, packets} : s \in DOMAIN dt   \* mutant: some may be missing

(* J1939JoinDT(): a number that is missing raises KeyError, and the data stay.            *)
Complete(dt, packets) == \A s \in 1..packets : s \in DOMAIN dt

Content(cm, dt) ==
  IF \A s \in 1..cm.packets : s \in DOMAIN dt /\ dt[s] = <<cm.len, s>> /\ cm.packets = transfers[cm.len].size
  THEN cm.len ELSE 0

(* J1939DecodeDT(): a frame of a track that is known is kept; the last one joins them.     *)
TrackData(x, id, seq) ==
  LET cm == track[x]
      dt == [s \in DOMAIN cm.dt \cup {seq} |-> IF s = seq THEN <<id, seq>> ELSE cm.dt[s]]
  IN IF ~cm.known \/ ~cm.hasDT THEN UNCHANGED <<track, joined>>
     ELSE IF seq = cm.packets /\ Complete(dt, cm.packets)
     THEN /\ track' = [track EXCEPT ![x].hasDT = FALSE, ![x].dt = <<>>]
          /\ joined' = [joined EXCEPT ![x] = Append(@, Content(cm, dt))]
     ELSE track' = [track EXCEPT ![x].dt = dt] /\ UNCHANGED joined

(* The decoder may miss any of them, an announcement while nothing is left on its track.  *)
Miss == missed < MaxMissed /\ missed' = missed + 1 /\ UNCHANGED <<track, joined>>
Watch == missed' = missed

-----------------------------------------------------------------------------
(* The nodes on the bus: J1939EncodeCM() and J1939EncodeDT() in the order of the protocol. *)

Announce(x, size) ==
  /\ current[x] = Idling /\ Len(transfers) < MaxTransfers
  /\ Duplex \/ \A y \in Tracks : y = Answering(x) => current[y] = Idling
  /\ transfers' = Append(transfers, [track |-> x, size |-> size])
  /\ current' = [current EXCEPT ![x] = [id |-> Len(transfers) + 1, n |-> 0,
                    state |-> IF x[2] = Everybody THEN "clear" ELSE "asked"]]
  /\ \/ Watch /\ TrackStart(x, Len(transfers) + 1)
     \/ (MissesRestart \/ ~track[x].hasDT) /\ Miss
  /\ UNCHANGED aborts

ClearToSend(x) ==
  /\ current[x].state = "asked"
  /\ current' = [current EXCEPT ![x].state = "clear"]
  /\ (Watch /\ TrackClear(Answering(x), current[x].id)) \/ Miss
  /\ UNCHANGED <<transfers, aborts>>

SendDT(x) ==
  /\ current[x].state = "clear" /\ current[x].n < transfers[current[x].id].size
  /\ current' = [current EXCEPT ![x] =
       IF @.n + 1 = transfers[@.id].size /\ x[2] = Everybody THEN Idling
                                                            ELSE [current[x] EXCEPT !.n = @ + 1]]
  /\ (Watch /\ TrackData(x, current[x].id, current[x].n + 1)) \/ Miss
  /\ UNCHANGED <<transfers, aborts>>

Acknowledge(x) ==
  /\ current[x].state = "clear" /\ current[x].n = transfers[current[x].id].size
  /\ current' = [current EXCEPT ![x] = Idling]
  /\ (Watch /\ TrackEnd(Answering(x))) \/ Miss
  /\ UNCHANGED <<transfers, aborts>>

(* Either side gives up: its frame has its own source, and removes the track of that.        *)
Abort(x) ==
  /\ current[x] # Idling /\ x[2] # Everybody /\ aborts < MaxAborts
  /\ current' = [current EXCEPT ![x] = Idling]
  /\ aborts' = aborts + 1
  /\ \/ \E by \in {x, Answering(x)} : Watch /\ TrackEnd(by)
     \/ Miss
  /\ UNCHANGED transfers

JNext ==
  \E x \in Tracks :
    \/ \E size \in Sizes : Announce(x, size)
    \/ ClearToSend(x) \/ SendDT(x) \/ Acknowledge(x) \/ Abort(x)
-----------------------------------------------------------------------------
TransfersOf(x) == {id \in DOMAIN transfers : transfers[id].track = x}

Pairs == {x \in BusNodes \X BusNodes : x[1] # x[2]}
Promise == INSTANCE Transfer WITH
  Nodes <- BusNodes, Messages <- TransferIds,
  sent <- [x \in Pairs |-> TransfersOf(x)],
  received <- [x \in Pairs |-> IF x \in Tracks THEN joined[x] ELSE <<>>]

(* What the decoder joins is a transfer, all of it, in order and once, although it misses        *)
(* frames and either side gives up: the data frames of a transfer are never joined with those   *)
(* of another, unless it misses the announcement that would have removed those.              *)
DecoderTransfer == Promise!Spec
=============================================================================
