-------------------------------- MODULE Comm --------------------------------
(***************************************************************************)
(* Listening for frames (canbus/ecu.py: Comm).  A thread calls listen() for an      *)
(* identifier; the packet thread appends the frames that fit to the buffer, and       *)
(* wakes it.  The two share the buffer, the identifier and a flag, without a lock.   *)
(***************************************************************************)
EXTENDS Integers, Sequences, Functions

CONSTANTS
  CommIds,      \* identifiers
  Wanted,       \* frames to wait for
  WaitTimeout,  \* has the wait a timeout?
  MaxListens,   \* bound: calls of listen()
  MaxSeen       \* bound: frames on the bus

NotListening == 0
Unflagged == FALSE

VARIABLES
  buffers,   \* the lists __buf was, the last one is __buf: frames, by their number
  listening, \* __listen
  rcvd,      \* the flag
  listener,  \* where listen() is
  handling,  \* the frame the packet thread handles: its number, and whether it found it wanted
  due,       \* call of listen() -> the frames that were found wanted during it (history)
  seen       \* frames (bound)

commVars == <<buffers, listening, rcvd, listener, handling, due, seen>>

NoFrame == [n |-> 0, pc |-> "idle"]

CommInit ==
  /\ buffers = <<<<>>>> /\ listening = NotListening /\ rcvd = Unflagged
  /\ listener = [pc |-> "idle", id |-> NotListening]
  /\ handling = NoFrame /\ due = <<{}>> /\ seen = 0

Step(pc) == listener' = [listener EXCEPT !.pc = pc]
Buf == buffers[Len(buffers)]

-----------------------------------------------------------------------------
(* listen(), line by line: first a new list, then the identifier.                      *)
LinesSwapped == <<"listen", "renew">>   \* mutant
Lines == <<"renew", "listen">>

After(line) == IF line = Lines[1] THEN Lines[2] ELSE "check"

Listen(id) ==
  /\ listener.pc = "idle" /\ Len(due) <= MaxListens
  /\ due' = Append(due, {})
  /\ listener' = [pc |-> Lines[1], id |-> id]
  /\ UNCHANGED <<buffers, listening, rcvd, handling, seen>>

NewList ==
  /\ listener.pc = "renew"
  /\ buffers' = Append(buffers, <<>>) /\ Step(After("renew"))
  /\ UNCHANGED <<listening, rcvd, handling, due, seen>>

SetListen ==
  /\ listener.pc = "listen"
  /\ listening' = listener.id /\ Step(After("listen"))
  /\ UNCHANGED <<buffers, rcvd, handling, due, seen>>

CheckCount ==
  /\ listener.pc = "check"
  /\ Step(IF Len(Buf) < Wanted THEN "clear" ELSE "stop")
  /\ UNCHANGED <<buffers, listening, rcvd, handling, due, seen>>

ClearFlag ==
  /\ listener.pc = "clear"
  /\ rcvd' = Unflagged /\ Step("wait")
  /\ UNCHANGED <<buffers, listening, handling, due, seen>>

Woken ==
  /\ listener.pc = "wait" /\ rcvd
  /\ Step("check")
  /\ UNCHANGED <<buffers, listening, rcvd, handling, due, seen>>

TimedOut ==
  /\ listener.pc = "wait" /\ ~rcvd /\ WaitTimeout
  /\ Step("stop")
  /\ UNCHANGED <<buffers, listening, rcvd, handling, due, seen>>

StopListening ==
  /\ listener.pc = "stop"
  /\ listening' = NotListening /\ listener' = [pc |-> "idle", id |-> NotListening]
  /\ UNCHANGED <<buffers, rcvd, handling, due, seen>>

-----------------------------------------------------------------------------
(* effect(): is the frame wanted, append it to what __buf is by then, set the flag.       *)

FrameComes(id) ==
  /\ handling = NoFrame /\ seen < MaxSeen
  /\ seen' = seen + 1
  /\ handling' = IF listening = id THEN [n |-> seen + 1, pc |-> "append"] ELSE NoFrame
  /\ due' = IF listening = id THEN [due EXCEPT ![Len(due)] = @ \cup {seen + 1}] ELSE due
  /\ UNCHANGED <<buffers, listening, rcvd, listener>>

AppendLate ==   \* mutant: the flag is set before the frame is appended
  \/ /\ handling.pc = "append"
     /\ rcvd' = TRUE /\ handling' = [handling EXCEPT !.pc = "late"]
     /\ UNCHANGED <<buffers, listening, listener, due, seen>>
  \/ /\ handling.pc = "late"
     /\ buffers' = [buffers EXCEPT ![Len(buffers)] = Append(@, handling.n)]
     /\ handling' = NoFrame
     /\ UNCHANGED <<listening, rcvd, listener, due, seen>>

AppendFrame ==
  /\ handling.pc = "append"
  /\ buffers' = [buffers EXCEPT ![Len(buffers)] = Append(@, handling.n)]
  /\ handling' = [handling EXCEPT !.pc = "set"]
  /\ UNCHANGED <<listening, rcvd, listener, due, seen>>

SetFlag ==
  /\ handling.pc = "set"
  /\ rcvd' = TRUE /\ handling' = NoFrame
  /\ UNCHANGED <<buffers, listening, listener, due, seen>>

CommNext ==
  \/ \E id \in CommIds : Listen(id) \/ FrameComes(id)
  \/ NewList \/ SetListen \/ CheckCount \/ ClearFlag \/ Woken \/ TimedOut \/ StopListening
  \/ AppendFrame \/ SetFlag

(* what the two threads do once they run: no timeout needs to happen                    *)
ListenWork == NewList \/ SetListen \/ CheckCount \/ ClearFlag \/ Woken \/ StopListening
HandleWork == AppendFrame \/ SetFlag
-----------------------------------------------------------------------------
(* "start listening for arbid" only after "clear buffer": a frame that is found wanted by a call  *)
(* of listen() is, once it is handled, in the list of that call, or of a later one that had    *)
(* begun by the time it was appended; never in the list of an earlier call.                   *)
NothingMissed ==
  handling = NoFrame =>
    \A i \in DOMAIN due : \A n \in due[i] :
      \E k \in DOMAIN buffers : k >= i /\ n \in Range(buffers[k])

(* "wait for a frame to arrive": the last frame that it wants ends the call, when it comes while  *)
(* listen() waits and is not about to be woken.  (One that comes between the look at the list    *)
(* and clear() does not.)                                                                  *)
LastFrame == handling.pc = "append" /\ Len(Buf) + 1 >= Wanted
ListenReturns == (listener.pc = "wait" /\ ~rcvd /\ LastFrame) ~> listener.pc = "idle"

(* It never waits for what it has: violated, when the flag is set before clear().              *)
NeverWaitsInVain ==
  listener.pc = "wait" /\ ~rcvd /\ handling = NoFrame => Len(Buf) < Wanted
=============================================================================
