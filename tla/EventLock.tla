------------------------------ MODULE EventLock -----------------------------
(***************************************************************************)
(* The lock on the framework's event handling (framework.py: lock, unlock,   *)
(* wait and the event loop).  The event loop handles events only inside      *)
(* "with self.__lock"; a client (the control channel, a signal handler that  *)
(* calls stop(), or the embedding program) may take the lock to handle       *)
(* events itself.  The lock is a plain threading.Lock, which any thread may   *)
(* release; __locked is a separate flag, written after acquire and release.  *)
(* What handling an event does is the subject of EventBus.                   *)
(***************************************************************************)
EXTENDS Integers, Sequences

CONSTANTS
  Clients,    \* threads that call lock, unlock, wait and stop
  Names,      \* event names
  Timeout,    \* seconds a client's wait(timeout) is given
  MaxEvents,  \* bound: events emitted
  Calls       \* bound: calls a client makes

ASSUME LockAssumption ==
  Timeout \in Nat \ {0} /\ MaxEvents \in Nat /\ Calls \in Nat

None == "none"    \* no event; wait() for any event
ASSUME NoneAssumption == None \notin Names

VARIABLES
  q,        \* the framework's event queue: names
  emitted,  \* events emitted (bound)
  held,     \* is __lock acquired?
  locked,   \* the flag __locked
  loopPc,   \* the event loop thread
  pc,       \* where each client is
  op,       \* its current call: lock, unlock or wait
  want,     \* the name it waits for, or None
  timed,    \* does its wait have a timeout?
  we,       \* did its wait take the lock (we_locked)?
  left,     \* what is left of handle_event's timeout
  elapsed,  \* how long its wait has been blocked (history)
  result,   \* the event its call got
  calls     \* calls made (bound)

clientVars == <<op, want, timed, we, left, elapsed, result, calls>>
vars == <<q, emitted, held, locked, loopPc, pc, clientVars>>

TypeOK ==
  /\ q \in Seq(Names) /\ emitted \in 0..MaxEvents
  /\ held \in BOOLEAN /\ locked \in BOOLEAN
  /\ loopPc \in {"pause", "get", "busy", "release", "dead"}
  /\ pc \in [Clients -> {"free", "acquire", "flag", "start", "check", "get", "busy",
                         "end", "unlock", "release", "unflag"}]
  /\ op \in [Clients -> {"lock", "unlock", "wait"}]
  /\ want \in [Clients -> Names \cup {None}]
  /\ timed \in [Clients -> BOOLEAN] /\ we \in [Clients -> BOOLEAN]
  /\ left \in [Clients -> 0..Timeout] /\ elapsed \in [Clients -> 0..(Timeout + 1)]
  /\ result \in [Clients -> Names \cup {None}]
  /\ calls \in [Clients -> 0..Calls]

Init ==
  /\ q = <<>> /\ emitted = 0 /\ held = FALSE /\ locked = FALSE
  /\ loopPc = "pause" /\ pc = [c \in Clients |-> "free"]
  /\ op = [c \in Clients |-> "lock"] /\ want = [c \in Clients |-> None]
  /\ timed = [c \in Clients |-> FALSE] /\ we = [c \in Clients |-> FALSE]
  /\ left = [c \in Clients |-> 0] /\ elapsed = [c \in Clients |-> 0]
  /\ result = [c \in Clients |-> None] /\ calls = [c \in Clients |-> 0]

Goto(c, l) == pc' = [pc EXCEPT ![c] = l]

Emit(n) ==
  /\ emitted < MaxEvents
  /\ emitted' = emitted + 1
  /\ q' = Append(q, n)
  /\ UNCHANGED <<held, locked, loopPc, pc, clientVars>>

-----------------------------------------------------------------------------
(* The event loop. *)

LoopEnterUnlocked ==   \* mutant: "with self.__lock" dropped
  /\ loopPc = "pause"
  /\ loopPc' = "get"
  /\ UNCHANGED <<q, emitted, held, locked, pc, clientVars>>

LoopEnter ==   \* "with self.__lock"
  /\ loopPc = "pause" /\ ~held
  /\ held' = TRUE
  /\ loopPc' = "get"
  /\ UNCHANGED <<q, emitted, locked, pc, clientVars>>

LoopGet ==
  /\ loopPc = "get" /\ q # <<>>
  /\ q' = Tail(q)
  /\ loopPc' = "busy"
  /\ UNCHANGED <<emitted, held, locked, pc, clientVars>>

LoopHandled ==
  /\ loopPc = "busy"
  /\ loopPc' = "get"
  /\ UNCHANGED <<q, emitted, held, locked, pc, clientVars>>

LoopTimeout ==   \* no event for a second: idle() and leave the block
  /\ loopPc = "get" /\ q = <<>>
  /\ loopPc' = "release"
  /\ UNCHANGED <<q, emitted, held, locked, pc, clientVars>>

LoopLeaveHolding ==   \* mutant: the lock is not released
  /\ loopPc = "release"
  /\ loopPc' = "pause"
  /\ UNCHANGED <<q, emitted, held, locked, pc, clientVars>>

(* Leaving "with" releases the lock; if it is not held, the RuntimeError is    *)
(* outside the try and ends the thread.                                        *)
LoopLeave ==
  /\ loopPc = "release"
  /\ loopPc' = IF held THEN "pause" ELSE "dead"
  /\ held' = FALSE
  /\ UNCHANGED <<q, emitted, locked, pc, clientVars>>

-----------------------------------------------------------------------------
(* lock(), unlock() and wait() of a client. *)

Call(c, o, to) ==
  /\ pc[c] = "free" /\ calls[c] < Calls
  /\ calls' = [calls EXCEPT ![c] = @ + 1]
  /\ op' = [op EXCEPT ![c] = o]
  /\ result' = [result EXCEPT ![c] = None]
  /\ elapsed' = [elapsed EXCEPT ![c] = 0]
  /\ Goto(c, to)

CallLock(c) ==
  /\ Call(c, "lock", "acquire")
  /\ timed' = [timed EXCEPT ![c] = FALSE]
  /\ UNCHANGED <<q, emitted, held, locked, loopPc, want, we, left>>

CallUnlock(c) ==
  /\ Call(c, "unlock", "unlock")
  /\ UNCHANGED <<q, emitted, held, locked, loopPc, want, timed, we, left>>

CallWait(c, n, t) ==
  /\ Call(c, "wait", "start")
  /\ want' = [want EXCEPT ![c] = n]
  /\ timed' = [timed EXCEPT ![c] = t]
  /\ we' = [we EXCEPT ![c] = FALSE]
  /\ UNCHANGED <<q, emitted, held, locked, loopPc, left>>

(* wait(): take the lock unless the flag says somebody has it. *)
WaitStart(c) ==
  /\ pc[c] = "start"
  /\ Goto(c, IF locked THEN "check" ELSE "acquire")
  /\ UNCHANGED <<q, emitted, held, locked, loopPc, clientVars>>

Acquire(c) ==
  /\ pc[c] = "acquire" /\ ~held
  /\ held' = TRUE
  /\ Goto(c, "flag")
  /\ UNCHANGED <<q, emitted, locked, loopPc, clientVars>>

(* acquire() with a timeout gives up. *)
AcquireTimeout(c) ==
  /\ pc[c] = "acquire" /\ held /\ timed[c]
  /\ Goto(c, "check")
  /\ UNCHANGED <<q, emitted, held, locked, loopPc, clientVars>>

SetFlag(c) ==
  /\ pc[c] = "flag"
  /\ locked' = TRUE
  /\ we' = [we EXCEPT ![c] = op[c] = "wait"]
  /\ Goto(c, IF op[c] = "wait" THEN "check" ELSE "free")
  /\ UNCHANGED <<q, emitted, held, loopPc, op, want, timed, left, elapsed, result, calls>>

(* "as long as someone has the lock" *)
WaitCheck(c) ==
  /\ pc[c] = "check"
  /\ Goto(c, IF locked THEN "get" ELSE "end")
  /\ left' = [left EXCEPT ![c] = Timeout]
  /\ UNCHANGED <<q, emitted, held, locked, loopPc, op, want, timed, we, elapsed,
                 result, calls>>

WaitGet(c) ==
  /\ pc[c] = "get" /\ q # <<>>
  /\ q' = Tail(q)
  /\ result' = [result EXCEPT ![c] = Head(q)]
  /\ Goto(c, "busy")
  /\ UNCHANGED <<emitted, held, locked, loopPc, op, want, timed, we, left, elapsed, calls>>

AnyEvent(c, n) == TRUE    \* mutant: the name is not compared

Matches(c, n) == want[c] \in {None, n}

(* A handled event of another name: handle_event is called again, with the    *)
(* whole timeout.                                                              *)
WaitHandled(c) ==
  /\ pc[c] = "busy"
  /\ IF Matches(c, result[c])
     THEN Goto(c, "end") /\ UNCHANGED <<left, result>>
     ELSE /\ Goto(c, "get")
          /\ left' = [left EXCEPT ![c] = Timeout]
          /\ result' = [result EXCEPT ![c] = None]
  /\ UNCHANGED <<q, emitted, held, locked, loopPc, op, want, timed, we, elapsed, calls>>

(* A second passes while a client is blocked in handle_event. *)
Tick(c) ==
  /\ pc[c] = "get" /\ q = <<>> /\ timed[c] /\ left[c] > 0
  /\ left' = [left EXCEPT ![c] = @ - 1]
  /\ elapsed' = [elapsed EXCEPT ![c] = IF @ > Timeout THEN @ ELSE @ + 1]
  /\ UNCHANGED <<q, emitted, held, locked, loopPc, pc, op, want, timed, we, result, calls>>

WaitTimeout(c) ==
  /\ pc[c] = "get" /\ q = <<>> /\ timed[c] /\ left[c] = 0
  /\ Goto(c, "end")
  /\ UNCHANGED <<q, emitted, held, locked, loopPc, clientVars>>

WaitEnd(c) ==
  /\ pc[c] = "end"
  /\ Goto(c, IF we[c] THEN "unlock" ELSE "free")
  /\ UNCHANGED <<q, emitted, held, locked, loopPc, clientVars>>

(* unlock(): test the flag, release the lock, clear the flag. *)
UnlockTest(c) ==
  /\ pc[c] = "unlock"
  /\ Goto(c, IF locked THEN "release" ELSE "free")
  /\ UNCHANGED <<q, emitted, held, locked, loopPc, clientVars>>

UnlockOnlyFlag(c) ==   \* mutant: the lock is not released
  /\ pc[c] = "release"
  /\ Goto(c, "unflag")
  /\ UNCHANGED <<q, emitted, held, locked, loopPc, clientVars>>

UnlockRelease(c) ==   \* a RuntimeError if it is not held, with the same effect
  /\ pc[c] = "release"
  /\ held' = FALSE
  /\ Goto(c, "unflag")
  /\ UNCHANGED <<q, emitted, locked, loopPc, clientVars>>

UnlockFlag(c) ==
  /\ pc[c] = "unflag"
  /\ locked' = FALSE
  /\ Goto(c, "free")
  /\ UNCHANGED <<q, emitted, held, loopPc, clientVars>>

-----------------------------------------------------------------------------
Loop == LoopEnter \/ LoopGet \/ LoopHandled \/ LoopTimeout \/ LoopLeave

Client(c) ==
  \/ WaitStart(c) \/ Acquire(c) \/ AcquireTimeout(c) \/ SetFlag(c)
  \/ WaitCheck(c) \/ WaitGet(c) \/ WaitHandled(c) \/ Tick(c) \/ WaitTimeout(c)
  \/ WaitEnd(c) \/ UnlockTest(c) \/ UnlockRelease(c) \/ UnlockFlag(c)

Next ==
  \/ \E n \in Names : Emit(n)
  \/ Loop
  \/ \E c \in Clients :
       \/ CallLock(c) \/ CallUnlock(c)
       \/ \E n \in Names \cup {None}, t \in BOOLEAN : CallWait(c, n, t)
       \/ Client(c)

Spec == Init /\ [][Next]_vars

(* Threads are scheduled.  Acquire is strongly fair: the event loop sleeps     *)
(* between two holds to "allow lock to be acquired by other threads".          *)
FairSpec ==
  /\ Spec /\ WF_vars(Loop)
  /\ \A c \in Clients : WF_vars(Client(c)) /\ SF_vars(Acquire(c))
-----------------------------------------------------------------------------
InLoop == loopPc \in {"get", "busy", "release"}
Waits(c) == pc[c] \in {"get", "busy"}

(* Events are handled by one thread at a time. *)
OneHandler ==
  /\ \A c \in Clients : Waits(c) => ~(loopPc \in {"get", "busy"})
  /\ \A c, d \in Clients : Waits(c) /\ Waits(d) => c = d

(* "only unlock if we manually locked it": the event loop's hold on the lock is *)
(* its own, nobody else takes it away.                                          *)
LoopHoldsLock == InLoop => held

(* "as long as someone has the lock": a client handles events only while the    *)
(* event queue is locked.                                                       *)
WaitsUnderLock == \A c \in Clients : Waits(c) => locked /\ held

(* The flag and the lock agree whenever no client is inside lock or unlock and  *)
(* the event loop is outside its block.                                         *)
FlagMeansHeld ==
  (~InLoop /\ \A c \in Clients : pc[c] \notin {"flag", "unflag"}) => (locked <=> held)

(* A wait() for a name returns an event of that name or nothing. *)
WaitGetsName ==
  \A c \in Clients :
    pc[c] = "end" /\ want[c] # None => result[c] \in {want[c], None}

(* "Waits up to timeout seconds if provided": the time wait() spends blocked in *)
(* handle_event does not exceed its timeout.                                    *)
WaitWithinTimeout == \A c \in Clients : elapsed[c] <= Timeout

(* lock() is granted once nobody else has locked the queue by hand.             *)
LockGranted ==
  \A c \in Clients : (pc[c] = "acquire" /\ ~timed[c] /\ ~locked) ~> pc[c] # "acquire"

(* While nobody keeps the queue locked, an event does not stay in it. *)
Handled == (q # <<>>) ~> (q = <<>> \/ locked)
=============================================================================
