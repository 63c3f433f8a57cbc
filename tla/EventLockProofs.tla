--------------------------- MODULE EventLockProofs --------------------------
(***************************************************************************)
(* Proofs about EventLock: its types and what a wait() returns, for any       *)
(* number of clients; and for one client that the lock does what it is for.   *)
(***************************************************************************)
EXTENDS EventLock, TLAPS

(* One thread at a time locks, unlocks and waits; EventLockUnlockRace.cfg and    *)
(* EventLockShared.cfg show what happens with two.                             *)
OneClient == \A c, d \in Clients : c = d

-----------------------------------------------------------------------------
LEMMA InitType == Init => TypeOK
<1> SUFFICES ASSUME Init PROVE TypeOK
  OBVIOUS
<1>1. 0 \in 0..MaxEvents /\ 0 \in 0..Timeout /\ 0 \in 0..(Timeout + 1) /\ 0 \in 0..Calls
  BY LockAssumption
<1>2. q \in Seq(Names)
  BY DEF Init
<1> QED BY <1>1, <1>2 DEF Init, TypeOK

(* A step of the event loop, or an emitted event, keeps the types. *)
LEMMA LoopType ==
  ASSUME TypeOK, (\E n \in Names : Emit(n)) \/ Loop
  PROVE  TypeOK'
<1>1. CASE \E n \in Names : Emit(n)
  BY <1>1, LockAssumption DEF TypeOK, Emit, clientVars
<1>2. CASE LoopEnter
  BY <1>2 DEF TypeOK, LoopEnter, clientVars
<1>3. CASE LoopGet
  <2>1. q \in Seq(Names) /\ q # <<>>
    BY <1>3 DEF TypeOK, LoopGet
  <2>2. Tail(q) \in Seq(Names)
    BY <2>1
  <2> QED BY <1>3, <2>2 DEF TypeOK, LoopGet, clientVars
<1>4. CASE LoopHandled
  BY <1>4 DEF TypeOK, LoopHandled, clientVars
<1>5. CASE LoopTimeout
  BY <1>5 DEF TypeOK, LoopTimeout, clientVars
<1>6. CASE LoopLeave
  BY <1>6 DEF TypeOK, LoopLeave, clientVars
<1> QED BY <1>1, <1>2, <1>3, <1>4, <1>5, <1>6 DEF Loop

(* The three calls a client may make. *)
Calling(c) ==
  \/ CallLock(c) \/ CallUnlock(c)
  \/ \E n \in Names \cup {None}, t \in BOOLEAN : CallWait(c, n, t)

LEMMA CallType ==
  ASSUME TypeOK, NEW c \in Clients, Calling(c)
  PROVE  TypeOK'
<1>1. calls[c] < Calls => calls[c] + 1 \in 0..Calls
  BY LockAssumption DEF TypeOK
<1>2. 0 \in 0..(Timeout + 1)
  BY LockAssumption
<1>3. CASE CallLock(c)
  BY <1>1, <1>2, <1>3 DEF TypeOK, CallLock, Call, Goto
<1>4. CASE CallUnlock(c)
  BY <1>1, <1>2, <1>4 DEF TypeOK, CallUnlock, Call, Goto
<1>5. CASE \E n \in Names \cup {None}, t \in BOOLEAN : CallWait(c, n, t)
  BY <1>1, <1>2, <1>5 DEF TypeOK, CallWait, Call, Goto
<1> QED BY <1>3, <1>4, <1>5 DEF Calling

LEMMA ClientType ==
  ASSUME TypeOK, NEW c \in Clients, Client(c)
  PROVE  TypeOK'
<1>1. CASE WaitStart(c)
  BY <1>1 DEF TypeOK, WaitStart, Goto, clientVars
<1>2. CASE Acquire(c)
  BY <1>2 DEF TypeOK, Acquire, Goto, clientVars
<1>3. CASE AcquireTimeout(c)
  BY <1>3 DEF TypeOK, AcquireTimeout, Goto, clientVars
<1>4. CASE SetFlag(c)
  BY <1>4 DEF TypeOK, SetFlag, Goto
<1>5. CASE WaitCheck(c)
  <2>1. Timeout \in 0..Timeout
    BY LockAssumption
  <2> QED BY <1>5, <2>1 DEF TypeOK, WaitCheck, Goto
<1>6. CASE WaitGet(c)
  <2>1. q \in Seq(Names) /\ q # <<>>
    BY <1>6 DEF TypeOK, WaitGet
  <2>2. Tail(q) \in Seq(Names) /\ Head(q) \in Names
    BY <2>1
  <2>3. q' \in Seq(Names) /\ result' \in [Clients -> Names \cup {None}]
    BY <1>6, <2>2 DEF TypeOK, WaitGet
  <2> QED BY <1>6, <2>3 DEF TypeOK, WaitGet, Goto
<1>7. CASE WaitHandled(c)
  <2>1. Timeout \in 0..Timeout
    BY LockAssumption
  <2>2. CASE Matches(c, result[c])
    BY <1>7, <2>2 DEF TypeOK, WaitHandled, Goto
  <2>3. CASE ~Matches(c, result[c])
    <3>1. /\ left' \in [Clients -> 0..Timeout]
          /\ result' \in [Clients -> Names \cup {None}]
      BY <1>7, <2>1, <2>3 DEF TypeOK, WaitHandled
    <3>2. pc' = [pc EXCEPT ![c] = "get"]
      BY <1>7, <2>3 DEF WaitHandled, Goto
    <3> QED BY <1>7, <3>1, <3>2 DEF TypeOK, WaitHandled
  <2> QED BY <2>2, <2>3
<1>8. CASE Tick(c)
  <2>1. left[c] \in 0..Timeout /\ elapsed[c] \in 0..(Timeout + 1) /\ left[c] > 0
    BY <1>8 DEF TypeOK, Tick
  <2>2. /\ left[c] - 1 \in 0..Timeout
        /\ (IF elapsed[c] > Timeout THEN elapsed[c] ELSE elapsed[c] + 1) \in 0..(Timeout + 1)
    BY <2>1, LockAssumption
  <2> QED BY <1>8, <2>2 DEF TypeOK, Tick
<1>9. CASE WaitTimeout(c)
  BY <1>9 DEF TypeOK, WaitTimeout, Goto, clientVars
<1>10. CASE WaitEnd(c)
  BY <1>10 DEF TypeOK, WaitEnd, Goto, clientVars
<1>11. CASE UnlockTest(c)
  BY <1>11 DEF TypeOK, UnlockTest, Goto, clientVars
<1>12. CASE UnlockRelease(c)
  BY <1>12 DEF TypeOK, UnlockRelease, Goto, clientVars
<1>13. CASE UnlockFlag(c)
  BY <1>13 DEF TypeOK, UnlockFlag, Goto, clientVars
<1> QED BY <1>1, <1>2, <1>3, <1>4, <1>5, <1>6, <1>7, <1>8, <1>9, <1>10, <1>11,
           <1>12, <1>13 DEF Client

LEMMA StepType == TypeOK /\ [Next]_vars => TypeOK'
<1> SUFFICES ASSUME TypeOK, [Next]_vars PROVE TypeOK'
  OBVIOUS
<1>1. CASE (\E n \in Names : Emit(n)) \/ Loop
  BY <1>1, LoopType
<1>2. CASE \E c \in Clients : Calling(c)
  BY <1>2, CallType
<1>3. CASE \E c \in Clients : Client(c)
  BY <1>3, ClientType
<1>4. CASE UNCHANGED vars
  BY <1>4 DEF TypeOK, vars, clientVars
<1> QED BY <1>1, <1>2, <1>3, <1>4 DEF Next, Calling

(* The types: in particular a wait never has more time left than its timeout, and *)
(* the time that is left never becomes negative.                                 *)
THEOREM Types == Spec => []TypeOK
<1> QED BY InitType, StepType, PTL DEF Spec
-----------------------------------------------------------------------------
(* Until a wait has an event in hand it has no result. *)
NoResultYet ==
  \A c \in Clients :
    pc[c] \in {"acquire", "flag", "start", "check", "get"} => result[c] = None

NameInv == TypeOK /\ NoResultYet /\ WaitGetsName

(* A client's step changes nothing of another client. *)
LEMMA OthersUnchanged ==
  ASSUME TypeOK, NEW c \in Clients, Calling(c) \/ Client(c)
  PROVE  \A d \in Clients \ {c} :
           pc'[d] = pc[d] /\ result'[d] = result[d] /\ want'[d] = want[d]
<1>1. CASE Calling(c)
  BY <1>1 DEF TypeOK, Calling, CallLock, CallUnlock, CallWait, Call, Goto
<1>2. CASE WaitStart(c) \/ Acquire(c) \/ AcquireTimeout(c) \/ SetFlag(c) \/ WaitCheck(c)
  BY <1>2 DEF TypeOK, WaitStart, Acquire, AcquireTimeout, SetFlag, WaitCheck, Goto, clientVars
<1>3. CASE WaitGet(c) \/ WaitHandled(c) \/ Tick(c) \/ WaitTimeout(c) \/ WaitEnd(c)
  BY <1>3 DEF TypeOK, WaitGet, WaitHandled, Tick, WaitTimeout, WaitEnd, Goto, clientVars
<1>4. CASE UnlockTest(c) \/ UnlockRelease(c) \/ UnlockFlag(c)
  BY <1>4 DEF TypeOK, UnlockTest, UnlockRelease, UnlockFlag, Goto, clientVars
<1> QED BY <1>1, <1>2, <1>3, <1>4 DEF Client

(* The client's own part of the two conditions. *)
NameOf(c) ==
  /\ pc[c] \in {"acquire", "flag", "start", "check", "get"} => result[c] = None
  /\ pc[c] = "end" /\ want[c] # None => result[c] \in {want[c], None}

LEMMA OwnName ==
  ASSUME TypeOK, NEW c \in Clients, NameOf(c), Calling(c) \/ Client(c)
  PROVE  NameOf(c)'
<1>1. CASE Calling(c)
  BY <1>1 DEF TypeOK, NameOf, Calling, CallLock, CallUnlock, CallWait, Call, Goto
<1>2. CASE WaitStart(c) \/ Acquire(c) \/ AcquireTimeout(c) \/ SetFlag(c) \/ WaitCheck(c)
  BY <1>2 DEF TypeOK, NameOf, WaitStart, Acquire, AcquireTimeout, SetFlag, WaitCheck, Goto,
              clientVars
<1>3. CASE WaitGet(c)
  BY <1>3 DEF TypeOK, NameOf, WaitGet, Goto
<1>4. CASE WaitHandled(c)
  BY <1>4 DEF TypeOK, NameOf, WaitHandled, Matches, Goto
<1>5. CASE Tick(c) \/ WaitTimeout(c) \/ WaitEnd(c)
  BY <1>5 DEF TypeOK, NameOf, Tick, WaitTimeout, WaitEnd, Goto, clientVars
<1>6. CASE UnlockTest(c) \/ UnlockRelease(c) \/ UnlockFlag(c)
  BY <1>6 DEF TypeOK, NameOf, UnlockTest, UnlockRelease, UnlockFlag, Goto, clientVars
<1> QED BY <1>1, <1>2, <1>3, <1>4, <1>5, <1>6 DEF Client

LEMMA InitName == Init => NameInv
  BY InitType DEF Init, NameInv, NoResultYet, WaitGetsName

LEMMA StepName == NameInv /\ [Next]_vars => NameInv'
<1> SUFFICES ASSUME NameInv, [Next]_vars PROVE NameInv'
  OBVIOUS
<1>1. TypeOK /\ TypeOK'
  BY StepType DEF NameInv
<1>2. \A c \in Clients : NameOf(c)
  BY DEF NameInv, NoResultYet, WaitGetsName, NameOf
<1>3. \A c \in Clients : NameOf(c)'
  <2>1. CASE \E n \in Names : Emit(n)
    BY <1>2, <2>1 DEF NameOf, Emit, clientVars
  <2>2. CASE Loop
    BY <1>2, <2>2 DEF NameOf, Loop, LoopEnter, LoopGet, LoopHandled, LoopTimeout, LoopLeave,
                      clientVars
  <2>3. CASE \E c \in Clients : Calling(c) \/ Client(c)
    <3>1. PICK c \in Clients : Calling(c) \/ Client(c)
      BY <2>3
    <3>2. NameOf(c)'
      BY <1>1, <1>2, <3>1, OwnName
    <3>3. \A d \in Clients \ {c} : NameOf(d)'
      BY <1>1, <1>2, <3>1, OthersUnchanged DEF NameOf
    <3> QED BY <3>2, <3>3
  <2>4. CASE UNCHANGED vars
    BY <1>2, <2>4 DEF NameOf, vars, clientVars
  <2> QED BY <2>1, <2>2, <2>3, <2>4 DEF Next, Calling
<1> QED BY <1>1, <1>3 DEF NameInv, NoResultYet, WaitGetsName, NameOf

(* A wait() for a name returns an event of that name or nothing, however many     *)
(* clients wait, lock and unlock, and however often it has to start over.         *)
THEOREM WaitGetsNameHolds == Spec => []WaitGetsName
<1>1. NameInv => WaitGetsName
  BY DEF NameInv
<1> QED BY <1>1, InitName, StepName, PTL DEF Spec
-----------------------------------------------------------------------------
(* The lock is held by hand: between acquire and release of a lock() or wait(). *)
ByHand ==
  \/ \E c \in Clients : pc[c] = "flag"
  \/ locked /\ \A c \in Clients : pc[c] # "unflag"

(* The lock is held by the event loop or by hand, never by both, and the flag     *)
(* tells a client that does something under the lock that it is held by hand.      *)
LockInv ==
  /\ TypeOK
  /\ held <=> (InLoop \/ ByHand)
  /\ ~(InLoop /\ ByHand)
  /\ \A c \in Clients :
       /\ pc[c] = "flag" => ~locked
       /\ pc[c] \in {"get", "busy", "release", "unflag"} => locked

LEMMA InitLock == Init => LockInv
  BY InitType DEF Init, LockInv, InLoop, ByHand

LEMMA LoopLock ==
  ASSUME LockInv, (\E n \in Names : Emit(n)) \/ Loop
  PROVE  LockInv'
<1>1. TypeOK'
  BY LoopType DEF LockInv
<1>2. CASE \E n \in Names : Emit(n)
  BY <1>1, <1>2 DEF LockInv, InLoop, ByHand, Emit, clientVars
<1>3. CASE LoopEnter
  BY <1>1, <1>3 DEF LockInv, InLoop, ByHand, LoopEnter, clientVars
<1>4. CASE LoopGet \/ LoopHandled \/ LoopTimeout
  BY <1>1, <1>4 DEF LockInv, InLoop, ByHand, LoopGet, LoopHandled, LoopTimeout, clientVars
<1>5. CASE LoopLeave
  BY <1>1, <1>5 DEF LockInv, InLoop, ByHand, LoopLeave, clientVars
<1> QED BY <1>2, <1>3, <1>4, <1>5 DEF Loop

(* With one client its place decides what the invariant says. *)
ByHandOf(c) == pc[c] = "flag" \/ (locked /\ pc[c] # "unflag")

LEMMA OneByHand ==
  ASSUME OneClient, NEW c \in Clients
  PROVE  ByHand = ByHandOf(c)
  BY DEF OneClient, ByHand, ByHandOf

LockInvOf(c) ==
  /\ held <=> (InLoop \/ ByHandOf(c))
  /\ ~(InLoop /\ ByHandOf(c))
  /\ pc[c] = "flag" => ~locked
  /\ pc[c] \in {"get", "busy", "release", "unflag"} => locked

LEMMA ClientLock ==
  ASSUME TypeOK, NEW c \in Clients, LockInvOf(c), Calling(c) \/ Client(c)
  PROVE  LockInvOf(c)'
<1>1. CASE Calling(c)
  BY <1>1 DEF TypeOK, LockInvOf, ByHandOf, InLoop, Calling, CallLock, CallUnlock, CallWait,
              Call, Goto
<1>2. CASE WaitStart(c) \/ AcquireTimeout(c) \/ WaitCheck(c)
  BY <1>2 DEF TypeOK, LockInvOf, ByHandOf, InLoop, WaitStart, AcquireTimeout, WaitCheck,
              Goto, clientVars
<1>3. CASE Acquire(c)
  BY <1>3 DEF TypeOK, LockInvOf, ByHandOf, InLoop, Acquire, Goto, clientVars
<1>4. CASE SetFlag(c)
  BY <1>4 DEF TypeOK, LockInvOf, ByHandOf, InLoop, SetFlag, Goto
<1>5. CASE WaitGet(c) \/ WaitHandled(c)
  BY <1>5 DEF TypeOK, LockInvOf, ByHandOf, InLoop, WaitGet, WaitHandled, Goto
<1>6. CASE Tick(c) \/ WaitTimeout(c) \/ WaitEnd(c)
  <2>1. CASE Tick(c)
    BY <2>1 DEF LockInvOf, ByHandOf, InLoop, Tick
  <2>2. CASE WaitTimeout(c)
    BY <2>2 DEF TypeOK, LockInvOf, ByHandOf, InLoop, WaitTimeout, Goto
  <2>3. CASE WaitEnd(c)
    BY <2>3 DEF TypeOK, LockInvOf, ByHandOf, InLoop, WaitEnd, Goto
  <2> QED BY <1>6, <2>1, <2>2, <2>3
<1>7. CASE UnlockTest(c) \/ UnlockRelease(c)
  BY <1>7 DEF TypeOK, LockInvOf, ByHandOf, InLoop, UnlockTest, UnlockRelease, Goto,
              clientVars
<1>8. CASE UnlockFlag(c)
  BY <1>8 DEF TypeOK, LockInvOf, ByHandOf, InLoop, UnlockFlag, Goto, clientVars
<1> QED BY <1>1, <1>2, <1>3, <1>4, <1>5, <1>6, <1>7, <1>8 DEF Client

LEMMA StepLock == OneClient /\ LockInv /\ [Next]_vars => LockInv'
<1> SUFFICES ASSUME OneClient, LockInv, [Next]_vars PROVE LockInv'
  OBVIOUS
<1>1. TypeOK /\ TypeOK'
  BY StepType DEF LockInv
<1>2. CASE (\E n \in Names : Emit(n)) \/ Loop
  BY <1>2, LoopLock
<1>3. CASE \E c \in Clients : Calling(c) \/ Client(c)
  <2>1. PICK c \in Clients : Calling(c) \/ Client(c)
    BY <1>3
  <2>2. LockInvOf(c)
    BY OneByHand DEF LockInv, LockInvOf
  <2>3. LockInvOf(c)'
    BY <1>1, <2>1, <2>2, ClientLock
  <2>4. ByHand' = ByHandOf(c)'
    BY DEF OneClient, ByHand, ByHandOf
  <2>5. \A d \in Clients : d = c
    BY DEF OneClient
  <2> QED BY <1>1, <2>3, <2>4, <2>5 DEF LockInv, LockInvOf
<1>4. CASE UNCHANGED vars
  BY <1>1, <1>4 DEF LockInv, InLoop, ByHand, vars, clientVars
<1> QED BY <1>2, <1>3, <1>4 DEF Next, Calling

(* One client and the event loop share __lock: who holds it is told by where they   *)
(* are and by __locked.                                                           *)
THEOREM LockInvariant == ASSUME OneClient PROVE Spec => []LockInv
<1>1. LockInv /\ [Next]_vars => LockInv'
  BY StepLock
<1> QED BY <1>1, InitLock, PTL DEF Spec

(* One thread that locks, unlocks and waits in any order never handles events at  *)
(* the same time as the event loop.                                              *)
THEOREM OneHandlerHolds == ASSUME OneClient PROVE Spec => []OneHandler
<1>1. LockInv => OneHandler
  BY DEF OneClient, LockInv, OneHandler, Waits, InLoop, ByHand
<1> QED BY <1>1, LockInvariant, PTL

(* It never takes the lock away from the event loop.                             *)
THEOREM LoopHoldsLockHolds == ASSUME OneClient PROVE Spec => []LoopHoldsLock
<1>1. LockInv => LoopHoldsLock
  BY DEF LockInv, LoopHoldsLock
<1> QED BY <1>1, LockInvariant, PTL

(* It waits only under the lock.                                                 *)
THEOREM WaitsUnderLockHolds == ASSUME OneClient PROVE Spec => []WaitsUnderLock
<1>1. LockInv => WaitsUnderLock
  <2> SUFFICES ASSUME LockInv, NEW c \in Clients, Waits(c) PROVE locked /\ held
    BY DEF WaitsUnderLock
  <2>1. locked /\ pc[c] # "unflag"
    BY DEF LockInv, Waits
  <2>2. ByHand
    BY <2>1 DEF OneClient, ByHand
  <2> QED BY <2>1, <2>2 DEF LockInv
<1> QED BY <1>1, LockInvariant, PTL

(* Outside lock(), unlock() and the event loop's block, the flag tells whether    *)
(* the lock is held.                                                             *)
THEOREM FlagMeansHeldHolds == ASSUME OneClient PROVE Spec => []FlagMeansHeld
<1>1. LockInv => FlagMeansHeld
  BY DEF LockInv, FlagMeansHeld, ByHand
<1> QED BY <1>1, LockInvariant, PTL
=============================================================================
