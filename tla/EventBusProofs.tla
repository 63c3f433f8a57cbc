--------------------------- MODULE EventBusProofs ---------------------------
(* Proofs about the event bus, for any number of plugins, threads, events. *)
EXTENDS EventBus, TLAPS, FiniteSetTheorems

LEMMA EventsNat == Events \subseteq Nat /\ MaxEvents \in Nat /\ (\A e \in Events : e # 0)
  BY ConstantsAssumption DEF Events

LEMMA RegistrySize ==
  ASSUME NEW S \in SUBSET Plugins
  PROVE  Cardinality(S) \in Nat
  BY ConstantsAssumption, FS_Subset, FS_CardinalityType

(* Type correctness of the bus.                                             *)
LEMMA InitTypeOK == Init => TypeOK
<1> SUFFICES ASSUME Init PROVE TypeOK
  OBVIOUS
<1>1. entries \in Seq(Plugins)
  <2>1. Cardinality(Plugins \ Late) \in Nat
    BY RegistrySize
  <2>2. entries \in [1..Cardinality(Plugins \ Late) -> Plugins \ Late]
    BY DEF Init
  <2>3. \A n \in Nat : entries \in [1..n -> Plugins \ Late] => entries \in Seq(Plugins)
    OBVIOUS
  <2> QED BY <2>1, <2>2, <2>3
<1>2. subs \in [Plugins -> SUBSET (Names \cup {Star})]
  BY ConstantsAssumption DEF Init
<1>3. phase \in [Plugins -> Phases]
  BY DEF Init, Phases
<1>4. ev \in [Events -> [name : Names \cup {Star}, sync : BOOLEAN, path : Seq(Plugins)]]
  BY DEF Init, NoEvent
<1> QED
  BY <1>1, <1>2, <1>3, <1>4, ConstantsAssumption DEF Init, TypeOK, Actors

LEMMA NewEventType ==
  ASSUME TypeOK, NEW a \in Actors, NEW n \in Names, NEW sync \in BOOLEAN,
         NEW path \in Seq(Plugins), NewEvent(a, n, sync, path)
  PROVE  TypeOK'
<1>1. made + 1 \in Events /\ made' \in 0..MaxEvents
  BY ConstantsAssumption DEF TypeOK, NewEvent, Events
<1>2. ev' \in [Events -> [name : Names \cup {Star}, sync : BOOLEAN, path : Seq(Plugins)]]
  BY <1>1 DEF TypeOK, NewEvent
<1>3. /\ evq' \in Seq(Events) /\ unf' \in Nat
      /\ waiting' \in [Actors -> 0..MaxEvents]
  BY <1>1 DEF TypeOK, NewEvent, Put, Events
<1> QED
  BY <1>1, <1>2, <1>3 DEF TypeOK, NewEvent, iterVars, regVars, plugVars

LEMMA EmitType == TypeOK /\ Emit => TypeOK'
<1> SUFFICES ASSUME TypeOK, NEW n \in Names, NEW sync \in BOOLEAN,
                    \/ \E t \in Threads : EmitExternal(t, n, sync)
                    \/ \E t \in Threads, p \in Plugins : EmitPlugin(t, p, n, sync)
                    \/ \E p \in Plugins : EmitHandler(p, n, sync)
             PROVE  TypeOK'
  BY DEF Emit
<1>1. ASSUME NEW t \in Threads, EmitExternal(t, n, sync) PROVE TypeOK'
  <2>1. t \in Actors /\ <<>> \in Seq(Plugins)
    BY DEF Actors
  <2> QED BY <2>1, <1>1, NewEventType DEF EmitExternal
<1>2. ASSUME NEW t \in Threads, NEW p \in Plugins, EmitPlugin(t, p, n, sync)
      PROVE  TypeOK'
  <2>1. t \in Actors /\ <<p>> \in Seq(Plugins)
    BY DEF Actors
  <2> QED BY <2>1, <1>2, NewEventType DEF EmitPlugin
<1>3. ASSUME NEW p \in Plugins, EmitHandler(p, n, sync) PROVE TypeOK'
  <2>1. p \in Actors /\ <<p>> \in Seq(Plugins)
    BY DEF Actors
  <2> QED BY <2>1, <1>3, NewEventType DEF EmitHandler
<1> QED BY <1>1, <1>2, <1>3

LEMMA DeliverType ==
  ASSUME TypeOK, NEW p \in Plugins, BusVisit(p)
  PROVE  TypeOK'
<1>1. busEv \in Events
  BY EventsNat DEF TypeOK, BusVisit, Events
<1>2. iterIdx' \in Nat
  BY DEF TypeOK, BusVisit, NextEntry, Ahead
<1>3. CASE Skip(p, busEv)
  BY <1>2, <1>3 DEF TypeOK, BusVisit, regVars
<1>4. CASE ~Skip(p, busEv)
  <2>0. Deliver(p)
    BY <1>4 DEF BusVisit
  <2>1. Append(ev[busEv].path, p) \in Seq(Plugins)
    BY <1>1 DEF TypeOK
  <2>2. ev' \in [Events -> [name : Names \cup {Star}, sync : BOOLEAN, path : Seq(Plugins)]]
    <3>1. ev' = [ev EXCEPT ![busEv] = [@ EXCEPT !.path = Append(ev[busEv].path, p)]]
      BY <1>1, <2>0 DEF TypeOK, Deliver
    <3> QED BY <1>1, <2>1, <3>1 DEF TypeOK
  <2>3. pq' \in [Plugins -> Seq(Events)]
    BY <1>1, <2>0 DEF TypeOK, Deliver
  <2>4. punf' \in [Plugins -> Nat] /\ handled' \in Seq(Plugins)
    <3>1. punf \in [Plugins -> Nat] /\ handled \in Seq(Plugins)
      BY DEF TypeOK
    <3>2. punf' = [punf EXCEPT ![p] = punf[p] + 1] /\ handled' = Append(handled, p)
      BY <2>0 DEF Deliver
    <3>3. punf' \in [Plugins -> Nat]
      BY <3>1, <3>2
    <3>4. handled' \in Seq(Plugins)
      BY <3>1, <3>2
    <3> QED BY <3>3, <3>4
  <2> QED BY <1>2, <2>2, <2>3, <2>4 DEF TypeOK, BusVisit, regVars
<1> QED BY <1>3, <1>4

(* The types need the accounting: a count is only decremented when it is      *)
(* positive.                                                                   *)
LEMMA BusType == TypeOK /\ Accounting /\ Bus => TypeOK'
<1> SUFFICES ASSUME TypeOK, Accounting, Bus PROVE TypeOK'
  OBVIOUS
<1>1. CASE BusGet
  <2>1. /\ Head(evq) \in Events /\ Tail(evq) \in Seq(Events)
        /\ Head(evq) \in 0..MaxEvents /\ Head(evq) # 0
    <3>1. Head(evq) \in Events /\ Tail(evq) \in Seq(Events)
      BY <1>1 DEF TypeOK, BusGet
    <3> QED BY <3>1, EventsNat DEF Events
  <2>2. Cardinality(reg) \in Nat
    BY RegistrySize DEF TypeOK
  <2> QED
    BY <1>1, <2>1, <2>2 DEF TypeOK, BusGet, regVars, plugVars
<1>2. ASSUME NEW p \in Plugins, BusVisit(p) PROVE TypeOK'
  BY <1>2, DeliverType
<1>3. CASE BusRaise
  BY <1>3, EventsNat DEF TypeOK, BusRaise, evVars, regVars, plugVars
<1>4. CASE BusEnd
  BY <1>4 DEF TypeOK, BusEnd, evVars, regVars, plugVars
<1>5. CASE BusJoin
  BY <1>5 DEF TypeOK, BusJoin, evVars, regVars, plugVars
<1>6. CASE BusDone
  <2>1. busEv # 0 /\ unf = Len(evq) + 1 + raised
    BY <1>6 DEF TypeOK, BusDone, Accounting, Busy
  <2>2. unf' \in Nat
    BY <1>6, <2>1 DEF TypeOK, BusDone
  <2> QED BY <1>6, <2>2, EventsNat DEF TypeOK, BusDone, regVars, plugVars
<1> QED BY <1>1, <1>2, <1>3, <1>4, <1>5, <1>6 DEF Bus

LEMMA HandlerType ==
  ASSUME TypeOK, Accounting, NEW p \in Plugins, Handler(p)
  PROVE  TypeOK'
<1>1. CASE HandlerTake(p)
  <2>1. Head(pq[p]) \in Events /\ Tail(pq[p]) \in Seq(Events)
    BY <1>1 DEF TypeOK, HandlerTake
  <2>2. Head(pq[p]) \in 0..MaxEvents
    BY <2>1, EventsNat DEF Events
  <2> QED BY <1>1, <2>1, <2>2 DEF TypeOK, HandlerTake, evVars, iterVars, regVars
<1>2. CASE HandlerDone(p)
  <2>1. punf[p] = Len(pq[p]) + 1
    BY <1>2 DEF HandlerDone, Accounting, Busy
  <2>2. punf[p] - 1 \in Nat
    BY <2>1 DEF TypeOK
  <2> QED BY <1>2, <2>2, EventsNat DEF TypeOK, HandlerDone, evVars, iterVars, regVars
<1>3. CASE HandlerExit(p)
  BY <1>3 DEF TypeOK, HandlerExit, Phases, evVars, iterVars, plugVars
<1>4. CASE PluginDies(p)
  BY <1>4 DEF TypeOK, PluginDies, Phases, evVars, iterVars, plugVars
<1> QED BY <1>1, <1>2, <1>3, <1>4 DEF Handler

LEMMA ControlType ==
  ASSUME TypeOK, NEW p \in Plugins, Control(p)
  PROVE  TypeOK'
<1>1. CASE StartAdd(p)
  BY <1>1 DEF TypeOK, StartAdd, Phases, evVars, iterVars, plugVars
<1>2. CASE StartSubscribe(p)
  <2>1. phase' \in [Plugins -> Phases]
    BY <1>2 DEF TypeOK, StartSubscribe, Phases
  <2>2. known' \in SUBSET Plugins /\ subs' \in [Plugins -> SUBSET (Names \cup {Star})]
    <3>1. CASE p \in reg
      <4>1. subs[p] \cup {p} \in SUBSET (Names \cup {Star})
        BY DEF TypeOK, Names
      <4>2. /\ known' = known \cup {p}
            /\ subs' = [subs EXCEPT ![p] = subs[p] \cup {p}]
        BY <1>2, <3>1 DEF StartSubscribe, TypeOK
      <4> QED BY <4>1, <4>2 DEF TypeOK
    <3>2. CASE p \notin reg
      BY <1>2, <3>2 DEF TypeOK, StartSubscribe
    <3> QED BY <3>1, <3>2
  <2> QED BY <1>2, <2>1, <2>2 DEF TypeOK, StartSubscribe, evVars, iterVars, plugVars
<1>3. CASE StartThread(p)
  BY <1>3 DEF TypeOK, StartThread, Phases, evVars, iterVars, plugVars
<1>4. CASE StopSignal(p)
  BY <1>4 DEF TypeOK, StopSignal, Phases, evVars, iterVars, plugVars
<1>5. CASE Unload(p)
  BY <1>5 DEF TypeOK, Unload, evVars, iterVars, plugVars
<1>6. ASSUME NEW n \in Names \cup {Star}, Subscribe(p, n) PROVE TypeOK'
  BY <1>6 DEF TypeOK, Subscribe, evVars, iterVars, plugVars
<1>7. ASSUME NEW n \in Names \cup {Star}, Unsubscribe(p, n) PROVE TypeOK'
  BY <1>7 DEF TypeOK, Unsubscribe, evVars, iterVars, plugVars
<1> QED BY <1>1, <1>2, <1>3, <1>4, <1>5, <1>6, <1>7 DEF Control

LEMMA NextTypeOK == TypeOK /\ Accounting /\ [Next]_vars => TypeOK'
<1> SUFFICES ASSUME TypeOK, Accounting, [Next]_vars PROVE TypeOK'
  OBVIOUS
<1>1. CASE Emit
  BY <1>1, EmitType
<1>2. CASE Bus
  BY <1>2, BusType
<1>3. ASSUME NEW a \in Actors, SyncReturn(a) PROVE TypeOK'
  BY <1>3, EventsNat DEF TypeOK, SyncReturn, iterVars, regVars, plugVars
<1>4. ASSUME NEW p \in Plugins, Requeue(p) PROVE TypeOK'
  <2>1. cur[p] \in Events /\ cur[p] \in 0..MaxEvents /\ 0 \in 0..MaxEvents
    BY <1>4, EventsNat DEF TypeOK, Requeue, Events
  <2>2. evq' \in Seq(Events) /\ unf' \in Nat /\ requeued' \in Nat
    BY <1>4, <2>1 DEF TypeOK, Requeue, Put
  <2>3. waiting' \in [Actors -> 0..MaxEvents]
    BY <1>4, <2>1 DEF TypeOK, Requeue, Put
  <2> QED
    BY <1>4, <2>2, <2>3 DEF TypeOK, Requeue, iterVars, regVars, plugVars
<1>5. ASSUME NEW p \in Plugins, Handler(p) PROVE TypeOK'
  BY <1>5, HandlerType
<1>6. ASSUME NEW p \in Plugins, Control(p) PROVE TypeOK'
  BY <1>6, ControlType
<1>7. CASE UNCHANGED vars
  BY <1>7 DEF TypeOK, vars, evVars, iterVars, regVars, plugVars
<1> QED BY <1>1, <1>2, <1>3, <1>4, <1>5, <1>6, <1>7 DEF Next

(* The counts: join() waits on exactly what is unfinished.                     *)
LEMMA InitAccounting == Init => Accounting
  BY DEF Init, Accounting, Busy

LEMMA NextAccounting == TypeOK /\ Accounting /\ [Next]_vars => Accounting'
<1> SUFFICES ASSUME TypeOK, Accounting, [Next]_vars PROVE Accounting'
  OBVIOUS
<1>1. CASE Emit
  <2>1. PICK a, n, sync, path : NewEvent(a, n, sync, path)
    BY <1>1 DEF Emit, EmitExternal, EmitPlugin, EmitHandler
  <2>2. Len(evq') = Len(evq) + 1 /\ Len(evq) \in Nat
    BY <2>1 DEF TypeOK, NewEvent, Put
  <2>3. /\ unf' = unf + 1 /\ busEv' = busEv /\ raised' = raised
        /\ pq' = pq /\ punf' = punf /\ cur' = cur
    BY <2>1 DEF NewEvent, Put, iterVars, plugVars
  <2>4. unf' = Len(evq') + Busy(busEv') + raised'
    <3>1. unf = Len(evq) + Busy(busEv) + raised /\ unf \in Nat /\ raised \in Nat
      BY DEF Accounting, TypeOK
    <3> QED BY <3>1, <2>2, <2>3 DEF Busy
  <2> QED BY <2>3, <2>4 DEF Accounting
<1>2. CASE BusGet
  <2>1. /\ Len(evq) = Len(Tail(evq)) + 1
        /\ busEv = 0 /\ Head(evq) # 0
    BY <1>2, EventsNat DEF TypeOK, BusGet
  <2>2. Len(evq) \in Nat /\ Len(evq') \in Nat
    BY <1>2 DEF TypeOK, BusGet
  <2> QED
    BY <1>2, <2>1, <2>2 DEF Accounting, BusGet, Busy, plugVars, TypeOK
<1>3. ASSUME NEW p \in Plugins, BusVisit(p) PROVE Accounting'
  <2>1. CASE Skip(p, busEv)
    BY <1>3, <2>1 DEF Accounting, BusVisit, Busy
  <2>2. CASE ~Skip(p, busEv)
    <3>1. Deliver(p) /\ busEv \in Events
      BY <1>3, <2>2, EventsNat DEF BusVisit, TypeOK, Events
    <3>2. ASSUME NEW q \in Plugins
          PROVE  punf'[q] = Len(pq'[q]) + Busy(cur'[q])
      <4>1. CASE q = p
        <5>1. Len(pq'[p]) = Len(pq[p]) + 1 /\ punf'[p] = punf[p] + 1 /\ cur' = cur
          BY <1>3, <3>1 DEF TypeOK, Deliver, BusVisit
        <5>2. punf[p] = Len(pq[p]) + Busy(cur[p]) /\ Len(pq[p]) \in Nat
          BY DEF Accounting, TypeOK
        <5>3. Busy(cur'[p]) = Busy(cur[p]) /\ Busy(cur[p]) \in Nat
          BY <5>1 DEF Busy
        <5>4. punf'[p] = Len(pq'[p]) + Busy(cur'[p])
          BY <5>1, <5>2, <5>3
        <5> QED BY <4>1, <5>4
      <4>2. CASE q # p
        <5>1. pq'[q] = pq[q] /\ punf'[q] = punf[q] /\ cur' = cur
          BY <1>3, <3>1, <4>2 DEF TypeOK, Deliver, BusVisit
        <5>2. punf[q] = Len(pq[q]) + Busy(cur[q]) /\ Len(pq[q]) \in Nat
          BY DEF Accounting, TypeOK
        <5> QED BY <5>1, <5>2 DEF Busy
      <4> QED BY <4>1, <4>2
    <3> QED BY <1>3, <3>2 DEF Accounting, BusVisit
  <2> QED BY <2>1, <2>2
<1>4. CASE BusRaise
  <2>1. busEv # 0 /\ Len(evq) \in Nat
    BY <1>4 DEF TypeOK, BusRaise
  <2> QED BY <1>4, <2>1 DEF TypeOK, Accounting, BusRaise, Busy, evVars, plugVars
<1>5. CASE BusEnd
  BY <1>5 DEF Accounting, BusEnd, Busy, evVars, plugVars
<1>6. CASE BusJoin
  BY <1>6 DEF Accounting, BusJoin, Busy, evVars, plugVars
<1>7. CASE BusDone
  <2>1. busEv # 0 /\ Len(evq) \in Nat
    BY <1>7 DEF TypeOK, BusDone
  <2> QED BY <1>7, <2>1 DEF TypeOK, Accounting, BusDone, Busy, plugVars
<1>8. ASSUME NEW a \in Actors, SyncReturn(a) PROVE Accounting'
  BY <1>8 DEF Accounting, SyncReturn, Busy, iterVars, plugVars
<1>9. ASSUME NEW p \in Plugins, Requeue(p) PROVE Accounting'
  <2>1. Len(evq') = Len(evq) + 1 /\ Len(evq) \in Nat
    BY <1>9, EventsNat DEF TypeOK, Requeue, Put, Events
  <2>2. /\ unf' = unf + 1 /\ busEv' = busEv /\ raised' = raised
        /\ pq' = pq /\ punf' = punf /\ cur' = cur
    BY <1>9 DEF Requeue, Put, iterVars, plugVars
  <2>3. unf' = Len(evq') + Busy(busEv') + raised'
    <3>1. unf = Len(evq) + Busy(busEv) + raised /\ unf \in Nat /\ raised \in Nat
      BY DEF Accounting, TypeOK
    <3> QED BY <3>1, <2>1, <2>2 DEF Busy
  <2> QED BY <2>2, <2>3 DEF Accounting
<1>10. ASSUME NEW p \in Plugins, HandlerTake(p) PROVE Accounting'
  <2>1. /\ Len(pq[p]) = Len(Tail(pq[p])) + 1 /\ cur[p] = 0
        /\ Head(pq[p]) # 0 /\ Len(Tail(pq[p])) \in Nat
    BY <1>10, EventsNat DEF TypeOK, HandlerTake
  <2>2. \A q \in Plugins : punf'[q] = Len(pq'[q]) + Busy(cur'[q])
    <3> SUFFICES ASSUME NEW q \in Plugins
                 PROVE  punf'[q] = Len(pq'[q]) + Busy(cur'[q])
      OBVIOUS
    <3>1. CASE q = p
      <4>1. /\ pq'[p] = Tail(pq[p]) /\ cur'[p] = Head(pq[p]) /\ punf'[p] = punf[p]
        BY <1>10 DEF TypeOK, HandlerTake
      <4>2. punf[p] = Len(pq[p]) + Busy(cur[p]) /\ Len(pq[p]) \in Nat
        BY DEF Accounting, TypeOK
      <4> QED BY <3>1, <4>1, <4>2, <2>1 DEF Busy
    <3>2. CASE q # p
      <4>1. pq'[q] = pq[q] /\ cur'[q] = cur[q] /\ punf' = punf
        BY <1>10, <3>2 DEF TypeOK, HandlerTake
      <4>2. punf[q] = Len(pq[q]) + Busy(cur[q]) /\ Len(pq[q]) \in Nat
        BY DEF Accounting, TypeOK
      <4> QED BY <4>1, <4>2 DEF Busy
    <3> QED BY <3>1, <3>2
  <2> QED BY <1>10, <2>2 DEF Accounting, HandlerTake, evVars, iterVars
<1>11. ASSUME NEW p \in Plugins, HandlerDone(p) PROVE Accounting'
  <2>1. Len(pq[p]) \in Nat
    BY DEF TypeOK
  <2>2. \A q \in Plugins : punf'[q] = Len(pq'[q]) + Busy(cur'[q])
    BY <1>11, <2>1 DEF TypeOK, HandlerDone, Accounting, Busy
  <2> QED BY <1>11, <2>2 DEF Accounting, HandlerDone, evVars, iterVars
<1>12. ASSUME NEW p \in Plugins, HandlerExit(p) \/ PluginDies(p) PROVE Accounting'
  BY <1>12 DEF HandlerExit, PluginDies, Accounting, Busy, evVars, iterVars, plugVars
<1>13. ASSUME NEW p \in Plugins, Control(p) PROVE Accounting'
  BY <1>13 DEF Control, StartAdd, StartSubscribe, StartThread, StopSignal, Unload,
               Subscribe, Unsubscribe, Accounting, Busy, evVars, iterVars, plugVars
<1>14. CASE UNCHANGED vars
  BY <1>14 DEF Accounting, Busy, vars, evVars, iterVars, plugVars
<1> QED
  BY <1>1, <1>2, <1>3, <1>4, <1>5, <1>6, <1>7, <1>8, <1>9, <1>10, <1>11, <1>12,
     <1>13, <1>14 DEF Next, Bus, Handler

(* Type correctness of every reachable state, and the counts are exact:       *)
(* neither queue's unfinished count goes below the work that is left.          *)
THEOREM TypeAndAccounting == Spec => [](TypeOK /\ Accounting)
<1>1. Init => TypeOK /\ Accounting
  BY InitTypeOK, InitAccounting
<1>2. TypeOK /\ Accounting /\ [Next]_vars => TypeOK' /\ Accounting'
  BY NextTypeOK, NextAccounting
<1> QED BY <1>1, <1>2, PTL DEF Spec
-----------------------------------------------------------------------------
(* Membership in a queue. *)
LEMMA InSeqAppend ==
  ASSUME NEW S, NEW s \in Seq(S), NEW x \in S, NEW y
  PROVE  InSeq(Append(s, x), y) <=> (InSeq(s, y) \/ y = x)
<1> DEFINE t == Append(s, x)
<1>1. /\ Len(s) \in Nat /\ Len(t) = Len(s) + 1 /\ t[Len(s) + 1] = x
      /\ \A i \in 1..Len(s) : t[i] = s[i]
  OBVIOUS
<1> HIDE DEF t
<1>2. InSeq(t, y) <=> (InSeq(s, y) \/ y = x)
  <2>1. ASSUME InSeq(t, y) PROVE InSeq(s, y) \/ y = x
    BY <1>1, <2>1 DEF InSeq
  <2>2. ASSUME InSeq(s, y) PROVE InSeq(t, y)
    BY <1>1, <2>2 DEF InSeq
  <2>3. ASSUME y = x PROVE InSeq(t, y)
    <3>1. Len(s) + 1 \in 1..Len(t)
      BY <1>1
    <3> QED BY <1>1, <2>3, <3>1 DEF InSeq
  <2> QED BY <2>1, <2>2, <2>3
<1> QED BY <1>2 DEF t

LEMMA InSeqTail ==
  ASSUME NEW S, NEW s \in Seq(S), s # <<>>, NEW y
  PROVE  InSeq(s, y) <=> (y = Head(s) \/ InSeq(Tail(s), y))
<1> DEFINE t == Tail(s)
<1>1. /\ Len(s) \in Nat \ {0} /\ Len(t) = Len(s) - 1 /\ s[1] = Head(s)
      /\ \A i \in 1..Len(t) : t[i] = s[i + 1]
  OBVIOUS
<1> HIDE DEF t
<1>2. InSeq(s, y) <=> (y = Head(s) \/ InSeq(t, y))
  <2>1. ASSUME InSeq(s, y) PROVE y = Head(s) \/ InSeq(t, y)
    <3>1. PICK i \in 1..Len(s) : s[i] = y
      BY <2>1 DEF InSeq
    <3>2. CASE i = 1
      BY <1>1, <3>1, <3>2
    <3>3. CASE i # 1
      <4>1. i - 1 \in 1..Len(t) /\ t[i - 1] = s[(i - 1) + 1] /\ (i - 1) + 1 = i
        BY <1>1, <3>1, <3>3
      <4> QED BY <3>1, <4>1 DEF InSeq
    <3> QED BY <3>2, <3>3
  <2>2. ASSUME InSeq(t, y) PROVE InSeq(s, y)
    <3>1. PICK i \in 1..Len(t) : t[i] = y
      BY <2>2 DEF InSeq
    <3>2. i + 1 \in 1..Len(s) /\ s[i + 1] = y
      BY <1>1, <3>1
    <3> QED BY <3>2 DEF InSeq
  <2>3. ASSUME y = Head(s) PROVE InSeq(s, y)
    <3>1. 1 \in 1..Len(s)
      BY <1>1
    <3> QED BY <1>1, <2>3, <3>1 DEF InSeq
  <2> QED BY <2>1, <2>2, <2>3
<1> QED BY <1>2 DEF t

LEMMA InSeqEmpty == \A y : ~InSeq(<<>>, y)
  BY DEF InSeq
-----------------------------------------------------------------------------
(* Synchronous events.                                                         *)
LEMMA InitBusInv == Init => BusInv
<1> SUFFICES ASSUME Init PROVE BusInv
  OBVIOUS
<1>1. /\ evq = <<>> /\ busEv = 0 /\ \A p \in Plugins : pq[p] = <<>> /\ cur[p] = 0
      /\ \A a \in Actors : waiting[a] = 0
  BY DEF Init
<1>2. \A e \in Events, p \in Plugins : ~Pending(e, p)
  BY <1>1, InSeqEmpty, EventsNat DEF Pending
<1> QED
  BY <1>1, <1>2, InitTypeOK, InitAccounting, InSeqEmpty, EventsNat
     DEF BusInv, UsedExist, WaitSync, SyncIsolation

(* A step that leaves the plugins' queues and the event objects alone and does  *)
(* not make the bus forget an event keeps the synchronous events isolated.      *)
LEMMA IsolationFrame ==
  ASSUME SyncIsolation, UNCHANGED <<pq, cur, busEv, handled, raised>>,
         \A e \in Events, p \in Plugins : Pending(e, p) => ev'[e].sync = ev[e].sync
  PROVE  SyncIsolation'
  BY DEF SyncIsolation, Pending

LEMMA NewEventInv ==
  ASSUME BusInv, NEW a \in Actors, NEW n \in Names, NEW sync \in BOOLEAN,
         NEW path \in Seq(Plugins), NewEvent(a, n, sync, path)
  PROVE  UsedExist' /\ WaitSync' /\ SyncIsolation'
<1> USE DEF BusInv
<1>1. made \in Nat /\ made + 1 \in Events /\ Events \subseteq Nat
  BY ConstantsAssumption DEF TypeOK, NewEvent, Events
<1>2. /\ pq' = pq /\ cur' = cur /\ busEv' = busEv /\ handled' = handled
      /\ raised' = raised /\ made' = made + 1
      /\ evq' = Append(evq, made + 1)
      /\ waiting' = [waiting EXCEPT ![a] = IF sync THEN made + 1 ELSE 0]
  BY DEF NewEvent, Put, iterVars, plugVars
<1>3. \A e \in Events : e <= made => ev'[e] = ev[e]
  BY <1>1 DEF NewEvent, TypeOK
<1>4. ev'[made + 1].sync = sync
  BY <1>1 DEF NewEvent, TypeOK
<1>5. UsedExist'
  <2> SUFFICES ASSUME NEW e \in Events,
                      InSeq(evq', e) \/ busEv' = e \/ \E p \in Plugins : Pending(e, p)'
               PROVE  e <= made'
    BY DEF UsedExist
  <2>1. InSeq(evq', e) <=> (InSeq(evq, e) \/ e = made + 1)
    BY <1>1, <1>2, InSeqAppend DEF TypeOK
  <2>2. \A p \in Plugins : Pending(e, p)' <=> Pending(e, p)
    BY <1>2 DEF Pending
  <2>3. e <= made \/ e = made + 1
    BY <1>2, <2>1, <2>2 DEF UsedExist
  <2> QED BY <1>1, <1>2, <2>3
<1>6. WaitSync'
  <2> SUFFICES ASSUME NEW b \in Actors, waiting'[b] # 0
               PROVE  waiting'[b] <= made' /\ ev'[waiting'[b]].sync
    BY DEF WaitSync
  <2>1. CASE b = a
    <3>1. sync /\ waiting'[b] = made + 1
      BY <1>2, <2>1 DEF TypeOK
    <3>2. waiting'[b] <= made'
      BY <1>1, <1>2, <3>1
    <3> QED BY <1>4, <3>1, <3>2
  <2>2. CASE b # a
    <3>1. waiting'[b] = waiting[b] /\ waiting[b] # 0
      BY <1>2, <2>2 DEF TypeOK
    <3>2. /\ waiting[b] \in Events /\ waiting[b] \in Nat
          /\ waiting[b] <= made /\ ev[waiting[b]].sync
      BY <3>1, EventsNat DEF TypeOK, WaitSync, Events
    <3>3. waiting[b] <= made'
      BY <1>1, <1>2, <3>2
    <3>4. ev'[waiting[b]].sync
      BY <1>3, <3>2
    <3> QED BY <3>1, <3>3, <3>4
  <2> QED BY <2>1, <2>2
<1>7. SyncIsolation'
  <2>1. \A e \in Events, p \in Plugins : Pending(e, p) => ev'[e].sync = ev[e].sync
    BY <1>3 DEF UsedExist
  <2> QED BY <1>2, <2>1, IsolationFrame
<1> QED BY <1>5, <1>6, <1>7

LEMMA BusVisitInv ==
  ASSUME BusInv, NEW p \in Plugins, BusVisit(p)
  PROVE  UsedExist' /\ WaitSync' /\ SyncIsolation'
<1> USE DEF BusInv
<1>1. /\ busEv \in Events /\ busEv' = busEv /\ raised' = raised /\ cur' = cur
      /\ made' = made /\ evq' = evq /\ waiting' = waiting
  BY EventsNat DEF BusVisit, TypeOK, Events
<1>2. CASE Skip(p, busEv)
  <2>1. ev' = ev /\ pq' = pq /\ handled' = handled
    BY <1>2 DEF BusVisit
  <2> QED BY <1>1, <2>1, IsolationFrame DEF UsedExist, WaitSync, Pending
<1>3. CASE ~Skip(p, busEv)
  <2>1. /\ Deliver(p)
        /\ pq' = [pq EXCEPT ![p] = Append(pq[p], busEv)]
        /\ handled' = Append(handled, p)
    BY <1>3 DEF BusVisit, Deliver
  <2>2. \A e \in Events : ev'[e].sync = ev[e].sync
    BY <1>1, <2>1 DEF Deliver, TypeOK
  <2>3. ASSUME NEW e \in Events, NEW q \in Plugins
        PROVE  Pending(e, q)' => Pending(e, q) \/ (e = busEv /\ q = p)
    <3>1. CASE q = p
      <4>1. pq'[p] = Append(pq[p], busEv) /\ pq[p] \in Seq(Events)
        BY <2>1 DEF TypeOK
      <4>2. InSeq(pq'[p], e) <=> (InSeq(pq[p], e) \/ e = busEv)
        BY <1>1, <4>1, InSeqAppend
      <4> QED BY <1>1, <3>1, <4>2 DEF Pending
    <3>2. CASE q # p
      <4>1. pq'[q] = pq[q]
        BY <2>1, <3>2 DEF TypeOK
      <4> QED BY <1>1, <4>1 DEF Pending
    <3> QED BY <3>1, <3>2
  <2>4. \A q \in Plugins : InSeq(handled', q) <=> (InSeq(handled, q) \/ q = p)
    BY <2>1, InSeqAppend DEF TypeOK
  <2>5. UsedExist'
    BY <1>1, <2>3 DEF UsedExist
  <2>6. WaitSync'
    <3>1. \A a \in Actors : waiting[a] # 0 => waiting[a] \in Events
      BY EventsNat DEF TypeOK, Events
    <3> QED BY <1>1, <2>2, <3>1 DEF WaitSync
  <2>7. SyncIsolation'
    BY <1>1, <2>2, <2>3, <2>4 DEF SyncIsolation
  <2> QED BY <2>5, <2>6, <2>7
<1> QED BY <1>2, <1>3

LEMMA BusStepInv ==
  ASSUME BusInv, BusGet \/ BusRaise \/ BusEnd \/ BusJoin \/ BusDone
  PROVE  UsedExist' /\ WaitSync' /\ SyncIsolation'
<1> USE DEF BusInv
<1>1. pq' = pq /\ cur' = cur /\ ev' = ev /\ made' = made /\ waiting' = waiting
  BY DEF BusGet, BusRaise, BusEnd, BusJoin, BusDone, evVars, plugVars
<1>2. WaitSync'
  BY <1>1 DEF WaitSync
<1>3. CASE BusGet
  <2>1. /\ evq # <<>> /\ busEv' = Head(evq) /\ evq' = Tail(evq) /\ busEv = 0
        /\ raised' = raised
    BY <1>3 DEF BusGet, TypeOK
  <2>2. \A e \in Events : InSeq(evq, e) <=> (e = Head(evq) \/ InSeq(Tail(evq), e))
    BY <2>1, InSeqTail DEF TypeOK
  <2>3. UsedExist'
    BY <1>1, <2>1, <2>2 DEF UsedExist, Pending
  <2>4. SyncIsolation'
    BY <1>1, <2>1, EventsNat DEF SyncIsolation, Pending
  <2> QED BY <1>2, <2>3, <2>4
<1>4. CASE BusRaise
  <2>1. evq' = evq /\ raised' # 0 /\ busEv' = 0
    BY <1>4 DEF BusRaise, TypeOK, evVars
  <2> QED BY <1>1, <1>2, <2>1, EventsNat DEF UsedExist, SyncIsolation, Pending
<1>5. CASE BusEnd
  <2>1. /\ evq' = evq /\ raised' = raised /\ busEv' = busEv
        /\ handled' = IF ev[busEv].sync THEN handled ELSE <<>>
    BY <1>5 DEF BusEnd, evVars
  <2>2. SyncIsolation'
    BY <1>1, <2>1 DEF SyncIsolation, Pending
  <2> QED BY <1>1, <1>2, <2>1, <2>2 DEF UsedExist, Pending
<1>6. CASE BusJoin
  <2>1. /\ evq' = evq /\ raised' = raised /\ busEv' = busEv
        /\ handled # <<>> /\ handled' = Tail(handled) /\ handled \in Seq(Plugins)
        /\ punf[Head(handled)] = 0
    BY <1>6 DEF BusJoin, evVars, TypeOK
  <2>2. \A q \in Plugins : InSeq(handled, q) <=> (q = Head(handled) \/ InSeq(handled', q))
    BY <2>1, InSeqTail
  <2>3. \A e \in Events : ~Pending(e, Head(handled))
    <3>1. Head(handled) \in Plugins
      BY <2>1
    <3>2. Len(pq[Head(handled)]) = 0 /\ cur[Head(handled)] = 0
      <4> DEFINE h == Head(handled)
      <4>1. /\ punf[h] = Len(pq[h]) + Busy(cur[h]) /\ Len(pq[h]) \in Nat /\ punf[h] = 0
            /\ Busy(cur[h]) \in Nat /\ (Busy(cur[h]) = 0 => cur[h] = 0)
        <5>1. punf[h] = Len(pq[h]) + Busy(cur[h])
          BY <3>1 DEF Accounting
        <5>2. Len(pq[h]) \in Nat
          BY <3>1 DEF TypeOK
        <5>3. Busy(cur[h]) \in Nat /\ (Busy(cur[h]) = 0 => cur[h] = 0)
          BY DEF Busy
        <5> QED BY <2>1, <5>1, <5>2, <5>3
      <4> QED BY <4>1
    <3> QED BY <3>2, EventsNat DEF Pending, InSeq
  <2>4. SyncIsolation'
    BY <1>1, <2>1, <2>2, <2>3 DEF SyncIsolation, Pending
  <2> QED BY <1>1, <1>2, <2>1, <2>4 DEF UsedExist, Pending
<1>7. CASE BusDone
  <2>1. evq' = evq /\ raised' = raised /\ busEv' = 0 /\ handled = <<>>
    BY <1>7 DEF BusDone
  <2>2. SyncIsolation'
    BY <1>1, <2>1, InSeqEmpty DEF SyncIsolation, Pending
  <2> QED BY <1>1, <1>2, <2>1, <2>2, EventsNat DEF UsedExist, Pending
<1> QED BY <1>3, <1>4, <1>5, <1>6, <1>7

LEMMA PluginStepInv ==
  ASSUME BusInv, NEW p \in Plugins, Handler(p) \/ Requeue(p) \/ Control(p)
  PROVE  UsedExist' /\ WaitSync' /\ SyncIsolation'
<1> USE DEF BusInv
<1>1. CASE HandlerTake(p)
  <2>1. /\ UNCHANGED <<evVars, iterVars>> /\ cur[p] = 0 /\ pq[p] # <<>>
        /\ cur' = [cur EXCEPT ![p] = Head(pq[p])] /\ pq' = [pq EXCEPT ![p] = Tail(pq[p])]
    BY <1>1 DEF HandlerTake
  <2>2. \A e \in Events : InSeq(pq[p], e) <=> (e = Head(pq[p]) \/ InSeq(Tail(pq[p]), e))
    BY <2>1, InSeqTail DEF TypeOK
  <2>3. \A e \in Events, q \in Plugins : Pending(e, q)' => Pending(e, q)
    BY <2>1, <2>2 DEF Pending, TypeOK
  <2> QED BY <2>1, <2>3 DEF UsedExist, WaitSync, SyncIsolation, evVars, iterVars
<1>2. CASE HandlerDone(p)
  <2>1. UNCHANGED <<evVars, iterVars>> /\ pq' = pq /\ cur' = [cur EXCEPT ![p] = 0]
    BY <1>2 DEF HandlerDone
  <2>2. \A e \in Events, q \in Plugins : Pending(e, q)' => Pending(e, q)
    BY <2>1, EventsNat DEF Pending, TypeOK
  <2> QED BY <2>1, <2>2 DEF UsedExist, WaitSync, SyncIsolation, evVars, iterVars
<1>3. CASE Requeue(p)
  <2>1. /\ pq' = pq /\ cur' = cur /\ busEv' = busEv /\ handled' = handled /\ ev' = ev
        /\ raised' = raised /\ made' = made /\ evq' = Append(evq, cur[p])
        /\ waiting' = [waiting EXCEPT ![p] = IF ev[cur[p]].sync THEN cur[p] ELSE 0]
        /\ cur[p] \in Events
    BY <1>3, EventsNat DEF Requeue, Put, iterVars, plugVars, TypeOK, Events
  <2>2. \A e \in Events : InSeq(evq', e) <=> (InSeq(evq, e) \/ e = cur[p])
    BY <2>1, InSeqAppend DEF TypeOK
  <2>3. cur[p] <= made
    BY <2>1 DEF UsedExist, Pending
  <2>4. UsedExist'
    BY <2>1, <2>2, <2>3 DEF UsedExist, Pending
  <2>5. WaitSync'
    BY <2>1, <2>3 DEF WaitSync, TypeOK, Actors
  <2>6. SyncIsolation'
    BY <2>1, IsolationFrame
  <2> QED BY <2>4, <2>5, <2>6
<1>4. CASE HandlerExit(p) \/ PluginDies(p) \/ Control(p)
  <2>1. UNCHANGED <<evVars, iterVars, plugVars>>
    BY <1>4 DEF HandlerExit, PluginDies, Control, StartAdd, StartSubscribe, StartThread,
                StopSignal, Unload, Subscribe, Unsubscribe
  <2> QED
    BY <2>1 DEF UsedExist, WaitSync, SyncIsolation, Pending, evVars, iterVars, plugVars
<1> QED BY <1>1, <1>2, <1>3, <1>4 DEF Handler

LEMMA NextBusInv == BusInv /\ [Next]_vars => BusInv'
<1> SUFFICES ASSUME BusInv, [Next]_vars PROVE BusInv'
  OBVIOUS
<1> USE DEF BusInv
<1>1. TypeOK' /\ Accounting'
  BY NextTypeOK, NextAccounting
<1>2. CASE Emit
  <2>1. PICK a \in Actors, n \in Names, sync \in BOOLEAN, path \in Seq(Plugins) :
          NewEvent(a, n, sync, path)
    <3>1. /\ <<>> \in Seq(Plugins) /\ \A p \in Plugins : <<p>> \in Seq(Plugins)
          /\ Threads \subseteq Actors /\ Plugins \subseteq Actors
      BY DEF Actors
    <3> QED BY <1>2, <3>1 DEF Emit, EmitExternal, EmitPlugin, EmitHandler
  <2> QED BY <1>1, <2>1, NewEventInv
<1>3. CASE Bus
  BY <1>1, <1>3, BusStepInv, BusVisitInv DEF Bus
<1>4. ASSUME NEW a \in Actors, SyncReturn(a) PROVE BusInv'
  <2>1. /\ UNCHANGED <<ev, made, evq, iterVars, plugVars>>
        /\ waiting' = [waiting EXCEPT ![a] = 0]
    BY <1>4 DEF SyncReturn
  <2> QED
    BY <1>1, <2>1 DEF UsedExist, WaitSync, SyncIsolation, Pending, iterVars, plugVars, TypeOK
<1>5. ASSUME NEW p \in Plugins, Requeue(p) \/ Handler(p) \/ Control(p) PROVE BusInv'
  BY <1>1, <1>5, PluginStepInv
<1>6. CASE UNCHANGED vars
  BY <1>1, <1>6 DEF UsedExist, WaitSync, SyncIsolation, Pending,
                    vars, evVars, iterVars, plugVars
<1> QED BY <1>2, <1>3, <1>4, <1>5, <1>6 DEF Next

(* The inductive invariant holds in every reachable state.                     *)
THEOREM BusInvariant == Spec => []BusInv
  BY InitBusInv, NextBusInv, PTL DEF Spec

(* While a synchronous event is unhandled at some plugin the bus stays at it,   *)
(* as long as no exception has thrown the bus off an event.                     *)
THEOREM SyncIsolationHolds == Spec => []SyncIsolation
<1>1. BusInv => SyncIsolation
  BY DEF BusInv
<1> QED BY <1>1, BusInvariant, PTL

(* What a synchronous event() promises: when it returns, every plugin its event *)
(* was delivered to has handled it.                                             *)
THEOREM SyncBarrierHolds == Spec => SyncBarrier
<1> DEFINE Step == \A a \in Actors :
                     waiting[a] # 0 /\ waiting'[a] = 0 =>
                       \A p \in Plugins : ~Pending(waiting[a], p)
<1>1. BusInv /\ [Next]_vars => [Step]_vars
  <2> SUFFICES ASSUME BusInv, Next, NEW a \in Actors,
                      waiting[a] # 0, waiting'[a] = 0, NEW p \in Plugins
               PROVE  ~Pending(waiting[a], p)
    OBVIOUS
  <2>1. SyncReturn(a)
    <3>1. ~Emit
      BY EventsNat DEF BusInv, TypeOK, Emit, EmitExternal, EmitPlugin, EmitHandler, NewEvent, Put
    <3>2. ~Bus
      BY DEF Bus, BusGet, BusVisit, BusRaise, BusEnd, BusJoin, BusDone, evVars
    <3>3. ASSUME NEW q \in Plugins PROVE ~Requeue(q) /\ ~Handler(q) /\ ~Control(q)
      <4>1. ~Requeue(q)
        BY DEF BusInv, TypeOK, Requeue, Put
      <4>2. ~Handler(q) /\ ~Control(q)
        BY DEF Handler, HandlerTake, HandlerDone, HandlerExit, PluginDies,
               Control, StartAdd, StartSubscribe, StartThread, StopSignal,
               Unload, Subscribe, Unsubscribe, evVars
      <4> QED BY <4>1, <4>2
    <3>4. PICK b \in Actors : SyncReturn(b)
      BY <3>1, <3>2, <3>3 DEF Next
    <3>5. b = a
      BY <3>4 DEF SyncReturn, BusInv, TypeOK
    <3> QED BY <3>4, <3>5
  <2>2. raised = 0 /\ busEv = 0
    <3>1. unf = Len(evq) + Busy(busEv) + raised /\ unf = 0
      BY <2>1 DEF SyncReturn, BusInv, Accounting
    <3>2. Len(evq) \in Nat /\ raised \in Nat
      BY DEF BusInv, TypeOK
    <3>3. Busy(busEv) \in Nat /\ (Busy(busEv) = 0 => busEv = 0)
      BY DEF Busy
    <3> QED BY <3>1, <3>2, <3>3
  <2>3. waiting[a] \in Events /\ ev[waiting[a]].sync
    BY EventsNat DEF BusInv, TypeOK, WaitSync, Events
  <2> QED BY <2>2, <2>3, EventsNat DEF BusInv, SyncIsolation
<1> QED BY <1>1, BusInvariant, PTL DEF Spec, SyncBarrier

(* Loop prevention: no plugin but the first of its path gets an event twice.    *)
THEOREM DeliverOnceHolds == Spec => []DeliverOnce
<1>1. Init => DeliverOnce
  BY DEF Init, DeliverOnce, NoEvent
<1>2. BusInv /\ DeliverOnce /\ [Next]_vars => DeliverOnce'
  <2> SUFFICES ASSUME BusInv, DeliverOnce, [Next]_vars PROVE DeliverOnce'
    OBVIOUS
  <2>1. CASE ev' = ev
    BY <2>1 DEF DeliverOnce
  <2>2. ASSUME NEW a, NEW n, NEW sync, NEW path, Len(path) \in 0..1,
               NewEvent(a, n, sync, path)
        PROVE  DeliverOnce'
    <3>1. made + 1 \in Events
      BY <2>2, ConstantsAssumption DEF BusInv, TypeOK, NewEvent, Events
    <3>2. ASSUME NEW e \in Events
          PROVE  ev'[e].path = IF e = made + 1 THEN path ELSE ev[e].path
      BY <2>2, <3>1 DEF NewEvent, BusInv, TypeOK
    <3> QED BY <2>2, <3>2 DEF DeliverOnce
  <2>3. ASSUME NEW p \in Plugins, BusVisit(p), ~Skip(p, busEv)
        PROVE  DeliverOnce'
    <3>1. busEv \in Events /\ ~Seen(p, busEv) /\ Deliver(p)
      BY <2>3, EventsNat DEF BusVisit, Skip, BusInv, TypeOK, Events
    <3>2. /\ ev[busEv].path \in Seq(Plugins)
          /\ ev'[busEv].path = Append(ev[busEv].path, p)
          /\ \A e \in Events : e # busEv => ev'[e].path = ev[e].path
      BY <3>1 DEF Deliver, BusInv, TypeOK
    <3>3. \A i \in 2..Len(ev[busEv].path) : ev[busEv].path[i] # p
      BY <3>1 DEF Seen
    <3>4. ASSUME NEW i \in 2..Len(ev'[busEv].path), NEW j \in 2..Len(ev'[busEv].path),
                 ev'[busEv].path[i] = ev'[busEv].path[j]
          PROVE  i = j
      <4> DEFINE s == ev[busEv].path
      <4>1. /\ ev'[busEv].path = Append(s, p) /\ s \in Seq(Plugins)
            /\ \A k, l \in 2..Len(s) : s[k] = s[l] => k = l
            /\ \A k \in 2..Len(s) : s[k] # p
        BY <3>1, <3>2, <3>3 DEF DeliverOnce
      <4> HIDE DEF s
      <4> QED BY <3>4, <4>1
    <3> QED BY <3>1, <3>2, <3>4 DEF DeliverOnce
  <2>4. CASE Emit
    <3> DEFINE Paths == {<<>>} \cup {<<p>> : p \in Plugins}
    <3>1. <<>> \in Paths /\ \A p \in Plugins : <<p>> \in Paths
      OBVIOUS
    <3>2. \A path \in Paths : Len(path) \in 0..1
      <4>1. \A p \in Plugins : Len(<<p>>) = 1
        OBVIOUS
      <4>2. Len(<<>>) = 0
        OBVIOUS
      <4>3. ASSUME NEW path \in Paths PROVE Len(path) \in 0..1
        <5>1. path = <<>> \/ \E p \in Plugins : path = <<p>>
          OBVIOUS
        <5> HIDE DEF Paths
        <5> QED BY <4>1, <4>2, <5>1
      <4> HIDE DEF Paths
      <4> QED BY <4>3
    <3> HIDE DEF Paths
    <3>3. PICK a \in Actors, n \in Names, sync \in BOOLEAN, path \in Paths :
            NewEvent(a, n, sync, path)
      BY <2>4, <3>1 DEF Emit, EmitExternal, EmitPlugin, EmitHandler, Actors
    <3> QED BY <3>2, <3>3, <2>2
  <2>5. ASSUME NEW p \in Plugins, BusVisit(p) PROVE DeliverOnce'
    <3>1. CASE Skip(p, busEv)
      BY <2>1, <2>5, <3>1 DEF BusVisit
    <3> QED BY <2>3, <2>5, <3>1
  <2>6. CASE BusGet \/ BusRaise \/ BusEnd \/ BusJoin \/ BusDone
    BY <2>1, <2>6 DEF BusGet, BusRaise, BusEnd, BusJoin, BusDone, evVars
  <2>7. ASSUME NEW a \in Actors, SyncReturn(a) PROVE DeliverOnce'
    BY <2>1, <2>7 DEF SyncReturn
  <2>8. ASSUME NEW p \in Plugins, Requeue(p) \/ Handler(p) \/ Control(p)
        PROVE  DeliverOnce'
    BY <2>1, <2>8 DEF Requeue, Handler, HandlerTake, HandlerDone, HandlerExit,
                      PluginDies, Control, StartAdd, StartSubscribe, StartThread,
                      StopSignal, Unload, Subscribe, Unsubscribe, evVars
  <2>9. CASE UNCHANGED vars
    BY <2>1, <2>9 DEF vars, evVars
  <2> QED BY <2>4, <2>5, <2>6, <2>7, <2>8, <2>9 DEF Next, Bus
<1> QED BY <1>1, <1>2, BusInvariant, PTL DEF Spec

-----------------------------------------------------------------------------
(* The order of events.                                                        *)
Increasing(s) == \A i, j \in 1..Len(s) : i < j => s[i] < s[j]

LEMMA IncreasingAppend ==
  ASSUME NEW s \in Seq(Events), NEW x \in Events, Increasing(s),
         \A y \in Events : InSeq(s, y) => y < x
  PROVE  Increasing(Append(s, x))
<1> DEFINE t == Append(s, x)
<1>1. /\ Len(s) \in Nat /\ Len(t) = Len(s) + 1 /\ t[Len(s) + 1] = x
      /\ \A i \in 1..Len(s) : t[i] = s[i] /\ s[i] \in Events
  OBVIOUS
<1>2. \A i \in 1..Len(s) : s[i] < x
  BY <1>1 DEF InSeq
<1> HIDE DEF t
<1>3. Increasing(t)
  <2> SUFFICES ASSUME NEW i \in 1..Len(t), NEW j \in 1..Len(t), i < j PROVE t[i] < t[j]
    BY DEF Increasing
  <2>1. i \in 1..Len(s) /\ t[i] = s[i]
    BY <1>1
  <2>2. CASE j = Len(s) + 1
    BY <1>1, <1>2, <2>1, <2>2
  <2>3. CASE j # Len(s) + 1
    <3>1. j \in 1..Len(s) /\ t[j] = s[j]
      BY <1>1, <2>3
    <3> QED BY <2>1, <3>1 DEF Increasing
  <2> QED BY <2>2, <2>3
<1> QED BY <1>3 DEF t

LEMMA IncreasingTail ==
  ASSUME NEW s \in Seq(Events), s # <<>>, Increasing(s)
  PROVE  Increasing(Tail(s)) /\ \A y : InSeq(Tail(s), y) => Head(s) < y
<1> DEFINE t == Tail(s)
<1>1. /\ Len(s) \in Nat \ {0} /\ Len(t) = Len(s) - 1 /\ s[1] = Head(s)
      /\ \A i \in 1..Len(t) : t[i] = s[i + 1]
  OBVIOUS
<1> HIDE DEF t
<1>2. \A i \in 1..Len(t) : 1 \in 1..Len(s) /\ i + 1 \in 1..Len(s) /\ 1 < i + 1
  BY <1>1
<1>3. Increasing(t)
  BY <1>1, <1>2 DEF Increasing
<1>4. \A y : InSeq(t, y) => Head(s) < y
  BY <1>1, <1>2 DEF Increasing, InSeq
<1> QED BY <1>3, <1>4 DEF t

(* The iterator has gone past the plugin's entry, or there is none. *)
Visited(p) == \A i \in 1..Len(entries) : entries[i] = p => i < iterIdx

(* The inductive invariant behind HandledInOrder: the events on the bus are newer than    *)
(* the one it handles and those are newer than what the plugins have; and a plugin that   *)
(* has the one the bus handles is one the iterator has passed, and passes only once.      *)
PluginOrder ==
  \A p \in Plugins :
    /\ Increasing(pq[p])
    /\ cur[p] # 0 => \A y \in Events : InSeq(pq[p], y) => cur[p] < y

BusOrder ==
  /\ Increasing(evq)
  /\ \A e \in Events : InSeq(evq, e) =>
       busEv < e /\ \A p \in Plugins, f \in Events : Pending(f, p) => f < e

Reached ==
  busEv # 0 => \A p \in Plugins, f \in Events :
    Pending(f, p) => f < busEv \/ (f = busEv /\ Visited(p))

Registry ==
  /\ iterIdx >= 1
  /\ \A i, j \in 1..Len(entries) : entries[i] = entries[j] => i = j
  /\ \A p \in Plugins : phase[p] = "new" => ~InSeq(entries, p)
  /\ \A p \in Plugins, e \in Events : Pending(e, p) => InSeq(entries, p)

OrderInv == PluginOrder /\ BusOrder /\ Reached /\ Registry

LEMMA OrderInit == ASSUME Init PROVE OrderInv
<1>1. evq = <<>> /\ busEv = 0 /\ \A p \in Plugins : pq[p] = <<>> /\ cur[p] = 0
  BY DEF Init
<1>2. \A p \in Plugins, e \in Events : ~Pending(e, p)
  BY <1>1, EventsNat, InSeqEmpty DEF Pending
<1>3. PluginOrder /\ BusOrder /\ Reached
  BY <1>1, <1>2, InSeqEmpty DEF PluginOrder, BusOrder, Reached, Increasing
<1>4. Registry
  <2>1. Cardinality(Plugins \ Late) \in Nat
    BY RegistrySize
  <2>2. /\ entries \in [1..Cardinality(Plugins \ Late) -> Plugins \ Late]
        /\ \A i, j \in DOMAIN entries : entries[i] = entries[j] => i = j
        /\ entries \in Seq(Plugins)
    BY InitTypeOK DEF Init, TypeOK
  <2>3. DOMAIN entries = 1..Len(entries) /\ \A i \in 1..Len(entries) : entries[i] \notin Late
    <3> DEFINE n == Cardinality(Plugins \ Late)
    <3>1. n \in Nat /\ entries \in [1..n -> Plugins \ Late] /\ entries \in Seq(Plugins)
      BY <2>1, <2>2
    <3> HIDE DEF n
    <3>2. DOMAIN entries = 1..Len(entries)
      BY <3>1
    <3> QED BY <3>1, <3>2
  <2>4. iterIdx = 1 /\ \A p \in Plugins : phase[p] = "new" => p \in Late
    BY DEF Init
  <2>5. \A i, j \in 1..Len(entries) : entries[i] = entries[j] => i = j
    BY <2>2, <2>3
  <2>6. \A p \in Plugins : phase[p] = "new" => ~InSeq(entries, p)
    BY <2>3, <2>4 DEF InSeq
  <2> QED BY <1>2, <2>4, <2>5, <2>6 DEF Registry
<1> QED BY <1>3, <1>4 DEF OrderInv

(* Steps that touch neither the queues nor the dictionary. *)
LEMMA OrderQuiet ==
  ASSUME BusInv, OrderInv, UNCHANGED <<evq, busEv, entries, pq, cur, iterIdx>>,
         \A p \in Plugins : phase'[p] = "new" => phase[p] = "new"
  PROVE  OrderInv'
<1>1. PluginOrder' /\ BusOrder'
  BY DEF OrderInv, PluginOrder, BusOrder, Pending
<1>2. Reached' /\ Registry'
  BY DEF OrderInv, Reached, Registry, Pending, Visited
<1> QED BY <1>1, <1>2 DEF OrderInv

(* An event that is created is newer than all there are. *)
LEMMA OrderNewEvent ==
  ASSUME BusInv, OrderInv, NEW a, NEW n, NEW sync, NEW path, NewEvent(a, n, sync, path)
  PROVE  OrderInv'
<1>1. /\ evq' = Append(evq, made + 1) /\ evq \in Seq(Events)
      /\ made + 1 \in Events /\ made \in Nat
      /\ UNCHANGED <<busEv, iterIdx, entries, phase, pq, cur>>
  BY ConstantsAssumption DEF BusInv, TypeOK, NewEvent, Put, Events, iterVars, regVars, plugVars
<1>2. \A e \in Events : InSeq(evq, e) \/ busEv = e \/ (\E p \in Plugins : Pending(e, p)) => e < made + 1
  BY <1>1, EventsNat DEF BusInv, UsedExist, Events
<1>3. busEv < made + 1
  <2>1. busEv = 0 \/ busEv \in Events
    BY EventsNat DEF BusInv, TypeOK, Events
  <2> QED BY <1>1, <1>2, <2>1
<1>4. Increasing(evq')
  BY <1>1, <1>2, IncreasingAppend DEF OrderInv, BusOrder
<1>5. \A e \in Events : InSeq(evq', e) => InSeq(evq, e) \/ e = made + 1
  BY <1>1, InSeqAppend
<1>6. \A p \in Plugins, f \in Events : Pending(f, p)' <=> Pending(f, p)
  BY <1>1 DEF Pending
<1>7. BusOrder'
  BY <1>1, <1>2, <1>3, <1>4, <1>5, <1>6 DEF OrderInv, BusOrder
<1>8. PluginOrder' /\ Reached' /\ Registry'
  BY <1>1, <1>6 DEF OrderInv, PluginOrder, Reached, Registry, Visited
<1> QED BY <1>7, <1>8 DEF OrderInv

(* The bus takes the oldest event. *)
LEMMA OrderGet == ASSUME BusInv, OrderInv, BusGet PROVE OrderInv'
<1>1. /\ evq # <<>> /\ evq \in Seq(Events) /\ evq' = Tail(evq) /\ busEv' = Head(evq)
      /\ iterIdx' = 1 /\ UNCHANGED <<entries, phase, pq, cur>>
  BY DEF BusInv, TypeOK, BusGet, regVars, plugVars
<1>2. Head(evq) \in Events /\ \A e \in Events : InSeq(evq, e) <=> e = Head(evq) \/ InSeq(Tail(evq), e)
  BY <1>1, InSeqTail
<1>3. Increasing(Tail(evq)) /\ \A y : InSeq(Tail(evq), y) => Head(evq) < y
  BY <1>1, IncreasingTail DEF OrderInv, BusOrder
<1>4. \A p \in Plugins, f \in Events : Pending(f, p)' <=> Pending(f, p)
  BY <1>1 DEF Pending
<1>5. BusOrder'
  BY <1>1, <1>2, <1>3, <1>4 DEF OrderInv, BusOrder
<1>6. Reached'
  BY <1>1, <1>2, <1>4 DEF OrderInv, BusOrder, Reached
<1>7. PluginOrder' /\ Registry'
  BY <1>1, <1>4 DEF OrderInv, PluginOrder, Registry
<1> QED BY <1>5, <1>6, <1>7 DEF OrderInv

(* It gives the event it handles up, or is done with it. *)
LEMMA OrderLeave == ASSUME BusInv, OrderInv, BusRaise \/ BusDone PROVE OrderInv'
<1>1. busEv' = 0 /\ UNCHANGED <<evq, entries, phase, pq, cur, iterIdx>>
  BY DEF BusRaise, BusDone, evVars, regVars, plugVars
<1>2. \A p \in Plugins, f \in Events : Pending(f, p)' <=> Pending(f, p)
  BY <1>1 DEF Pending
<1>3. BusOrder' /\ Reached'
  BY <1>1, <1>2, EventsNat DEF OrderInv, BusOrder, Reached, Events
<1>4. PluginOrder' /\ Registry'
  BY <1>1, <1>2 DEF OrderInv, PluginOrder, Registry
<1> QED BY <1>3, <1>4 DEF OrderInv

(* It visits a plugin, which has nothing as new as what it gets. *)
LEMMA OrderVisit == ASSUME BusInv, OrderInv, NEW p \in Plugins, BusVisit(p) PROVE OrderInv'
<1>1. /\ busEv \in Events /\ busEv # 0 /\ iterIdx \in Nat /\ entries \in Seq(Plugins)
      /\ pq \in [Plugins -> Seq(Events)]
      /\ UNCHANGED <<evq, busEv, entries, phase, cur>>
  BY EventsNat DEF BusVisit, BusInv, TypeOK, Events, regVars
<1>2. PICK i \in 1..Len(entries) : i >= iterIdx /\ entries[i] = p /\ iterIdx' = i + 1
  <2>1. PICK i \in Ahead : p = entries[i] /\ iterIdx' = i + 1
    BY DEF BusVisit, NextEntry
  <2>2. i \in iterIdx..Len(entries) /\ Len(entries) \in Nat /\ iterIdx >= 1
    BY <1>1, <2>1 DEF Ahead, OrderInv, Registry
  <2> QED BY <1>1, <2>1, <2>2
<1>3. InSeq(entries, p) /\ ~Visited(p)
  BY <1>1, <1>2 DEF InSeq, Visited
<1>4. \A q \in Plugins : Visited(q) => Visited(q)'
  <2> SUFFICES ASSUME NEW q \in Plugins, Visited(q), NEW j \in 1..Len(entries), entries[j] = q
               PROVE  j < iterIdx'
    BY <1>1 DEF Visited
  <2>1. j < iterIdx
    BY DEF Visited
  <2> QED BY <1>1, <1>2, <2>1
<1>5. Visited(p)'
  BY <1>1, <1>2 DEF Visited, OrderInv, Registry
<1>6. \A f \in Events : Pending(f, p) => f < busEv
  BY <1>1, <1>3 DEF OrderInv, Reached
<1>7. iterIdx' >= 1
  BY <1>2
<1>8. CASE Skip(p, busEv)
  <2>1. pq' = pq
    BY <1>8 DEF BusVisit
  <2>2. \A q \in Plugins, f \in Events : Pending(f, q)' <=> Pending(f, q)
    BY <1>1, <2>1 DEF Pending
  <2>3. PluginOrder' /\ BusOrder' /\ Registry'
    BY <1>1, <1>7, <2>1, <2>2 DEF OrderInv, PluginOrder, BusOrder, Registry
  <2>4. Reached'
    BY <1>1, <1>4, <2>2 DEF OrderInv, Reached
  <2> QED BY <2>3, <2>4 DEF OrderInv
<1>9. CASE ~Skip(p, busEv)
  <2>1. pq'[p] = Append(pq[p], busEv) /\ \A q \in Plugins : q # p => pq'[q] = pq[q]
    BY <1>1, <1>9 DEF BusVisit, Deliver
  <2>2. pq[p] \in Seq(Events) /\ \A f : InSeq(pq'[p], f) <=> InSeq(pq[p], f) \/ f = busEv
    BY <1>1, <2>1, InSeqAppend
  <2>3. \A q \in Plugins, f \in Events : Pending(f, q)' <=> Pending(f, q) \/ (q = p /\ f = busEv)
    <3> SUFFICES ASSUME NEW q \in Plugins, NEW f \in Events
                 PROVE  Pending(f, q)' <=> Pending(f, q) \/ (q = p /\ f = busEv)
      OBVIOUS
    <3>1. CASE q = p
      BY <1>1, <2>2, <3>1 DEF Pending
    <3>2. CASE q # p
      BY <1>1, <2>1, <3>2 DEF Pending
    <3> QED BY <3>1, <3>2
  <2>4. Increasing(pq'[p])
    BY <1>1, <1>6, <2>1, <2>2, IncreasingAppend DEF OrderInv, PluginOrder, Pending
  <2>5. ASSUME cur[p] # 0 PROVE cur[p] < busEv
    <3>1. cur[p] \in Events
      BY <2>5, EventsNat DEF BusInv, TypeOK, Events
    <3> QED BY <1>6, <3>1 DEF Pending
  <2>6. PluginOrder'
    <3> SUFFICES ASSUME NEW q \in Plugins
                 PROVE  /\ Increasing(pq'[q])
                        /\ cur[q] # 0 => \A y \in Events : InSeq(pq'[q], y) => cur[q] < y
      BY <1>1 DEF PluginOrder
    <3>1. CASE q = p
      BY <2>2, <2>4, <2>5, <3>1 DEF OrderInv, PluginOrder
    <3>2. CASE q # p
      BY <2>1, <3>2 DEF OrderInv, PluginOrder
    <3> QED BY <3>1, <3>2
  <2>7. BusOrder'
    BY <1>1, <2>3 DEF OrderInv, BusOrder
  <2>8. Reached'
    BY <1>1, <1>4, <1>5, <2>3 DEF OrderInv, Reached
  <2>9. Registry'
    BY <1>1, <1>3, <1>7, <2>3 DEF OrderInv, Registry
  <2> QED BY <2>6, <2>7, <2>8, <2>9 DEF OrderInv
<1> QED BY <1>8, <1>9

(* A plugin takes the oldest event of its queue, or is done with it. *)
LEMMA OrderHandler ==
  ASSUME BusInv, OrderInv, NEW p \in Plugins, HandlerTake(p) \/ HandlerDone(p)
  PROVE  OrderInv'
<1>1. /\ pq \in [Plugins -> Seq(Events)] /\ cur \in [Plugins -> 0..MaxEvents]
      /\ UNCHANGED <<evq, busEv, entries, phase, iterIdx>>
  BY DEF HandlerTake, HandlerDone, BusInv, TypeOK, evVars, iterVars, regVars
<1>2. \A q \in Plugins : q # p => pq'[q] = pq[q] /\ cur'[q] = cur[q]
  BY <1>1 DEF HandlerTake, HandlerDone
<1>3. /\ Increasing(pq'[p]) /\ \A y \in Events : Pending(y, p)' => Pending(y, p)
      /\ cur'[p] # 0 => \A y \in Events : InSeq(pq'[p], y) => cur'[p] < y
  <2>1. CASE HandlerTake(p)
    <3>1. /\ pq[p] \in Seq(Events) /\ pq[p] # <<>> /\ cur'[p] = Head(pq[p]) /\ pq'[p] = Tail(pq[p])
      BY <1>1, <2>1 DEF HandlerTake
    <3>2. Increasing(Tail(pq[p])) /\ \A y : InSeq(Tail(pq[p]), y) => Head(pq[p]) < y
      BY <3>1, IncreasingTail DEF OrderInv, PluginOrder
    <3>3. \A y : InSeq(pq[p], y) <=> y = Head(pq[p]) \/ InSeq(Tail(pq[p]), y)
      BY <3>1, InSeqTail
    <3> QED BY <3>1, <3>2, <3>3 DEF Pending
  <2>2. CASE HandlerDone(p)
    <3>1. cur'[p] = 0 /\ pq' = pq
      BY <1>1, <2>2 DEF HandlerDone
    <3> QED BY <3>1, EventsNat DEF Pending, OrderInv, PluginOrder
  <2> QED BY <2>1, <2>2
<1>4. \A q \in Plugins, f \in Events : Pending(f, q)' => Pending(f, q)
  <2> SUFFICES ASSUME NEW q \in Plugins, NEW f \in Events, Pending(f, q)' PROVE Pending(f, q)
    OBVIOUS
  <2>1. CASE q = p
    BY <1>3, <2>1
  <2>2. CASE q # p
    BY <1>2, <2>2 DEF Pending
  <2> QED BY <2>1, <2>2
<1>5. PluginOrder'
  BY <1>2, <1>3 DEF OrderInv, PluginOrder
<1>6. BusOrder' /\ Registry'
  BY <1>1, <1>4 DEF OrderInv, BusOrder, Registry
<1>7. Reached'
  BY <1>1, <1>4 DEF OrderInv, Reached, Visited
<1> QED BY <1>5, <1>6, <1>7 DEF OrderInv

(* A plugin enters the dictionary: it has no events yet. *)
LEMMA OrderStart == ASSUME BusInv, OrderInv, NEW p \in Plugins, StartAdd(p) PROVE OrderInv'
<1>1. /\ entries \in Seq(Plugins) /\ entries' = Append(entries, p) /\ ~InSeq(entries, p)
      /\ UNCHANGED <<evq, busEv, pq, cur, iterIdx>>
      /\ phase'[p] = "added" /\ \A q \in Plugins : q # p => phase'[q] = phase[q]
  BY DEF StartAdd, BusInv, TypeOK, OrderInv, Registry, evVars, iterVars, plugVars
<1>2. /\ Len(entries) \in Nat /\ Len(entries') = Len(entries) + 1 /\ entries'[Len(entries) + 1] = p
      /\ \A i \in 1..Len(entries) : entries'[i] = entries[i] /\ entries[i] # p
  BY <1>1 DEF InSeq
<1>3. \A q : InSeq(entries', q) <=> InSeq(entries, q) \/ q = p
  BY <1>1, InSeqAppend
<1>4. \A q \in Plugins, f \in Events : (Pending(f, q)' <=> Pending(f, q)) /\ ~Pending(f, p)
  BY <1>1 DEF Pending, OrderInv, Registry
<1>5. \A q \in Plugins : q # p /\ Visited(q) => Visited(q)'
  <2> SUFFICES ASSUME NEW q \in Plugins, q # p, Visited(q), NEW i \in 1..Len(entries'), entries'[i] = q
               PROVE  i < iterIdx'
    BY DEF Visited
  <2>1. i \in 1..Len(entries)
    BY <1>2
  <2> QED BY <1>1, <1>2, <2>1 DEF Visited
<1>6. PluginOrder' /\ BusOrder'
  BY <1>1, <1>4 DEF OrderInv, PluginOrder, BusOrder
<1>7. Reached'
  BY <1>1, <1>4, <1>5 DEF OrderInv, Reached
<1>8. \A i, j \in 1..Len(entries') : entries'[i] = entries'[j] => i = j
  <2> SUFFICES ASSUME NEW i \in 1..Len(entries'), NEW j \in 1..Len(entries'), entries'[i] = entries'[j]
               PROVE  i = j
    OBVIOUS
  <2>1. i \in 1..Len(entries) \/ i = Len(entries) + 1
    BY <1>2
  <2>2. j \in 1..Len(entries) \/ j = Len(entries) + 1
    BY <1>2
  <2> QED BY <1>2, <2>1, <2>2 DEF OrderInv, Registry
<1>9. Registry'
  BY <1>1, <1>3, <1>4, <1>8 DEF OrderInv, Registry
<1> QED BY <1>6, <1>7, <1>9 DEF OrderInv

LEMMA OrderStep == ASSUME MaxRequeue = 0, BusInv, OrderInv, [Next]_vars PROVE OrderInv'
<1>1. CASE Emit
  <2>1. PICK a, n, sync, path : NewEvent(a, n, sync, path)
    BY <1>1 DEF Emit, EmitExternal, EmitPlugin, EmitHandler
  <2> QED BY <2>1, OrderNewEvent
<1>2. CASE Bus
  <2>1. CASE BusEnd \/ BusJoin
    BY <2>1, OrderQuiet DEF BusEnd, BusJoin, evVars, regVars, plugVars
  <2> QED BY <1>2, <2>1, OrderGet, OrderLeave, OrderVisit DEF Bus
<1>3. ASSUME NEW a \in Actors, SyncReturn(a) PROVE OrderInv'
  BY <1>3, OrderQuiet DEF SyncReturn, iterVars, regVars, plugVars
<1>4. ASSUME NEW p \in Plugins, Requeue(p) PROVE FALSE
  BY <1>4 DEF Requeue, BusInv, TypeOK
<1>5. ASSUME NEW p \in Plugins, Handler(p) PROVE OrderInv'
  <2>1. CASE HandlerExit(p) \/ PluginDies(p)
    <3>1. UNCHANGED <<evq, busEv, entries, pq, cur, iterIdx>>
      BY <2>1 DEF HandlerExit, PluginDies, evVars, iterVars, plugVars
    <3>2. \A q \in Plugins : phase'[q] = "new" => phase[q] = "new"
      BY <2>1 DEF HandlerExit, PluginDies, BusInv, TypeOK
    <3> QED BY <3>1, <3>2, OrderQuiet
  <2> QED BY <1>5, <2>1, OrderHandler DEF Handler
<1>6. ASSUME NEW p \in Plugins, Control(p) PROVE OrderInv'
  <2>1. CASE StartAdd(p)
    BY <2>1, OrderStart
  <2>2. CASE ~StartAdd(p)
    <3>1. UNCHANGED <<evq, busEv, entries, pq, cur, iterIdx>>
      BY <1>6, <2>2 DEF Control, StartSubscribe, StartThread, StopSignal, Unload, Subscribe,
                        Unsubscribe, evVars, iterVars, plugVars
    <3>2. \A q \in Plugins : phase'[q] = "new" => phase[q] = "new"
      BY <1>6, <2>2 DEF Control, StartSubscribe, StartThread, StopSignal, Unload, Subscribe,
                        Unsubscribe, BusInv, TypeOK
    <3> QED BY <3>1, <3>2, OrderQuiet
  <2> QED BY <2>1, <2>2
<1>7. CASE UNCHANGED vars
  BY <1>7, OrderQuiet DEF vars, evVars, iterVars, regVars, plugVars
<1> QED BY <1>1, <1>2, <1>3, <1>4, <1>5, <1>6, <1>7 DEF Next

(* A plugin handles the events it gets in the order they were published, as long as no     *)
(* handler puts one back on the bus (handle_event(), framework.py 580-620).            *)
THEOREM HandledInOrderHolds == ASSUME MaxRequeue = 0 PROVE Spec => []HandledInOrder
<1>1. BusInv /\ OrderInv => HandledInOrder
  <2> SUFFICES ASSUME BusInv, OrderInv, NEW p \in Plugins,
                      NEW s, s = IF cur[p] = 0 THEN pq[p] ELSE <<cur[p]>> \o pq[p]
               PROVE  \A i, j \in 1..Len(s) : i < j => s[i] < s[j]
    BY DEF HandledInOrder
  <2>1. pq[p] \in Seq(Events) /\ Increasing(pq[p])
    BY DEF BusInv, TypeOK, OrderInv, PluginOrder
  <2>2. CASE cur[p] = 0
    BY <2>1, <2>2 DEF Increasing
  <2>3. CASE cur[p] # 0
    <3> DEFINE c == cur[p]
               t == pq[p]
    <3>1. c \in Events
      BY <2>3, EventsNat DEF BusInv, TypeOK, Events
    <3>2. \A i \in 1..Len(t) : c < t[i]
      BY <2>1, <2>3 DEF OrderInv, PluginOrder, InSeq
    <3>3. t \in Seq(Events) /\ s = <<c>> \o t /\ Increasing(t)
      BY <2>1, <2>3
    <3> HIDE DEF c, t
    <3>4. /\ Len(t) \in Nat /\ Len(s) = Len(t) + 1 /\ s[1] = c
          /\ \A i \in 2..Len(s) : i - 1 \in 1..Len(t) /\ s[i] = t[i - 1]
      BY <3>1, <3>3
    <3> SUFFICES ASSUME NEW i \in 1..Len(s), NEW j \in 1..Len(s), i < j PROVE s[i] < s[j]
      OBVIOUS
    <3>5. j - 1 \in 1..Len(t) /\ s[j] = t[j - 1]
      BY <3>4
    <3>6. CASE i = 1
      BY <3>2, <3>4, <3>5, <3>6
    <3>7. CASE i # 1
      <4>1. i - 1 \in 1..Len(t) /\ s[i] = t[i - 1]
        BY <3>4, <3>7
      <4>2. i - 1 < j - 1
        BY <3>4
      <4>3. t[i - 1] < t[j - 1]
        BY <3>3, <3>5, <4>1, <4>2 DEF Increasing
      <4> QED BY <3>5, <4>1, <4>3
    <3> QED BY <3>6, <3>7
  <2> QED BY <2>2, <2>3
<1>2. Init => OrderInv
  BY OrderInit
<1>3. BusInv /\ OrderInv /\ [Next]_vars => OrderInv'
  BY OrderStep
<1> QED BY <1>1, <1>2, <1>3, BusInvariant, PTL DEF Spec
=============================================================================
