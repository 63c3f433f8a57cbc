---------------------------- MODULE CanbusProofs ----------------------------
(***************************************************************************)
(* Proofs about the protocols of MCCanbus, for any nodes, messages, lengths,    *)
(* losses and bounds.  The parts share no state, so each has an invariant of    *)
(* its own, which the steps of the others leave alone.                        *)
(***************************************************************************)
EXTENDS MCCanbus, Sequences, FiniteSets, TLAPS, WellFoundedInduction, FiniteSetTheorems

(* Facts about sequences that the steps need again and again.                          *)
LEMMA Appended ==
  ASSUME NEW S, NEW s \in Seq(S), NEW e \in S
  PROVE  /\ Append(s, e) \in Seq(S) /\ Len(s) \in Nat /\ Len(Append(s, e)) = Len(s) + 1
         /\ DOMAIN s = 1..Len(s) /\ DOMAIN Append(s, e) = 1..(Len(s) + 1)
         /\ Append(s, e)[Len(s) + 1] = e /\ \A i \in DOMAIN s : Append(s, e)[i] = s[i]
OBVIOUS

LEMMA Tailed ==
  ASSUME NEW S, NEW s \in Seq(S), s # <<>>
  PROVE  /\ Tail(s) \in Seq(S) /\ 1 \in DOMAIN s /\ Head(s) = s[1] /\ Head(s) \in S
         /\ Len(s) \in Nat \ {0} /\ DOMAIN s = 1..Len(s) /\ DOMAIN Tail(s) = 1..(Len(s) - 1)
         /\ \A i \in DOMAIN Tail(s) :
              i \in Nat \ {0} /\ i + 1 \in DOMAIN s /\ Tail(s)[i] = s[i + 1]
<1>1. Len(Tail(s)) = Len(s) - 1 /\ Len(s) \in Nat \ {0} /\ Tail(s) \in Seq(S)
      OBVIOUS
<1>2. \A i \in 1..Len(Tail(s)) : Tail(s)[i] = s[i + 1]
      OBVIOUS
<1> QED BY <1>1, <1>2

(* A step is a step of a part, or leaves its variables alone. *)
LEMMA PartSteps ==
  ASSUME [Next]_vars
  PROVE  /\ Iso!Next \/ UNCHANGED IsoVars
         /\ Packet!PktNext \/ UNCHANGED PacketVars
         /\ Decoder!JNext \/ UNCHANGED DecoderVars
         /\ Ecu!PeriodicNext \/ UNCHANGED EcuVars
         /\ Talk!CommNext \/ UNCHANGED TalkVars
<1>1. CASE UNCHANGED vars
      BY <1>1 DEF vars
<1>2. CASE Next
      BY <1>2 DEF Next, IsoStep, PacketStep, TransportStep, DecoderStep, PeriodicStep, CommStep, Others
<1> QED BY <1>1, <1>2

-----------------------------------------------------------------------------
(* Comm: every frame that is due is in a list of that call or a later one, or is *)
(* the one the packet thread is about to append.  A call listens only when it has made  *)
(* its list.                                                                      *)
Listed(i, n) == \E k \in DOMAIN buffers : k >= i /\ n \in Talk!Range(buffers[k])
InHand(n) == handling.pc = "append" /\ handling.n = n

Opening == listener.pc \in {"renew", "listen"}

ListenCall == [pc : {"idle", "renew", "listen", "check", "clear", "wait", "stop"},
               id : CommIds \cup {Talk!NotListening}]

CommInv ==
  /\ buffers \in Seq(Seq(Nat)) /\ Len(buffers) > 0 /\ seen \in Nat
  /\ due \in Seq(SUBSET Nat) /\ Len(due) = Len(buffers) + (IF listener.pc = "renew" THEN 1 ELSE 0)
  /\ listener \in ListenCall
  /\ (Opening \/ listener.pc = "idle" => listening = Talk!NotListening)
  /\ handling \in [n : Nat, pc : {"idle", "append", "set"}]
  /\ \A i \in DOMAIN due : \A n \in due[i] : Listed(i, n) \/ (InHand(n) /\ i <= Len(buffers))

LEMMA CommInitially == Init => CommInv
<1> SUFFICES ASSUME Init PROVE CommInv
    OBVIOUS
<1>1. /\ buffers = <<<<>>>> /\ due = <<{}>> /\ seen = 0
      /\ handling = [n |-> 0, pc |-> "idle"] /\ listening = Talk!NotListening
      /\ listener = [pc |-> "idle", id |-> Talk!NotListening]
      BY DEF Init, Talk!CommInit, Talk!NoFrame
<1>2. buffers \in Seq(Seq(Nat)) /\ Len(buffers) = 1 /\ due \in Seq(SUBSET Nat) /\ Len(due) = 1
      BY <1>1
<1>3. \A i \in DOMAIN due : due[i] = {}
      BY <1>1
<1> QED BY <1>1, <1>2, <1>3 DEF CommInv, ListenCall

(* A list that is longer still has what it had. *)
LEMMA StillListed ==
  ASSUME CommInv, buffers' \in Seq(Seq(Nat)), Len(buffers') >= Len(buffers),
         \A k \in DOMAIN buffers : \A n \in Nat :
           n \in Talk!Range(buffers[k]) => n \in Talk!Range(buffers'[k])
  PROVE  \A i \in DOMAIN due : \A n \in Nat : Listed(i, n) => Listed(i, n)'
<1>1. \A k \in DOMAIN buffers : k \in DOMAIN buffers'
      BY DEF CommInv
<1> QED BY <1>1 DEF Listed

LEMMA CommKept ==
  ASSUME CommInv, [Next]_vars PROVE CommInv'
<1>0. Talk!After("renew") = "listen" /\ Talk!After("listen") = "check" /\ Talk!Lines[1] = "renew"
      BY DEF Talk!After, Talk!Lines
<1>1. ASSUME UNCHANGED <<buffers, due, handling, seen>>, listener.pc # "renew", listener'.pc # "renew",
             listener' \in ListenCall,
             listener'.pc \in {"listen", "idle"} => listening' = Talk!NotListening
      PROVE  CommInv'
      BY <1>1 DEF CommInv, Listed, InHand, Opening
<1>2. ASSUME NEW id \in CommIds, Talk!Listen(id) PROVE CommInv'
  <2>1. /\ due' = Append(due, {}) /\ listener.pc = "idle" /\ listener' = [pc |-> "renew", id |-> id]
        /\ UNCHANGED <<buffers, handling, seen, listening>>
        BY <1>0, <1>2 DEF Talk!Listen
  <2>2. /\ due' \in Seq(SUBSET Nat) /\ Len(due') = Len(due) + 1
        /\ \A k \in DOMAIN due' : (k \in DOMAIN due /\ due'[k] = due[k]) \/ due'[k] = {}
        BY <2>1 DEF CommInv
  <2>3. \A i \in DOMAIN due' : \A n \in due'[i] : Listed(i, n)' \/ (InHand(n)' /\ i <= Len(buffers'))
        BY <2>1, <2>2 DEF CommInv, Listed, InHand
  <2> QED BY <2>1, <2>2, <2>3 DEF CommInv, Opening, ListenCall
<1>8. ASSUME Talk!NewList PROVE CommInv'
  <2>0. listener.pc = "renew" /\ listener' = [listener EXCEPT !.pc = "listen"]
        BY <1>0, <1>8 DEF Talk!NewList, Talk!Step
  <2>1. /\ buffers' = Append(buffers, <<>>) /\ listener'.pc = "listen" /\ listener' \in ListenCall
        /\ UNCHANGED <<due, handling, seen, listening>>
        BY <1>8, <2>0 DEF Talk!NewList, CommInv, ListenCall
  <2>2. /\ buffers' \in Seq(Seq(Nat)) /\ Len(buffers') = Len(buffers) + 1
        /\ \A k \in DOMAIN buffers : buffers'[k] = buffers[k]
        BY <2>1 DEF CommInv
  <2>5. /\ Len(buffers') >= Len(buffers)
        /\ \A k \in DOMAIN buffers : \A n \in Nat :
             n \in Talk!Range(buffers[k]) => n \in Talk!Range(buffers'[k])
        BY <2>2 DEF CommInv
  <2>3. \A i \in DOMAIN due : \A n \in Nat : Listed(i, n) => Listed(i, n)'
        BY <2>2, <2>5, StillListed
  <2>4. \A i \in DOMAIN due' : \A n \in due'[i] : Listed(i, n)' \/ (InHand(n)' /\ i <= Len(buffers'))
        BY <2>1, <2>2, <2>3 DEF CommInv, InHand
  <2> QED BY <2>0, <2>1, <2>2, <2>4 DEF CommInv, Opening
<1>3. ASSUME NEW id \in CommIds, Talk!FrameComes(id) PROVE CommInv'
  <2>1. /\ handling = [n |-> 0, pc |-> "idle"] /\ seen' = seen + 1 /\ UNCHANGED buffers
        /\ UNCHANGED <<listener, listening>>
        /\ \/ /\ handling' = [n |-> seen + 1, pc |-> "append"] /\ listening = id
              /\ due' = [due EXCEPT ![Len(due)] = @ \cup {seen + 1}]
           \/ UNCHANGED <<handling, due>>
        BY <1>3 DEF Talk!FrameComes, Talk!NoFrame
  <2>2. CASE UNCHANGED <<handling, due>>
        BY <2>1, <2>2 DEF CommInv, Listed, InHand, Opening
  <2>3. CASE /\ listening = id /\ handling' = [n |-> seen + 1, pc |-> "append"]
             /\ due' = [due EXCEPT ![Len(due)] = @ \cup {seen + 1}]
    <3>1. /\ due' \in Seq(SUBSET Nat) /\ Len(due') = Len(due) /\ DOMAIN due' = DOMAIN due
          /\ \A i \in DOMAIN due : due'[i] \subseteq due[i] \cup {seen + 1}
          BY <2>3 DEF CommInv
    <3>0. Len(due) = Len(buffers)
      <4>1. listening # Talk!NotListening
            BY <2>3, CommAssumption DEF CommAssumption
      <4> QED BY <4>1 DEF CommInv, Opening
    <3>2. \A i \in DOMAIN due : \A n \in due[i] : Listed(i, n)'
          BY <2>1 DEF CommInv, InHand, Listed
    <3>3. \A n : n = seen + 1 => InHand(n)'
          BY <2>3 DEF InHand
    <3>4. handling' \in [n : Nat, pc : {"idle", "append", "set"}] /\ seen' \in Nat
          BY <2>1, <2>3 DEF CommInv
    <3>5. \A i \in DOMAIN due' : \A n \in due'[i] : Listed(i, n)' \/ (InHand(n)' /\ i <= Len(buffers'))
      <4> SUFFICES ASSUME NEW i \in DOMAIN due', NEW n \in due'[i]
                   PROVE  Listed(i, n)' \/ (InHand(n)' /\ i <= Len(buffers'))
          OBVIOUS
      <4>1. i \in DOMAIN due /\ (n \in due[i] \/ n = seen + 1) /\ i <= Len(buffers')
            BY <2>1, <3>0, <3>1 DEF CommInv
      <4> QED BY <4>1, <3>2, <3>3
    <3> QED BY <2>1, <3>1, <3>4, <3>5 DEF CommInv, Opening
  <2> QED BY <2>1, <2>2, <2>3, CommAssumption
<1>4. ASSUME Talk!AppendFrame PROVE CommInv'
  <2> DEFINE last == Len(buffers)
             new == Append(buffers[last], handling.n)
  <2>1. /\ handling.pc = "append" /\ handling' = [handling EXCEPT !.pc = "set"]
        /\ buffers' = [buffers EXCEPT ![last] = new]
        /\ UNCHANGED <<due, seen, listener, listening>>
        BY <1>4 DEF Talk!AppendFrame
  <2>2. /\ last \in DOMAIN buffers /\ buffers[last] \in Seq(Nat) /\ handling.n \in Nat
        BY DEF CommInv
  <2>3. /\ new \in Seq(Nat) /\ handling.n \in Talk!Range(new)
        /\ \A n \in Nat : n \in Talk!Range(buffers[last]) => n \in Talk!Range(new)
    <3>1. /\ new \in Seq(Nat) /\ Len(new) = Len(buffers[last]) + 1
          /\ new[Len(new)] = handling.n /\ Len(new) \in DOMAIN new
          /\ \A j \in DOMAIN buffers[last] : j \in DOMAIN new /\ new[j] = buffers[last][j]
          BY <2>2
    <3> HIDE DEF new, last
    <3> QED BY <3>1 DEF Talk!Range
  <2> HIDE DEF new
  <2>4. /\ buffers' \in Seq(Seq(Nat)) /\ Len(buffers') = Len(buffers)
        /\ DOMAIN buffers' = DOMAIN buffers /\ buffers'[last] = new
        /\ \A k \in DOMAIN buffers \ {last} : buffers'[k] = buffers[k]
        BY <2>1, <2>2, <2>3 DEF CommInv
  <2>5. \A i \in DOMAIN due : \A n \in Nat : Listed(i, n) => Listed(i, n)'
    <3>1. Len(buffers') >= Len(buffers)
          BY <2>4 DEF CommInv
    <3>2. \A k \in DOMAIN buffers : \A n \in Nat :
            n \in Talk!Range(buffers[k]) => n \in Talk!Range(buffers'[k])
      <4> HIDE DEF last
      <4> TAKE k \in DOMAIN buffers
      <4>1. CASE k = last
            BY <2>3, <2>4, <4>1
      <4>2. CASE k # last
            BY <2>4, <4>2
      <4> QED BY <4>1, <4>2
    <3> QED BY <2>4, <3>1, <3>2, StillListed
  <2>6. \A i \in DOMAIN due : \A n : n = handling.n /\ i <= last => Listed(i, n)'
    <3>1. last \in DOMAIN buffers' /\ handling.n \in Talk!Range(buffers'[last])
          BY <2>2, <2>3, <2>4
    <3> HIDE DEF last
    <3> SUFFICES ASSUME NEW i \in DOMAIN due, NEW n, n = handling.n, i <= last PROVE Listed(i, n)'
        OBVIOUS
    <3>2. i <= last /\ n \in Talk!Range(buffers'[last])
          BY <3>1
    <3> QED BY <3>1, <3>2 DEF Listed
  <2>7. \A i \in DOMAIN due' : \A n \in due'[i] : Listed(i, n)'
        BY <2>1, <2>5, <2>6 DEF CommInv, InHand
  <2>8. handling' \in [n : Nat, pc : {"idle", "append", "set"}]
        BY <2>1 DEF CommInv
  <2> QED BY <2>1, <2>4, <2>7, <2>8 DEF CommInv, Opening
<1>5. ASSUME Talk!SetFlag PROVE CommInv'
  <2>1. /\ handling.pc = "set" /\ handling' = [n |-> 0, pc |-> "idle"]
        /\ UNCHANGED <<buffers, due, seen, listener, listening>>
        BY <1>5 DEF Talk!SetFlag, Talk!NoFrame
  <2> QED BY <2>1 DEF CommInv, Listed, InHand, Opening
<1>6. CASE UNCHANGED TalkVars
      BY <1>6 DEF TalkVars, CommInv, Listed, InHand, Opening
<1>7. ASSUME \/ Talk!SetListen \/ Talk!CheckCount \/ Talk!ClearFlag \/ Talk!Woken
             \/ Talk!TimedOut \/ Talk!StopListening
      PROVE  CommInv'
  <2>1. UNCHANGED <<buffers, due, handling, seen>> /\ listener.pc \notin {"idle", "renew"}
        BY <1>7 DEF Talk!SetListen, Talk!CheckCount, Talk!ClearFlag, Talk!Woken, Talk!TimedOut, Talk!StopListening
  <2>2. /\ \/ listener'.pc \in {"check", "clear", "wait", "stop"}
           \/ listener'.pc = "idle" /\ listening' = Talk!NotListening
        /\ listener' \in ListenCall
        BY <1>0, <1>7 DEF Talk!SetListen, Talk!CheckCount, Talk!ClearFlag, Talk!Woken, Talk!TimedOut,
                          Talk!StopListening, Talk!Step, CommInv, ListenCall
  <2> QED BY <1>1, <2>1, <2>2
<1> QED BY <1>2, <1>3, <1>4, <1>5, <1>6, <1>7, <1>8, PartSteps DEF Talk!CommNext

(* A frame that is found wanted by a call of listen() is in its list, or in that of a call   *)
(* that had begun by the time it was appended, never in an earlier one: listen() makes its  *)
(* list before it listens (Comm.effect, Comm.listen).                                    *)
THEOREM NothingMissedHolds == Spec => []NothingMissed
<1>1. CommInv => NothingMissed
      BY DEF CommInv, NothingMissed, Talk!NothingMissed, Talk!NoFrame, Listed, InHand
<1> QED BY <1>1, CommInitially, CommKept, PTL DEF Spec
-----------------------------------------------------------------------------
(* Periodic, when only one thread of the ECU sets frames: the last event about an       *)
(* identifier on its way, or else its task, has the data of the last call, unless the task  *)
(* is over or was not started.                                                         *)
OneThread == \A t, u \in EcuThreads : t = u

FrameDatum == FrameData \cup {Ecu!NoData}
About(e, id) == e.id \in {id, Ecu!NoData}
InCall(id) == \E t \in EcuThreads : calling[t].pc = "store" /\ calling[t].id = id

(* d is what the last call set, which may have sent its event and not returned yet.     *)
LastSet(id, d) ==
  IF InCall(id) THEN \E t \in EcuThreads : calling[t].id = id /\ d = calling[t].data
                ELSE d = asked[id].data

TaskRecord == [data : FrameDatum, timed : BOOLEAN, over : BOOLEAN]

PeriodicTypes ==
  /\ calling \in [EcuThreads -> [id : FrameIds \cup {Ecu!NoData}, data : FrameDatum,
                                 timed : BOOLEAN, pc : {"idle", "store"}]]
  /\ taskEvents \in Seq([id : FrameIds \cup {Ecu!NoData}, data : FrameDatum, timed : BOOLEAN])
  /\ tasks \in [FrameIds -> TaskRecord]
  /\ lastData \in [FrameIds -> FrameDatum]
  /\ asked \in [FrameIds -> [data : FrameDatum, timed : BOOLEAN]]

Excused(id) == id \in unstarted \/ Ecu!Over(id)

(* None is stored for what was not started; whatever else is in the table sends something. *)
Kinds ==
  \A id \in FrameIds :
    /\ tasks[id] = Ecu!Nothing => id \in unstarted
    /\ tasks[id].data = Ecu!NoData => tasks[id] \in {Ecu!NoTask, Ecu!Nothing}

(* The last event about id has the data of the last call; if there is none, the task. *)
Agrees(id) ==
  /\ \A i \in DOMAIN taskEvents :
       /\ About(taskEvents[i], id)
       /\ \A j \in DOMAIN taskEvents : j > i => ~About(taskEvents[j], id)
       => LastSet(id, taskEvents[i].data)
  /\ (\A i \in DOMAIN taskEvents : ~About(taskEvents[i], id)) => Excused(id) \/ LastSet(id, tasks[id].data)

PeriodicInv ==
  /\ PeriodicTypes /\ Kinds
  /\ \A id \in FrameIds : lastData[id] = asked[id].data
  /\ \A t \in EcuThreads : calling[t] = Ecu!NoCall \/ (calling[t].pc = "store" /\ calling[t].id \in FrameIds)
  /\ \A i \in DOMAIN taskEvents : taskEvents[i].id = Ecu!NoData => taskEvents[i].data = Ecu!NoData
  /\ \A id \in FrameIds : Agrees(id)

LEMMA PeriodicInitially == Init => PeriodicInv
<1> SUFFICES ASSUME Init PROVE PeriodicInv
    OBVIOUS
<1>1. /\ lastData = [i \in FrameIds |-> 0] /\ taskEvents = <<>>
      /\ calling = [t \in EcuThreads |-> [id |-> 0, data |-> 0, timed |-> FALSE, pc |-> "idle"]]
      /\ tasks = [i \in FrameIds |-> [data |-> 0, timed |-> FALSE, over |-> FALSE]]
      /\ asked = [i \in FrameIds |-> [data |-> 0, timed |-> FALSE]]
      BY DEF Init, Ecu!PeriodicInit, Ecu!NoCall, Ecu!NoTask, Ecu!NotAsked, Ecu!NoData
<1>2. PeriodicTypes
      BY <1>1 DEF PeriodicTypes, TaskRecord, FrameDatum, Ecu!NoData
<1>5. Kinds
      BY <1>1 DEF Kinds, Ecu!NoTask, Ecu!Nothing, Ecu!NoData
<1>3. \A id \in FrameIds : ~InCall(id)
      BY <1>1 DEF InCall
<1>4. \A id \in FrameIds : Agrees(id)
      BY <1>1, <1>3 DEF Agrees, LastSet
<1> QED BY <1>1, <1>2, <1>4, <1>5 DEF PeriodicInv, Ecu!NoCall, Ecu!NoData

LEMMA SameTasks ==
  ASSUME UNCHANGED <<tasks, unstarted>>
  PROVE  /\ Kinds => Kinds'
         /\ \A id \in FrameIds : (Excused(id) => Excused(id)') /\ tasks'[id].data = tasks[id].data
BY DEF Kinds, Excused, Ecu!Over

(* An identifier that a step leaves alone, *)
LEMMA AgreesStill ==
  ASSUME NEW id \in FrameIds, Agrees(id), taskEvents' = taskEvents,
         Excused(id) => Excused(id)',
         Excused(id)' \/ tasks'[id].data = tasks[id].data, \A d : LastSet(id, d) => LastSet(id, d)'
  PROVE  Agrees(id)'
BY DEF Agrees, About, Ecu!NoData

(* one that the new event is not about, *)
LEMMA AgreesBeside ==
  ASSUME NEW id \in FrameIds, NEW e, PeriodicTypes, Agrees(id), taskEvents' = Append(taskEvents, e),
         ~About(e, id), UNCHANGED <<tasks, unstarted>>, \A d : LastSet(id, d) => LastSet(id, d)'
  PROVE  Agrees(id)'
<1>1. /\ DOMAIN taskEvents = 1..Len(taskEvents) /\ Len(taskEvents) \in Nat
      /\ DOMAIN taskEvents' = 1..(Len(taskEvents) + 1)
      /\ \A i \in DOMAIN taskEvents : taskEvents'[i] = taskEvents[i]
      /\ taskEvents'[Len(taskEvents) + 1] = e
      BY DEF PeriodicTypes
<1>2. ASSUME NEW i \in DOMAIN taskEvents', About(taskEvents'[i], id),
             \A j \in DOMAIN taskEvents' : j > i => ~About(taskEvents'[j], id)
      PROVE  LastSet(id, taskEvents[i].data)'
  <2>1. i \in DOMAIN taskEvents /\ taskEvents'[i] = taskEvents[i]
        BY <1>1, <1>2 DEF About
  <2>2. LastSet(id, taskEvents[i].data)
        BY <1>1, <1>2, <2>1 DEF Agrees
  <2> QED BY <2>1, <2>2
<1>3. ASSUME \A i \in DOMAIN taskEvents' : ~About(taskEvents'[i], id)
      PROVE  Excused(id)' \/ LastSet(id, tasks[id].data)'
  <2>1. Excused(id) \/ LastSet(id, tasks[id].data)
        BY <1>1, <1>3 DEF Agrees
  <2> QED BY <2>1 DEF Excused, Ecu!Over
<1> QED BY <1>2, <1>3 DEF Agrees, About, Ecu!NoData

(* one that it is about, *)
LEMMA AgreesAnew ==
  ASSUME NEW id \in FrameIds, NEW e, PeriodicTypes, taskEvents' = Append(taskEvents, e),
         About(e, id), LastSet(id, e.data)'
  PROVE  Agrees(id)'
<1>1. /\ DOMAIN taskEvents' = 1..(Len(taskEvents) + 1) /\ Len(taskEvents) \in Nat
      /\ taskEvents'[Len(taskEvents) + 1] = e
      BY DEF PeriodicTypes
<1>2. \A i \in DOMAIN taskEvents' : i = Len(taskEvents) + 1 \/ Len(taskEvents) + 1 > i
      BY <1>1
<1> QED BY <1>1, <1>2 DEF Agrees, About, Ecu!NoData

LEMMA Redone ==
  ASSUME NEW r \in TaskRecord, NEW d \in FrameDatum
  PROVE  [r EXCEPT !.data = d] \in TaskRecord /\ [r EXCEPT !.data = d].data = d
BY DEF TaskRecord

LEMMA OverAgain == [Ecu!Nothing EXCEPT !.over = TRUE] = Ecu!Nothing
<1>1. PICK r : r = Ecu!Nothing
      OBVIOUS
<1>2. DOMAIN r = {"data", "timed", "over"} /\ r.over = TRUE /\ r = [k \in DOMAIN r |-> r[k]]
      BY <1>1 DEF Ecu!Nothing
<1>3. [r EXCEPT !.over = TRUE] = [k \in DOMAIN r |-> IF k = "over" THEN TRUE ELSE r[k]]
      BY <1>2
<1> QED BY <1>1, <1>2, <1>3

(* What the interface does with an event. *)
LEMMA TasksHandled ==
  ASSUME PeriodicTypes, Kinds, Ecu!HandlePeriodic, NEW e, e = Head(taskEvents), e.data \in FrameDatum,
         e.timed \in BOOLEAN, e.id \in FrameIds \cup {Ecu!NoData},
         e.id = Ecu!NoData => e.data = Ecu!NoData
  PROVE  /\ tasks' \in [FrameIds -> TaskRecord] /\ Kinds'
         /\ \A id \in FrameIds :
              IF About(e, id) THEN Excused(id)' \/ tasks'[id].data = e.data
              ELSE tasks'[id] = tasks[id] /\ (Excused(id) => Excused(id)')
<1> USE DEF PeriodicTypes
<1>0. Ecu!NoTask \in TaskRecord /\ Ecu!Nothing \in TaskRecord /\ Ecu!NoTask # Ecu!Nothing
      BY DEF Ecu!NoTask, Ecu!Nothing, TaskRecord, FrameDatum
<1>1. CASE e.id = Ecu!NoData /\ Ecu!StopAll
  <2>1. \A id \in FrameIds : tasks'[id] = Ecu!NoTask /\ tasks'[id].data = e.data
        BY <1>1 DEF Ecu!StopAll, Ecu!NoTask
  <2> QED BY <1>0, <1>1, <2>1 DEF Ecu!StopAll, Kinds, About
<1>2. CASE e.id # Ecu!NoData /\ e.data = Ecu!NoData /\ Ecu!StopTask(e.id)
  <2>0. e.id \in FrameIds /\ UNCHANGED unstarted
        BY <1>2 DEF Ecu!StopTask
  <2>1. CASE tasks[e.id] = Ecu!Nothing /\ UNCHANGED tasks
        BY <1>2, <2>0, <2>1 DEF Kinds, About, Excused, Ecu!Over, Ecu!Nothing
  <2>2. CASE tasks' = [tasks EXCEPT ![e.id] = Ecu!NoTask]
    <3>1. /\ tasks'[e.id] = Ecu!NoTask /\ tasks'[e.id].data = e.data
          /\ \A id \in FrameIds \ {e.id} : tasks'[id] = tasks[id]
          BY <1>2, <2>0, <2>2 DEF Ecu!NoTask
    <3> QED BY <1>0, <1>2, <2>0, <2>2, <3>1 DEF Kinds, About, Excused, Ecu!Over
  <2> QED BY <1>2, <2>1, <2>2 DEF Ecu!StopTask
<1>3. CASE e.id # Ecu!NoData /\ e.data # Ecu!NoData /\ Ecu!ModifyTask(e.id, e)
  <2>0. e.id \in FrameIds /\ UNCHANGED unstarted
        BY <1>3 DEF Ecu!ModifyTask
  <2>1. CASE tasks[e.id] = Ecu!Nothing /\ UNCHANGED tasks
        BY <1>3, <2>0, <2>1 DEF Kinds, About, Excused, Ecu!Over
  <2>2. CASE tasks' = [tasks EXCEPT ![e.id].data = e.data]
    <3>0. tasks[e.id] \in TaskRecord
          BY <2>0
    <3>1. PICK new \in TaskRecord : new = [tasks[e.id] EXCEPT !.data = e.data] /\ new.data = e.data
          BY <3>0, Redone
    <3>2. tasks' = [tasks EXCEPT ![e.id] = new]
          BY <2>0, <2>2, <3>1
    <3>3. /\ tasks'[e.id] = new /\ tasks'[e.id].data = e.data
          /\ \A id \in FrameIds \ {e.id} : tasks'[id] = tasks[id]
          BY <2>0, <3>1, <3>2
    <3>4. new \notin {Ecu!NoTask, Ecu!Nothing}
          BY <1>3, <3>1 DEF Ecu!NoTask, Ecu!Nothing
    <3> QED BY <1>3, <2>0, <3>1, <3>2, <3>3, <3>4 DEF Kinds, About, Excused, Ecu!Over
  <2> QED BY <1>3, <2>1, <2>2 DEF Ecu!ModifyTask
<1>4. CASE e.id # Ecu!NoData /\ e.data # Ecu!NoData /\ Ecu!StartTask(e.id, e)
  <2>0. e.id \in FrameIds
        BY <1>4
  <2>1. ASSUME NEW new \in TaskRecord, tasks' = [tasks EXCEPT ![e.id] = new],
               new = Ecu!Nothing => e.id \in unstarted', new.data = Ecu!NoData => new = Ecu!Nothing,
               unstarted \subseteq unstarted' \cup {e.id}, e.id \in unstarted' \/ new.data = e.data
        PROVE  /\ tasks' \in [FrameIds -> TaskRecord] /\ Kinds'
               /\ \A id \in FrameIds :
                    IF About(e, id) THEN Excused(id)' \/ tasks'[id].data = e.data
                    ELSE tasks'[id] = tasks[id] /\ (Excused(id) => Excused(id)')
    <3>1. tasks'[e.id] = new /\ \A id \in FrameIds \ {e.id} : tasks'[id] = tasks[id]
          BY <2>0, <2>1
    <3> QED BY <1>4, <2>0, <2>1, <3>1 DEF Kinds, About, Excused, Ecu!Over
  <2>2. CASE /\ tasks' = [tasks EXCEPT ![e.id] = [data |-> e.data, timed |-> e.timed, over |-> FALSE]]
             /\ unstarted' = unstarted \ {e.id}
    <3>1. PICK new \in TaskRecord : new = [data |-> e.data, timed |-> e.timed, over |-> FALSE]
          BY DEF TaskRecord
    <3>2. new.data = e.data /\ new # Ecu!Nothing /\ new.data # Ecu!NoData
          BY <1>4, <3>1 DEF Ecu!Nothing
    <3> QED BY <2>1, <2>2, <3>1, <3>2
  <2>3. CASE UNCHANGED tasks /\ unstarted' = unstarted \cup {e.id}
        BY <1>4, <2>0, <2>3 DEF Kinds, About, Excused, Ecu!Over
  <2>4. CASE tasks' = [tasks EXCEPT ![e.id] = Ecu!Nothing] /\ unstarted' = unstarted \cup {e.id}
        BY <1>0, <2>1, <2>4
  <2> QED BY <1>4, <2>2, <2>3, <2>4 DEF Ecu!StartTask
<1> QED BY <1>1, <1>2, <1>3, <1>4 DEF Ecu!HandlePeriodic

(* one whose task ends, perhaps, *)
Aged(i) ==
  tasks'[i] = tasks[i] \/ (tasks[i] # Ecu!NoTask /\ tasks'[i] = [tasks[i] EXCEPT !.over = TRUE])

LEMMA TasksAged ==
  ASSUME PeriodicInv, UNCHANGED <<lastData, calling, taskEvents, asked, unstarted>>,
         tasks' \in [FrameIds -> TaskRecord], \A i \in FrameIds : Aged(i)
  PROVE  PeriodicInv'
<1>1. \A i \in FrameIds : tasks[i] \in TaskRecord /\ tasks'[i].data = tasks[i].data
      BY DEF PeriodicInv, PeriodicTypes, TaskRecord, Aged
<1>2. \A i \in FrameIds : tasks'[i] = tasks[i] \/ (tasks'[i].over /\ tasks[i] # Ecu!NoTask)
      BY <1>1 DEF TaskRecord, Aged
<1>3. [Ecu!Nothing EXCEPT !.over = TRUE] = Ecu!Nothing /\ Ecu!Nothing.data = Ecu!NoData
      BY OverAgain DEF Ecu!Nothing
<1>4. ASSUME NEW i \in FrameIds, tasks[i].data = Ecu!NoData PROVE tasks'[i] = tasks[i]
  <2>1. tasks[i] \in {Ecu!NoTask, Ecu!Nothing}
        BY <1>4 DEF PeriodicInv, Kinds
  <2> QED BY <1>3, <2>1 DEF Aged
<1>5. Kinds'
      BY <1>1, <1>3, <1>4 DEF PeriodicInv, Kinds
<1>6. \A i \in FrameIds : Excused(i) => Excused(i)'
      BY <1>1, <1>2, <1>3, <1>4 DEF Excused, Ecu!Over
<1>7. \A i \in FrameIds : \A v : LastSet(i, v) => LastSet(i, v)'
      BY DEF LastSet, InCall
<1>8. \A i \in FrameIds : Agrees(i)'
      BY <1>1, <1>6, <1>7, AgreesStill DEF PeriodicInv
<1> QED BY <1>5, <1>8 DEF PeriodicInv, PeriodicTypes

(* and all, when the interface has handled the oldest event.                          *)
LEMMA AgreesHandled ==
  ASSUME PeriodicInv, Ecu!HandlePeriodic
  PROVE  PeriodicTypes' /\ Kinds' /\ \A id \in FrameIds : Agrees(id)'
<1>0. PICK e : e = Head(taskEvents)
      OBVIOUS
<1>1. /\ taskEvents # <<>> /\ taskEvents' = Tail(taskEvents)
      /\ UNCHANGED <<lastData, calling, asked>>
      BY DEF Ecu!HandlePeriodic
<1>2. /\ e = taskEvents[1] /\ Len(taskEvents) \in Nat \ {0}
      /\ e \in [id : FrameIds \cup {Ecu!NoData}, data : FrameDatum, timed : BOOLEAN]
      /\ DOMAIN taskEvents = 1..Len(taskEvents) /\ DOMAIN taskEvents' = 1..(Len(taskEvents) - 1)
      /\ \A i \in DOMAIN taskEvents' : taskEvents'[i] = taskEvents[i + 1]
      /\ taskEvents' \in Seq([id : FrameIds \cup {Ecu!NoData}, data : FrameDatum, timed : BOOLEAN])
  <2> DEFINE S == [id : FrameIds \cup {Ecu!NoData}, data : FrameDatum, timed : BOOLEAN]
  <2>1. taskEvents \in Seq(S)
        BY DEF PeriodicInv, PeriodicTypes
  <2> HIDE DEF S
  <2>2. /\ e = taskEvents[1] /\ e \in S /\ Len(taskEvents) \in Nat \ {0}
        /\ taskEvents' \in Seq(S) /\ Len(taskEvents') = Len(taskEvents) - 1
        /\ \A i \in 1..Len(taskEvents') : taskEvents'[i] = taskEvents[i + 1]
        BY <1>0, <1>1, <2>1
  <2>3. /\ DOMAIN taskEvents = 1..Len(taskEvents) /\ DOMAIN taskEvents' = 1..(Len(taskEvents) - 1)
        /\ \A i \in DOMAIN taskEvents' : taskEvents'[i] = taskEvents[i + 1]
        BY <2>1, <2>2
  <2> QED BY <2>2, <2>3, Zenon DEF S
<1>3. e.id = Ecu!NoData => e.data = Ecu!NoData
      BY <1>2 DEF PeriodicInv
<1>5. /\ tasks' \in [FrameIds -> TaskRecord] /\ Kinds'
      /\ \A id \in FrameIds :
           IF About(e, id) THEN Excused(id)' \/ tasks'[id].data = e.data
           ELSE tasks'[id] = tasks[id] /\ (Excused(id) => Excused(id)')
  <2>1. e.data \in FrameDatum /\ e.timed \in BOOLEAN /\ e.id \in FrameIds \cup {Ecu!NoData}
        BY <1>2
  <2> QED BY <1>0, <1>3, <2>1, TasksHandled DEF PeriodicInv
<1>a. PeriodicTypes'
      BY <1>1, <1>2, <1>5 DEF PeriodicInv, PeriodicTypes
<1> SUFFICES ASSUME NEW id \in FrameIds PROVE Agrees(id)'
    BY <1>a, <1>5
<1>b. IF About(e, id) THEN Excused(id)' \/ tasks'[id].data = e.data
      ELSE tasks'[id] = tasks[id] /\ (Excused(id) => Excused(id)')
      BY <1>5
<1>6. \A d : LastSet(id, d) = LastSet(id, d)'
      BY <1>1 DEF LastSet, InCall
<1>7. Agrees(id)
      BY DEF PeriodicInv
<1>8. ASSUME NEW i \in DOMAIN taskEvents', About(taskEvents'[i], id),
             \A j \in DOMAIN taskEvents' : j > i => ~About(taskEvents'[j], id)
      PROVE  LastSet(id, taskEvents[i].data)'
  <2>1. i + 1 \in DOMAIN taskEvents /\ About(taskEvents[i + 1], id)
        BY <1>2, <1>8
  <2>2. ASSUME NEW j \in DOMAIN taskEvents, j > i + 1 PROVE ~About(taskEvents[j], id)
    <3>1. j - 1 \in DOMAIN taskEvents' /\ j - 1 > i /\ taskEvents'[j - 1] = taskEvents[j]
          BY <1>2, <2>2
    <3> QED BY <1>8, <3>1
  <2>3. LastSet(id, taskEvents[i + 1].data)
        BY <1>7, <2>1, <2>2 DEF Agrees
  <2> QED BY <1>2, <1>6, <2>3
<1>9. ASSUME \A i \in DOMAIN taskEvents' : ~About(taskEvents'[i], id)
      PROVE  Excused(id)' \/ LastSet(id, tasks[id].data)'
  <2>1. ASSUME NEW j \in DOMAIN taskEvents, j > 1 PROVE ~About(taskEvents[j], id)
    <3>1. j - 1 \in DOMAIN taskEvents' /\ taskEvents'[j - 1] = taskEvents[j]
          BY <1>2, <2>1
    <3> QED BY <1>9, <3>1
  <2>2. CASE About(e, id)
    <3>1. 1 \in DOMAIN taskEvents /\ About(taskEvents[1], id)
          BY <1>2, <2>2
    <3>2. LastSet(id, taskEvents[1].data)
          BY <1>7, <2>1, <3>1 DEF Agrees
    <3> QED BY <1>2, <1>b, <1>6, <2>2, <3>2
  <2>3. CASE ~About(e, id)
    <3>1. \A j \in DOMAIN taskEvents : j = 1 \/ j > 1
          BY <1>2
    <3>2. \A j \in DOMAIN taskEvents : ~About(taskEvents[j], id)
          BY <1>2, <2>1, <2>3, <3>1
    <3>3. Excused(id) \/ LastSet(id, tasks[id].data)
          BY <1>7, <3>2 DEF Agrees
    <3> QED BY <1>b, <1>6, <2>3, <3>3
  <2> QED BY <2>2, <2>3
<1> QED BY <1>8, <1>9 DEF Agrees, About, Ecu!NoData

LEMMA PeriodicKept ==
  ASSUME OneThread, EcuAssumption, PeriodicInv, [Next]_vars
  PROVE  PeriodicInv'
<1> USE DEF FrameDatum
<1>1. ASSUME NEW t \in EcuThreads, NEW id \in FrameIds, NEW d \in FrameData, NEW timed \in BOOLEAN,
             Ecu!SetPeriodic(t, id, d, timed)
      PROVE  PeriodicInv'
  <2> DEFINE e == [id |-> id, data |-> d, timed |-> timed]
             c == [id |-> id, data |-> d, timed |-> timed, pc |-> "store"]
  <2>1. calling[t] = Ecu!NoCall /\ UNCHANGED <<lastData, tasks, unstarted>>
        BY <1>1 DEF Ecu!SetPeriodic
  <2>2. \A i \in FrameIds : ~InCall(i)
        BY <2>1 DEF InCall, Ecu!NoCall, OneThread
  <2>3. CASE /\ calling' = [calling EXCEPT ![t] = c] /\ taskEvents' = Append(taskEvents, e)
             /\ UNCHANGED asked
    <3>1. calling'[t] = c /\ \A u \in EcuThreads : u = t
          BY <2>3 DEF OneThread, PeriodicInv, PeriodicTypes
    <3>2. LastSet(id, d)'
          BY <3>1 DEF LastSet, InCall
    <3>3. \A i \in FrameIds \ {id} : ~InCall(i)'
          BY <3>1 DEF InCall
    <3>4. \A i \in FrameIds \ {id} : \A v : LastSet(i, v) => LastSet(i, v)'
          BY <2>2, <2>3, <3>3 DEF LastSet
    <3>5. \A i \in FrameIds \ {id} : ~About(e, i)
          BY DEF About, EcuAssumption
    <3>6. PeriodicTypes'
          BY <2>1, <2>3 DEF PeriodicInv, PeriodicTypes
    <3>7. \A i \in FrameIds : Agrees(i)'
      <4>1. Agrees(id)'
            BY <2>3, <3>2, AgreesAnew DEF PeriodicInv, About
      <4>2. ASSUME NEW i \in FrameIds \ {id} PROVE Agrees(i)'
            BY <2>1, <2>3, <3>4, <3>5, AgreesBeside DEF PeriodicInv
      <4> QED BY <4>1, <4>2
    <3>8. \A i \in DOMAIN taskEvents' : taskEvents'[i].id = Ecu!NoData => taskEvents'[i].data = Ecu!NoData
          BY <2>3 DEF PeriodicInv, PeriodicTypes, EcuAssumption
    <3>9. Kinds'
          BY <2>1, SameTasks DEF PeriodicInv
    <3> QED BY <2>1, <2>3, <3>1, <3>6, <3>7, <3>8, <3>9 DEF PeriodicInv
  <2>4. CASE /\ ~(timed \/ lastData[id] # d) /\ asked' = [asked EXCEPT ![id] = [data |-> d, timed |-> timed]]
             /\ UNCHANGED <<calling, taskEvents>>
    <3>1. \A i \in FrameIds : asked'[i].data = asked[i].data
          BY <2>4 DEF PeriodicInv, PeriodicTypes
    <3>2. \A i \in FrameIds : \A v : LastSet(i, v) => LastSet(i, v)'
          BY <2>4, <3>1 DEF LastSet, InCall
    <3>3. \A i \in FrameIds : Agrees(i)'
          BY <2>1, <2>4, <3>2, SameTasks, AgreesStill DEF PeriodicInv
    <3>4. PeriodicTypes'
          BY <2>1, <2>4 DEF PeriodicInv, PeriodicTypes
    <3>5. Kinds'
          BY <2>1, SameTasks DEF PeriodicInv
    <3> QED BY <2>1, <2>4, <3>1, <3>3, <3>4, <3>5 DEF PeriodicInv
  <2> QED BY <1>1, <2>3, <2>4 DEF Ecu!SetPeriodic, Ecu!Emit
<1>2. ASSUME NEW t \in EcuThreads, Ecu!ClearPeriodic(t) PROVE PeriodicInv'
  <2> DEFINE e == [id |-> Ecu!NoData, data |-> Ecu!NoData, timed |-> FALSE]
  <2>1. /\ calling[t] = Ecu!NoCall /\ UNCHANGED <<calling, tasks, unstarted>>
        /\ lastData' = [i \in FrameIds |-> Ecu!NoData]
        /\ asked' = [i \in FrameIds |-> [data |-> Ecu!NoData, timed |-> FALSE]]
        /\ taskEvents' = Append(taskEvents, e)
        BY <1>2 DEF Ecu!ClearPeriodic, Ecu!NotAsked, Ecu!Emit
  <2>2. \A i \in FrameIds : LastSet(i, Ecu!NoData)'
        BY <2>1 DEF LastSet, InCall, Ecu!NoCall, OneThread
  <2>3. \A i \in FrameIds : Agrees(i)'
        BY <2>1, <2>2, AgreesAnew DEF PeriodicInv, About
  <2>4. PeriodicTypes'
        BY <2>1 DEF PeriodicInv, PeriodicTypes
  <2>5. \A i \in DOMAIN taskEvents' : taskEvents'[i].id = Ecu!NoData => taskEvents'[i].data = Ecu!NoData
        BY <2>1 DEF PeriodicInv, PeriodicTypes
  <2>6. Kinds'
        BY <2>1, SameTasks DEF PeriodicInv
  <2> QED BY <2>1, <2>3, <2>4, <2>5, <2>6 DEF PeriodicInv
<1>3. ASSUME NEW t \in EcuThreads, Ecu!Store(t) PROVE PeriodicInv'
  <2>1. /\ calling[t].pc = "store" /\ calling' = [calling EXCEPT ![t] = Ecu!NoCall]
        /\ lastData' = [lastData EXCEPT ![calling[t].id] = calling[t].data]
        /\ asked' = [asked EXCEPT ![calling[t].id] = [data |-> calling[t].data, timed |-> calling[t].timed]]
        /\ UNCHANGED <<taskEvents, tasks, unstarted>>
        BY <1>3 DEF Ecu!Store
  <2>2. calling[t].id \in FrameIds /\ calling'[t] = Ecu!NoCall /\ \A u \in EcuThreads : u = t
        BY <2>1 DEF PeriodicInv, PeriodicTypes, OneThread, Ecu!NoCall
  <2>3. PeriodicTypes'
        BY <2>1, <2>2 DEF PeriodicInv, PeriodicTypes, Ecu!NoCall
  <2>4. \A i \in FrameIds : ~InCall(i)'
        BY <2>2 DEF InCall, Ecu!NoCall
  <2>5. \A i \in FrameIds : \A v : LastSet(i, v) => LastSet(i, v)'
        BY <2>1, <2>2, <2>4 DEF LastSet, InCall, PeriodicInv, PeriodicTypes
  <2>6. \A i \in FrameIds : Agrees(i)'
        BY <2>1, <2>5, SameTasks, AgreesStill DEF PeriodicInv
  <2>7. \A i \in FrameIds : lastData'[i] = asked'[i].data
        BY <2>1, <2>2 DEF PeriodicInv, PeriodicTypes
  <2>8. Kinds'
        BY <2>1, SameTasks DEF PeriodicInv
  <2> QED BY <2>1, <2>2, <2>3, <2>6, <2>7, <2>8 DEF PeriodicInv
<1>4. ASSUME Ecu!HandlePeriodic PROVE PeriodicInv'
  <2>1. /\ taskEvents # <<>> /\ taskEvents' = Tail(taskEvents) /\ UNCHANGED <<lastData, calling, asked>>
        BY <1>4 DEF Ecu!HandlePeriodic
  <2>2. \A i \in FrameIds : Agrees(i)'
        BY <1>4, AgreesHandled
  <2>3. PeriodicTypes' /\ Kinds'
        BY <1>4, AgreesHandled
  <2>4. \A i \in DOMAIN taskEvents' : taskEvents'[i].id = Ecu!NoData => taskEvents'[i].data = Ecu!NoData
        BY <2>1 DEF PeriodicInv, PeriodicTypes
  <2> QED BY <2>1, <2>2, <2>3, <2>4 DEF PeriodicInv
<1>5. ASSUME NEW id \in FrameIds, Ecu!TimeUp(id) PROVE PeriodicInv'
  <2>1. /\ tasks' = [tasks EXCEPT ![id].over = TRUE] /\ tasks[id].timed
        /\ UNCHANGED <<lastData, calling, taskEvents, asked, unstarted>>
        BY <1>5 DEF Ecu!TimeUp
  <2>2. tasks[id] # Ecu!NoTask /\ tasks \in [FrameIds -> TaskRecord]
        BY <2>1 DEF Ecu!NoTask, PeriodicInv, PeriodicTypes
  <2>3. PICK new \in TaskRecord : new = [tasks[id] EXCEPT !.over = TRUE]
        BY <2>2 DEF TaskRecord
  <2>4. tasks' = [tasks EXCEPT ![id] = new]
        BY <2>1, <2>2, <2>3
  <2>5. tasks' \in [FrameIds -> TaskRecord] /\ \A i \in FrameIds : Aged(i)
        BY <2>2, <2>3, <2>4 DEF Aged
  <2> QED BY <2>1, <2>5, TasksAged
<1>7. ASSUME Ecu!OpenBus \/ Ecu!CloseBus PROVE PeriodicInv'
  <2>1. UNCHANGED <<lastData, calling, taskEvents, asked, unstarted>> /\ tasks \in [FrameIds -> TaskRecord]
        BY <1>7 DEF Ecu!OpenBus, Ecu!CloseBus, PeriodicInv, PeriodicTypes
  <2>2. CASE UNCHANGED tasks
        BY <2>1, <2>2, TasksAged DEF Aged
  <2>3. CASE tasks' = [i \in FrameIds |-> IF tasks[i] = Ecu!NoTask THEN Ecu!NoTask
                                       ELSE [tasks[i] EXCEPT !.over = TRUE]]
    <3>1. \A i \in FrameIds : [tasks[i] EXCEPT !.over = TRUE] \in TaskRecord
          BY <2>1 DEF TaskRecord
    <3>2. tasks' \in [FrameIds -> TaskRecord] /\ \A i \in FrameIds : Aged(i)
          BY <2>1, <2>3, <3>1 DEF Aged
    <3> QED BY <2>1, <3>2, TasksAged
  <2> QED BY <1>7, <2>2, <2>3 DEF Ecu!OpenBus, Ecu!CloseBus
<1>6. ASSUME UNCHANGED EcuVars PROVE PeriodicInv'
      BY <1>6 DEF EcuVars, PeriodicInv, PeriodicTypes, Kinds, Excused, Ecu!Over, Agrees, About, LastSet, InCall, Ecu!NoCall, Ecu!NoData
<1> QED
  <2>1. CASE Ecu!PeriodicNext
        BY <1>1, <1>2, <1>3, <1>4, <1>5, <1>7, <2>1 DEF Ecu!PeriodicNext
  <2> QED BY <1>6, <2>1, PartSteps

(* When one thread sets frames, the interface sends, at rest, what was last set     *)
(* (ECU.set_periodic, CANInterface.handle_event), but for tasks that are over or were not   *)
(* started: the ECU, which sends only what has changed, never skips an event that is needed,  *)
(* the events keep their order, and a clear_periodic() makes good what was not started.    *)
THEOREM SendsWhatWasSetHolds ==
  ASSUME OneThread PROVE Spec => []SendsWhatWasSet
<1>1. PeriodicInv => SendsWhatWasSet
  <2> SUFFICES ASSUME PeriodicInv, Ecu!Settled, NEW id \in FrameIds
               PROVE  Excused(id) \/ tasks[id].data = asked[id].data
      BY DEF SendsWhatWasSet, Ecu!SendsWhatWasSet, Excused
  <2>1. ~InCall(id) /\ \A i \in DOMAIN taskEvents : FALSE
        BY DEF Ecu!Settled, Ecu!NoCall, InCall
  <2> QED BY <2>1 DEF PeriodicInv, Agrees, LastSet
<1> QED BY <1>1, PeriodicInitially, PeriodicKept, EcuAssumption, PTL DEF Spec

-----------------------------------------------------------------------------
(* IbpPacket, when each frame is sent once: the headers on the way to a receiver are      *)
(* of packets in the order in which they were sent, after that of its buffer and of       *)
(* those it has passed up.                                                            *)
After(x, m) == frames[x].id < m /\ \A i \in DOMAIN passed[x] : passed[x][i] < m
Header(f) == f.seq = 0

PacketTypes ==
  /\ packets \in Seq([by : PktThreads, len : Nat])
  /\ sending \in [PktThreads -> [id : Nat, n : Nat]]
  /\ wire \in [Packet!PktPairs -> Seq([id : Nat, seq : Nat, part : Nat])]
  /\ DOMAIN frames = Packet!PktPairs
  /\ passed \in [Packet!PktPairs -> Seq(Nat)]

BufferOK(x) ==
  /\ frames[x] = [id |-> frames[x].id, len |-> frames[x].len, slots |-> frames[x].slots]
  /\ \/ frames[x] = Packet!NoBuffer
     \/ frames[x].id \in Packet!SentBy(x[1]) /\ \A i \in DOMAIN passed[x] : passed[x][i] < frames[x].id

WireOK(x) ==
  /\ \A i \in DOMAIN wire[x] : wire[x][i].id \in Packet!SentBy(x[1])
  /\ \A i, j \in DOMAIN wire[x] :
       i < j /\ Header(wire[x][i]) /\ Header(wire[x][j]) => wire[x][i].id < wire[x][j].id
  /\ \A i \in DOMAIN wire[x] : Header(wire[x][i]) => After(x, wire[x][i].id)

PacketInv ==
  /\ PacketTypes
  /\ \A t \in PktThreads :
       \/ sending[t] = Packet!NotSending
       \/ sending[t].id \in DOMAIN packets /\ packets[sending[t].id].by = t /\ sending[t].n > 0
  /\ \A x \in Packet!PktPairs :
       /\ BufferOK(x) /\ WireOK(x)
       /\ \A i \in DOMAIN passed[x] : passed[x][i] \in DOMAIN packets

LEMMA PacketInitially == Init => PacketInv
<1> SUFFICES ASSUME Init PROVE PacketInv
    OBVIOUS
<1>1. /\ packets = <<>> /\ sending = [t \in PktThreads |-> [id |-> 0, n |-> 0]]
      /\ wire = [x \in Packet!PktPairs |-> <<>>]
      /\ frames = [x \in Packet!PktPairs |-> [id |-> 0, len |-> 0, slots |-> <<>>]]
      /\ passed = [x \in Packet!PktPairs |-> <<>>]
      BY DEF Init, Packet!PktInit, Packet!NotSending, Packet!NoBuffer
<1>2. PacketTypes
      BY <1>1 DEF PacketTypes
<1>3. \A x \in Packet!PktPairs : BufferOK(x)
      BY <1>1 DEF BufferOK, Packet!NoBuffer
<1>4. \A x \in Packet!PktPairs : wire[x] = <<>> /\ passed[x] = <<>>
      BY <1>1
<1>5. \A x \in Packet!PktPairs : WireOK(x)
      BY <1>4 DEF WireOK
<1>6. \A t \in PktThreads : sending[t] = Packet!NotSending
      BY <1>1 DEF Packet!NotSending
<1> QED BY <1>2, <1>3, <1>4, <1>5, <1>6 DEF PacketInv

(* A frame that is sent goes behind the others.                                       *)
LEMMA WireSent ==
  ASSUME PacketInv, NEW x \in Packet!PktPairs, NEW f \in [id : Nat \ {0}, seq : Nat, part : Nat],
         wire'[x] = wire[x] \/ wire'[x] = Append(wire[x], f),
         wire'[x] # wire[x] => f.id \in Packet!SentBy(x[1])',
         Header(f) => \A id \in DOMAIN packets : id < f.id,
         UNCHANGED <<frames, passed>>,
         \A id \in Packet!SentBy(x[1]) : id \in Packet!SentBy(x[1])'
  PROVE  WireOK(x)'
<1>1. /\ wire[x] \in Seq([id : Nat, seq : Nat, part : Nat]) /\ WireOK(x) /\ BufferOK(x)
      /\ packets \in Seq([by : PktThreads, len : Nat])
      /\ \A i \in DOMAIN passed[x] : passed[x][i] \in DOMAIN packets
      BY DEF PacketInv, PacketTypes
<1>2. CASE wire'[x] = wire[x]
      BY <1>1, <1>2 DEF WireOK, After, Header
<1>3. CASE wire'[x] # wire[x]
  <2> DEFINE n == Len(wire[x])
  <2>1. /\ n \in Nat /\ DOMAIN wire[x] = 1..n /\ DOMAIN wire'[x] = 1..(n + 1)
        /\ wire'[x][n + 1] = f /\ \A i \in 1..n : wire'[x][i] = wire[x][i]
        BY <1>1, <1>3
  <2> HIDE DEF n
  <2>2. \A i \in DOMAIN wire'[x] : i = n + 1 \/ (i \in DOMAIN wire[x] /\ wire'[x][i] = wire[x][i])
        BY <2>1
  <2>3. \A i \in DOMAIN wire[x] : wire[x][i].id \in DOMAIN packets
        BY <1>1 DEF WireOK, Packet!SentBy
  <2>4. Header(f) => After(x, f.id)'
    <3> SUFFICES ASSUME Header(f) PROVE After(x, f.id)
        BY DEF After
    <3>1. \A i \in DOMAIN passed[x] : passed[x][i] < f.id
          BY <1>1
    <3>2. frames[x].id < f.id
      <4>1. CASE frames[x] = Packet!NoBuffer
        BY <4>1 DEF Packet!NoBuffer
      <4> QED BY <1>1, <4>1 DEF BufferOK, Packet!SentBy
    <3> QED BY <3>1, <3>2 DEF After
  <2>5. \A i \in DOMAIN wire'[x] : wire'[x][i].id \in Packet!SentBy(x[1])'
        BY <1>1, <1>3, <2>1, <2>2 DEF WireOK
  <2>6. \A i, j \in DOMAIN wire'[x] :
          i < j /\ Header(wire'[x][i]) /\ Header(wire'[x][j]) => wire'[x][i].id < wire'[x][j].id
    <3> SUFFICES ASSUME NEW i \in DOMAIN wire'[x], NEW j \in DOMAIN wire'[x], i < j,
                        Header(wire'[x][i]), Header(wire'[x][j])
                 PROVE  wire'[x][i].id < wire'[x][j].id
        OBVIOUS
    <3>1. i \in DOMAIN wire[x] /\ wire'[x][i] = wire[x][i]
          BY <2>1, <2>2
    <3>2. CASE j = n + 1
          BY <2>1, <2>3, <3>1, <3>2
    <3>3. CASE j # n + 1
          BY <1>1, <2>2, <3>1, <3>3 DEF WireOK
    <3> QED BY <3>2, <3>3
  <2>7. \A i \in DOMAIN wire'[x] : Header(wire'[x][i]) => After(x, wire[x][i].id)'
    <3> SUFFICES ASSUME NEW i \in DOMAIN wire'[x], Header(wire'[x][i])
                 PROVE  After(x, wire[x][i].id)'
        OBVIOUS
    <3>1. CASE i = n + 1
          BY <2>1, <2>4, <3>1 DEF After
    <3>2. CASE i # n + 1
      <4>1. i \in DOMAIN wire[x] /\ wire'[x][i] = wire[x][i]
            BY <2>2, <3>2
      <4>2. After(x, wire[x][i].id)
            BY <1>1, <4>1 DEF WireOK
      <4> QED BY <4>1, <4>2 DEF After
    <3> QED BY <3>1, <3>2
  <2> QED BY <2>5, <2>6, <2>7 DEF WireOK, Header
<1> QED BY <1>2, <1>3

(* One that is taken was in front of the others.                                      *)
LEMMA WireTaken ==
  ASSUME PacketInv, NEW x \in Packet!PktPairs, wire[x] # <<>>, wire'[x] = Tail(wire[x]),
         UNCHANGED packets,
         \A i \in DOMAIN wire'[x] : Header(wire'[x][i]) => After(x, wire[x][i].id)'
  PROVE  WireOK(x)'
<1>1. /\ wire'[x] \in Seq([id : Nat, seq : Nat, part : Nat])
      /\ \A i \in DOMAIN wire'[x] :
           i \in Nat /\ i + 1 \in DOMAIN wire[x] /\ wire'[x][i] = wire[x][i + 1]
  <2> DEFINE S == [id : Nat, seq : Nat, part : Nat]
  <2>1. wire[x] \in Seq(S)
        BY DEF PacketInv, PacketTypes
  <2> HIDE DEF S
  <2>2. /\ wire'[x] \in Seq(S) /\ Len(wire'[x]) = Len(wire[x]) - 1 /\ Len(wire[x]) \in Nat
        /\ \A i \in 1..Len(wire'[x]) : wire'[x][i] = wire[x][i + 1]
        BY <2>1
  <2>3. /\ wire'[x] \in Seq(S)
        /\ \A i \in DOMAIN wire'[x] :
             i \in Nat /\ i + 1 \in DOMAIN wire[x] /\ wire'[x][i] = wire[x][i + 1]
        BY <2>1, <2>2
  <2> QED BY <2>3 DEF S
<1>2. WireOK(x)
      BY DEF PacketInv
<1>3. \A i \in DOMAIN wire'[x] : wire'[x][i].id \in Packet!SentBy(x[1])'
      BY <1>1, <1>2 DEF WireOK, Packet!SentBy
<1>4. \A i, j \in DOMAIN wire'[x] :
        i < j /\ Header(wire'[x][i]) /\ Header(wire'[x][j]) => wire'[x][i].id < wire'[x][j].id
  <2> SUFFICES ASSUME NEW i \in DOMAIN wire'[x], NEW j \in DOMAIN wire'[x], i < j,
                      Header(wire'[x][i]), Header(wire'[x][j])
               PROVE  wire'[x][i].id < wire'[x][j].id
      OBVIOUS
  <2>1. i + 1 < j + 1
        BY <1>1
  <2> QED BY <1>1, <1>2, <2>1 DEF WireOK
<1> QED BY <1>3, <1>4 DEF WireOK, Header

(* A receiver on whose pair nothing happens but that a frame may be sent.              *)
LEMMA PairKept ==
  ASSUME PacketInv, NEW x \in Packet!PktPairs, NEW f \in [id : Nat \ {0}, seq : Nat, part : Nat],
         wire'[x] = wire[x] \/ wire'[x] = Append(wire[x], f),
         wire'[x] # wire[x] => f.id \in Packet!SentBy(x[1])',
         Header(f) => \A id \in DOMAIN packets : id < f.id,
         UNCHANGED <<frames, passed>>,
         \A id \in Packet!SentBy(x[1]) : id \in Packet!SentBy(x[1])',
         \A id \in DOMAIN packets : id \in DOMAIN packets'
  PROVE  /\ BufferOK(x)' /\ WireOK(x)'
         /\ \A i \in DOMAIN passed'[x] : passed'[x][i] \in DOMAIN packets'
<1>1. BufferOK(x)'
      BY DEF PacketInv, BufferOK
<1>2. WireOK(x)'
      BY WireSent
<1> QED BY <1>1, <1>2 DEF PacketInv

(* The frame that ReceiveFrame(x) takes, and the buffer it leaves.                       *)
LEMMA FrameTaken ==
  ASSUME PacketInv, NEW x \in Packet!PktPairs, wire[x] # <<>>,
         NEW f, f = Head(wire[x]), NEW kept, kept = Packet!Buffered(frames[x], f)
  PROVE  /\ kept = [id |-> kept.id, len |-> kept.len, slots |-> kept.slots]
         /\ \/ kept = Packet!NoBuffer
            \/ /\ kept.id \in Packet!SentBy(x[1])
               /\ \A i \in DOMAIN passed[x] : passed[x][i] < kept.id
         /\ \A i \in DOMAIN Tail(wire[x]) :
              Header(Tail(wire[x])[i]) => After(x, Tail(wire[x])[i].id) /\ kept.id < Tail(wire[x])[i].id
<1>1. BufferOK(x) /\ WireOK(x)
      BY DEF PacketInv
<1>2. /\ 1 \in DOMAIN wire[x] /\ f = wire[x][1]
      /\ \A i \in DOMAIN Tail(wire[x]) :
           i + 1 \in DOMAIN wire[x] /\ 1 < i + 1 /\ Tail(wire[x])[i] = wire[x][i + 1]
  <2> DEFINE S == [id : Nat, seq : Nat, part : Nat]
  <2>1. wire[x] \in Seq(S)
        BY DEF PacketInv, PacketTypes
  <2> HIDE DEF S
  <2>2. Len(Tail(wire[x])) = Len(wire[x]) - 1 /\ Len(wire[x]) \in Nat \ {0}
        BY <2>1
  <2>3. /\ Tail(wire[x]) \in Seq(S)
        /\ \A i \in 1..Len(Tail(wire[x])) : Tail(wire[x])[i] = wire[x][i + 1]
        BY <2>1
  <2> QED BY <2>1, <2>2, <2>3
<1>3. \A i \in DOMAIN Tail(wire[x]) : Header(Tail(wire[x])[i]) => After(x, Tail(wire[x])[i].id)
      BY <1>1, <1>2 DEF WireOK
<1>4. CASE Header(f)
  <2>1. kept = [id |-> f.id, len |-> packets[f.id].len, slots |-> <<>>]
        BY <1>4 DEF Packet!Buffered, Header
  <2>2. f.id \in Packet!SentBy(x[1]) /\ After(x, f.id)
        BY <1>1, <1>2, <1>4 DEF WireOK
  <2>3. \A i \in DOMAIN Tail(wire[x]) : Header(Tail(wire[x])[i]) => f.id < Tail(wire[x])[i].id
        BY <1>1, <1>2, <1>4 DEF WireOK
  <2> QED BY <1>3, <2>1, <2>2, <2>3 DEF After
<1>5. CASE ~Header(f)
  <2>1. /\ kept.id = frames[x].id /\ kept = [id |-> kept.id, len |-> kept.len, slots |-> kept.slots]
        /\ frames[x] # Packet!NoBuffer \/ kept = Packet!NoBuffer
        BY <1>1, <1>5 DEF Packet!Buffered, Header, BufferOK
  <2>2. \A i \in DOMAIN Tail(wire[x]) : Header(Tail(wire[x])[i]) => kept.id < Tail(wire[x])[i].id
        BY <1>3, <2>1 DEF After
  <2> QED BY <1>1, <1>3, <2>1, <2>2 DEF BufferOK
<1> QED BY <1>4, <1>5

(* With one copy of each frame only the first is a header.                              *)
LEMMA OneHeader ==
  ASSUME Count = 1, NEW id \in Nat \ {0}, NEW n \in Nat \ {0}
  PROVE  /\ Packet!FrameAt(id, n) \in [id : Nat \ {0}, seq : Nat, part : Nat]
         /\ Packet!FrameAt(id, n).id = id
         /\ n > 1 => ~Header(Packet!FrameAt(id, n))
<1>1. CASE n = 1
      BY <1>1 DEF Packet!FrameAt
<1>2. CASE n > 1
  <2>1. (n - 2) \div 1 \in Nat
        BY <1>2
  <2>2. n - Count - 1 = n - 2 /\ n - Count \in Nat \ {0} /\ ~(n <= Count)
        BY <1>2
  <2>3. Packet!FrameAt(id, n) = [id |-> id, seq |-> n - Count, part |-> (n - 2) \div 1 + 1]
        BY <2>2 DEF Packet!FrameAt
  <2> QED BY <1>2, <2>1, <2>2, <2>3 DEF Header
<1> QED BY <1>1, <1>2

LEMMA BroadcastTyped ==
  ASSUME PacketInv, NEW node, NEW f \in [id : Nat \ {0}, seq : Nat, part : Nat],
         wire' = [x \in Packet!PktPairs |-> IF x[1] = node THEN Append(wire[x], f) ELSE wire[x]]
  PROVE  wire' \in [Packet!PktPairs -> Seq([id : Nat, seq : Nat, part : Nat])]
<1> DEFINE S == [id : Nat, seq : Nat, part : Nat]
<1>1. wire \in [Packet!PktPairs -> Seq(S)] /\ f \in S
      BY DEF PacketInv, PacketTypes
<1> HIDE DEF S
<1>2. wire' \in [Packet!PktPairs -> Seq(S)]
      BY <1>1, Appended
<1> QED BY <1>2 DEF S

LEMMA RawKept ==
  ASSUME Count = 1, PacketAssumption, PacketInv, NEW t \in PktThreads, NEW len \in PktLengths,
         Packet!SendRaw(t, len)
  PROVE  PacketInv'
<1> DEFINE id == Len(packets) + 1
           f == Packet!FrameAt(id, 1)
<1>1. /\ packets' = Append(packets, [by |-> t, len |-> len])
      /\ sending' = [sending EXCEPT ![t] = [id |-> id, n |-> 1]]
      /\ wire' = [x \in Packet!PktPairs |-> IF x[1] = t[1] THEN Append(wire[x], f) ELSE wire[x]]
      /\ UNCHANGED <<frames, passed>>
      BY DEF Packet!SendRaw, Packet!Broadcast
<1>2. /\ id \in Nat \ {0} /\ DOMAIN packets' = 1..id /\ DOMAIN packets = 1..(id - 1)
      /\ packets' \in Seq([by : PktThreads, len : Nat]) /\ packets'[id] = [by |-> t, len |-> len]
      /\ \A k \in DOMAIN packets : packets'[k] = packets[k]
  <2>1. packets \in Seq([by : PktThreads, len : Nat]) /\ [by |-> t, len |-> len] \in [by : PktThreads, len : Nat]
        BY DEF PacketInv, PacketTypes, PacketAssumption
  <2> QED BY <1>1, <2>1, Appended
<1>3. f \in [id : Nat \ {0}, seq : Nat, part : Nat] /\ f.id = id
      BY <1>2, OneHeader
<1> HIDE DEF f, id
<1>4. /\ \A node : \A k \in Packet!SentBy(node) : k \in Packet!SentBy(node)'
      /\ id \in Packet!SentBy(t[1])' /\ \A k \in DOMAIN packets : k \in DOMAIN packets' /\ k < id
      BY <1>2 DEF Packet!SentBy
<1>5. PacketTypes'
  <2>1. wire' \in [Packet!PktPairs -> Seq([id : Nat, seq : Nat, part : Nat])]
        BY <1>1, <1>3, BroadcastTyped
  <2>2. sending' \in [PktThreads -> [id : Nat, n : Nat]]
        BY <1>1, <1>2 DEF PacketInv, PacketTypes
  <2> QED BY <1>1, <1>2, <2>1, <2>2 DEF PacketInv, PacketTypes
<1>6. \A u \in PktThreads :
        \/ sending'[u] = Packet!NotSending
        \/ sending'[u].id \in DOMAIN packets' /\ packets'[sending'[u].id].by = u /\ sending'[u].n > 0
  <2> SUFFICES ASSUME NEW u \in PktThreads
               PROVE  \/ sending'[u] = Packet!NotSending
                      \/ /\ sending'[u].id \in DOMAIN packets' /\ packets'[sending'[u].id].by = u
                         /\ sending'[u].n > 0
      OBVIOUS
  <2>1. DOMAIN sending = PktThreads
        BY DEF PacketInv, PacketTypes
  <2>2. CASE u = t
    <3>1. sending'[u] = [id |-> id, n |-> 1]
          BY <1>1, <2>1, <2>2
    <3> QED BY <1>2, <2>2, <3>1
  <2>3. CASE u # t
    <3>1. sending'[u] = sending[u]
          BY <1>1, <2>1, <2>3
    <3>2. \/ sending[u] = Packet!NotSending
          \/ sending[u].id \in DOMAIN packets /\ packets[sending[u].id].by = u /\ sending[u].n > 0
          BY DEF PacketInv
    <3> QED BY <1>2, <3>1, <3>2
  <2> QED BY <2>2, <2>3
<1>7. ASSUME NEW x \in Packet!PktPairs
      PROVE  /\ BufferOK(x)' /\ WireOK(x)'
             /\ \A i \in DOMAIN passed'[x] : passed'[x][i] \in DOMAIN packets'
  <2>1. \/ wire'[x] = wire[x] \/ wire'[x] = Append(wire[x], f)
        BY <1>1
  <2>2. wire'[x] # wire[x] => f.id \in Packet!SentBy(x[1])'
        BY <1>1, <1>3, <1>4
  <2> QED BY <1>1, <1>3, <1>4, <2>1, <2>2, PairKept
<1> QED BY <1>5, <1>6, <1>7 DEF PacketInv, Packet!NotSending

LEMMA FrameKept ==
  ASSUME Count = 1, PacketInv, NEW t \in PktThreads, Packet!SendFrame(t)
  PROVE  PacketInv'
<1>1. /\ sending[t] # Packet!NotSending /\ UNCHANGED <<packets, frames, passed>>
      BY DEF Packet!SendFrame
<1>2. /\ sending[t].id \in DOMAIN packets /\ packets[sending[t].id].by = t
      /\ sending[t].id \in Nat \ {0} /\ sending[t].n \in Nat \ {0}
      BY <1>1 DEF PacketInv, PacketTypes
<1> DEFINE f == Packet!FrameAt(sending[t].id, sending[t].n + 1)
<1>3. f \in [id : Nat \ {0}, seq : Nat, part : Nat] /\ f.id = sending[t].id /\ ~Header(f)
      BY <1>2, OneHeader
<1> HIDE DEF f
<1>4. \/ sending' = [sending EXCEPT ![t] = Packet!NotSending] /\ UNCHANGED wire
      \/ /\ sending' = [sending EXCEPT ![t].n = @ + 1]
         /\ wire' = [x \in Packet!PktPairs |-> IF x[1] = t[1] THEN Append(wire[x], f) ELSE wire[x]]
      BY DEF Packet!SendFrame, Packet!Broadcast, f
<1>5. f.id \in Packet!SentBy(t[1]) /\ \A node : Packet!SentBy(node)' = Packet!SentBy(node)
      BY <1>1, <1>2, <1>3 DEF Packet!SentBy
<1>6. wire' \in [Packet!PktPairs -> Seq([id : Nat, seq : Nat, part : Nat])]
  <2>1. CASE wire' = wire
        BY <2>1 DEF PacketInv, PacketTypes
  <2>2. CASE wire' = [x \in Packet!PktPairs |-> IF x[1] = t[1] THEN Append(wire[x], f) ELSE wire[x]]
        BY <1>3, <2>2, BroadcastTyped
  <2> QED BY <1>4, <2>1, <2>2
<1>7. /\ sending' \in [PktThreads -> [id : Nat, n : Nat]]
      /\ \A u \in PktThreads \ {t} : sending'[u] = sending[u]
      /\ \/ sending'[t] = Packet!NotSending
         \/ sending'[t].id = sending[t].id /\ sending'[t].n > 0
  <2>1. sending \in [PktThreads -> [id : Nat, n : Nat]]
        BY DEF PacketInv, PacketTypes
  <2>2. sending[t].n + 1 \in Nat /\ sending[t].n + 1 > 0
        BY <1>2
  <2>3. CASE sending' = [sending EXCEPT ![t] = Packet!NotSending]
        BY <2>1, <2>3 DEF Packet!NotSending
  <2>4. CASE sending' = [sending EXCEPT ![t].n = @ + 1]
        BY <2>1, <2>2, <2>4
  <2> QED BY <1>4, <2>3, <2>4
<1>8. \A u \in PktThreads :
        \/ sending'[u] = Packet!NotSending
        \/ sending'[u].id \in DOMAIN packets' /\ packets'[sending'[u].id].by = u /\ sending'[u].n > 0
      BY <1>1, <1>2, <1>7 DEF PacketInv
<1>9. ASSUME NEW x \in Packet!PktPairs
      PROVE  /\ BufferOK(x)' /\ WireOK(x)'
             /\ \A i \in DOMAIN passed'[x] : passed'[x][i] \in DOMAIN packets'
  <2>1. \/ wire'[x] = wire[x] \/ wire'[x] = Append(wire[x], f)
        BY <1>4
  <2>2. wire'[x] # wire[x] => f.id \in Packet!SentBy(x[1])'
        BY <1>4, <1>5
  <2> QED BY <1>1, <1>3, <1>5, <2>1, <2>2, PairKept
<1> QED BY <1>1, <1>6, <1>7, <1>8, <1>9 DEF PacketInv, PacketTypes, Packet!NotSending

LEMMA TakenKept ==
  ASSUME PacketInv, NEW x \in Packet!PktPairs, Packet!ReceiveFrame(x) \/ Packet!LoseFrame(x)
  PROVE  PacketInv'
<1> DEFINE f == Head(wire[x])
           kept == Packet!Buffered(frames[x], f)
<1>1. /\ wire[x] # <<>> /\ wire' = [wire EXCEPT ![x] = Tail(@)]
      /\ UNCHANGED <<packets, sending>>
      BY DEF Packet!ReceiveFrame, Packet!LoseFrame
<1>2. /\ kept = [id |-> kept.id, len |-> kept.len, slots |-> kept.slots]
      /\ \/ kept = Packet!NoBuffer
         \/ /\ kept.id \in Packet!SentBy(x[1])
            /\ \A i \in DOMAIN passed[x] : passed[x][i] < kept.id
      /\ \A i \in DOMAIN Tail(wire[x]) :
           Header(Tail(wire[x])[i]) => After(x, Tail(wire[x])[i].id) /\ kept.id < Tail(wire[x])[i].id
      BY <1>1, FrameTaken
<1>3. \/ UNCHANGED <<frames, passed>>
      \/ frames' = [frames EXCEPT ![x] = kept] /\ UNCHANGED passed
      \/ /\ kept # Packet!NoBuffer /\ Packet!WholePacket(kept)
         /\ passed' = [passed EXCEPT ![x] = Append(@, Packet!ContentOf(kept))]
         /\ frames' = [frames EXCEPT ![x] = Packet!NoBuffer]
      BY DEF Packet!ReceiveFrame, Packet!LoseFrame
<1> HIDE DEF kept, f
<1>4. Packet!WholePacket(kept) => Packet!ContentOf(kept) = kept.id
      BY DEF Packet!WholePacket, Packet!ContentOf
<1>5. /\ wire[x] \in Seq([id : Nat, seq : Nat, part : Nat]) /\ passed[x] \in Seq(Nat)
      /\ packets \in Seq([by : PktThreads, len : Nat])
      /\ BufferOK(x) /\ \A i \in DOMAIN passed[x] : passed[x][i] \in DOMAIN packets
      /\ wire' \in [Packet!PktPairs -> Seq([id : Nat, seq : Nat, part : Nat])]
      /\ wire'[x] = Tail(wire[x]) /\ \A y \in Packet!PktPairs \ {x} : wire'[y] = wire[y]
  <2> DEFINE S == [id : Nat, seq : Nat, part : Nat]
  <2>1. wire \in [Packet!PktPairs -> Seq(S)]
        BY DEF PacketInv, PacketTypes
  <2> HIDE DEF S
  <2>2. Tail(wire[x]) \in Seq(S)
        BY <1>1, <2>1, Tailed
  <2>3. /\ wire[x] \in Seq(S) /\ wire' \in [Packet!PktPairs -> Seq(S)]
        /\ wire'[x] = Tail(wire[x]) /\ \A y \in Packet!PktPairs \ {x} : wire'[y] = wire[y]
        BY <1>1, <2>1, <2>2
  <2> QED BY <2>3 DEF S, PacketInv, PacketTypes
<1>6. /\ PacketTypes'
      /\ \A y \in Packet!PktPairs \ {x} : frames'[y] = frames[y] /\ passed'[y] = passed[y]
      /\ BufferOK(x)' /\ \A i \in DOMAIN passed'[x] : passed'[x][i] \in DOMAIN packets'
      /\ \A m \in Nat : After(x, m) /\ kept.id < m => After(x, m)'
  <2>1. \A node : Packet!SentBy(node)' = Packet!SentBy(node)
        BY <1>1 DEF Packet!SentBy
  <2>2. CASE UNCHANGED <<frames, passed>>
        BY <1>1, <1>5, <2>1, <2>2 DEF PacketInv, PacketTypes, BufferOK, After
  <2>3. CASE frames' = [frames EXCEPT ![x] = kept] /\ UNCHANGED passed
    <3>1. frames'[x] = kept /\ DOMAIN frames' = Packet!PktPairs
          BY <2>3 DEF PacketInv, PacketTypes
    <3>2. BufferOK(x)'
          BY <1>2, <2>1, <2>3, <3>1 DEF BufferOK
    <3>3. PacketTypes'
          BY <1>1, <1>5, <2>3, <3>1 DEF PacketInv, PacketTypes
    <3> QED BY <1>1, <1>5, <2>3, <3>1, <3>2, <3>3 DEF After
  <2>4. CASE /\ kept # Packet!NoBuffer /\ Packet!WholePacket(kept)
             /\ passed' = [passed EXCEPT ![x] = Append(@, Packet!ContentOf(kept))]
             /\ frames' = [frames EXCEPT ![x] = Packet!NoBuffer]
    <3>1. frames'[x] = Packet!NoBuffer /\ DOMAIN frames' = Packet!PktPairs
          BY <2>4 DEF PacketInv, PacketTypes
    <3>2. kept.id \in DOMAIN packets /\ kept.id \in Nat \ {0}
      <4>1. kept.id \in DOMAIN packets
            BY <1>2, <2>4 DEF Packet!SentBy
      <4>2. \A k \in DOMAIN packets : k \in Nat \ {0}
            BY DEF PacketInv, PacketTypes
      <4> QED BY <4>1, <4>2
    <3>3. /\ passed' \in [Packet!PktPairs -> Seq(Nat)] /\ passed'[x] = Append(passed[x], kept.id)
          /\ \A y \in Packet!PktPairs \ {x} : passed'[y] = passed[y]
      <4>1. Append(passed[x], kept.id) \in Seq(Nat)
            BY <1>5, <3>2, Appended
      <4> QED BY <1>4, <2>4, <4>1 DEF PacketInv, PacketTypes
    <3>4. \A i \in DOMAIN passed'[x] :
            passed'[x][i] = kept.id \/ (i \in DOMAIN passed[x] /\ passed'[x][i] = passed[x][i])
      <4>1. passed[x] \in Seq(Nat) /\ kept.id \in Nat
            BY <1>5, <3>2
      <4>2. \A i \in DOMAIN Append(passed[x], kept.id) :
              \/ Append(passed[x], kept.id)[i] = kept.id
              \/ i \in DOMAIN passed[x] /\ Append(passed[x], kept.id)[i] = passed[x][i]
            BY <4>1
      <4> QED BY <3>3, <4>2
    <3>5. BufferOK(x)'
          BY <3>1 DEF BufferOK, Packet!NoBuffer
    <3>6. PacketTypes'
          BY <1>1, <1>5, <3>1, <3>3 DEF PacketInv, PacketTypes
    <3>7. \A m \in Nat : After(x, m) /\ kept.id < m => After(x, m)'
      <4> SUFFICES ASSUME NEW m \in Nat, After(x, m), kept.id < m PROVE After(x, m)'
          OBVIOUS
      <4>1. frames'[x].id < m
        <5>1. frames'[x].id = 0
              BY <3>1 DEF Packet!NoBuffer
        <5>2. CASE frames[x] = Packet!NoBuffer
              BY <5>1, <5>2, <3>1 DEF After
        <5>3. CASE frames[x] # Packet!NoBuffer
          <6>1. frames[x].id \in Nat \ {0}
                BY <1>5, <5>3 DEF BufferOK, Packet!SentBy
          <6>2. m \in Nat \ {0}
                BY <6>1 DEF After
          <6> QED BY <5>1, <6>2
        <5> QED BY <5>2, <5>3
      <4>2. \A i \in DOMAIN passed'[x] : passed'[x][i] < m
            BY <3>4 DEF After
      <4> QED BY <4>1, <4>2 DEF After
    <3>8. \A i \in DOMAIN passed'[x] : passed'[x][i] \in DOMAIN packets'
          BY <1>1, <1>5, <3>2, <3>4
    <3> QED BY <2>4, <3>3, <3>5, <3>6, <3>7, <3>8
  <2> QED BY <1>3, <2>2, <2>3, <2>4
<1>7. WireOK(x)'
  <2>1. \A i \in DOMAIN wire'[x] : Header(wire'[x][i]) => After(x, wire[x][i].id)'
    <3> SUFFICES ASSUME NEW i \in DOMAIN wire'[x], Header(wire'[x][i]) PROVE After(x, wire[x][i].id)'
        OBVIOUS
    <3>1. wire'[x][i].id \in Nat
      <4> DEFINE S == [id : Nat, seq : Nat, part : Nat]
      <4>1. wire' \in [Packet!PktPairs -> Seq(S)]
            BY <1>5
      <4> HIDE DEF S
      <4>2. wire'[x][i] \in S
            BY <4>1
      <4> QED BY <4>2 DEF S
    <3>2. After(x, wire'[x][i].id) /\ kept.id < wire'[x][i].id
          BY <1>2, <1>5
    <3>3. \A m \in Nat : m = wire'[x][i].id => After(x, m)'
          BY <1>6, <3>2
    <3> QED BY <3>1, <3>3 DEF After
  <2> QED BY <1>1, <1>5, <2>1, WireTaken
<1>8. ASSUME NEW y \in Packet!PktPairs \ {x}
      PROVE  /\ BufferOK(y)' /\ WireOK(y)'
             /\ \A i \in DOMAIN passed'[y] : passed'[y][i] \in DOMAIN packets'
  <2>1. wire'[y] = wire[y] /\ frames'[y] = frames[y] /\ passed'[y] = passed[y]
        BY <1>5, <1>6
  <2>2. BufferOK(y) /\ WireOK(y) /\ \A i \in DOMAIN passed[y] : passed[y][i] \in DOMAIN packets
        BY DEF PacketInv
  <2> QED BY <1>1, <2>1, <2>2 DEF BufferOK, WireOK, After, Header, Packet!SentBy
<1>9. \A t \in PktThreads :
        \/ sending'[t] = Packet!NotSending
        \/ sending'[t].id \in DOMAIN packets' /\ packets'[sending'[t].id].by = t /\ sending'[t].n > 0
      BY <1>1 DEF PacketInv
<1> QED BY <1>6, <1>7, <1>8, <1>9 DEF PacketInv, Packet!NotSending

LEMMA PacketKept ==
  ASSUME Count = 1, PacketAssumption, PacketInv, [Next]_vars
  PROVE  PacketInv'
<1>1. CASE UNCHANGED PacketVars
  <2>1. UNCHANGED <<packets, sending, wire, frames, passed>>
        BY <1>1 DEF PacketVars
  <2>2. \A x \in Packet!PktPairs : (BufferOK(x) => BufferOK(x)') /\ (WireOK(x) => WireOK(x)')
        BY <2>1 DEF BufferOK, WireOK, After, Header, Packet!SentBy
  <2> QED BY <2>1, <2>2 DEF PacketInv, PacketTypes
<1>2. CASE Packet!PktNext
      BY <1>2, RawKept, FrameKept, TakenKept DEF Packet!PktNext
<1> QED BY <1>1, <1>2, PartSteps

(* Each step is one of Transfer: to send a packet, to pass one up, or nothing.          *)
LEMMA PacketStepTransfers ==
  ASSUME Count = 1, PacketAssumption, PacketInv, [Next]_vars
  PROVE  [Packet!Promise!Next]_(Packet!Promise!transferVars)
<1> DEFINE P == Packet!PktPairs
<1>0. Packet!Promise!Pairs = P /\ \A x \in P : x[1] \in PktNodes /\ x[2] \in PktNodes
      BY DEF Packet!Promise!Pairs, Packet!PktPairs
<1>1. ASSUME UNCHANGED <<packets, passed>> PROVE UNCHANGED Packet!Promise!transferVars
      BY <1>1 DEF Packet!Promise!transferVars, Packet!SentBy
<1>2. ASSUME NEW t \in PktThreads, NEW len \in PktLengths, Packet!SendRaw(t, len)
      PROVE  Packet!Promise!Next
  <2> DEFINE id == Len(packets) + 1
  <2>1. /\ packets' = Append(packets, [by |-> t, len |-> len]) /\ UNCHANGED passed
        /\ Len(packets) < MaxPackets
        BY <1>2 DEF Packet!SendRaw
  <2>2. /\ id \in Packet!PktIds /\ DOMAIN packets' = 1..id /\ DOMAIN packets = 1..(id - 1)
        /\ packets'[id] = [by |-> t, len |-> len] /\ \A k \in DOMAIN packets : packets'[k] = packets[k]
    <3>1. packets \in Seq([by : PktThreads, len : Nat]) /\ [by |-> t, len |-> len] \in [by : PktThreads, len : Nat]
          BY DEF PacketInv, PacketTypes, PacketAssumption
    <3>2. /\ Len(packets) \in Nat /\ DOMAIN packets' = 1..id /\ DOMAIN packets = 1..Len(packets)
          /\ packets'[id] = [by |-> t, len |-> len] /\ \A k \in DOMAIN packets : packets'[k] = packets[k]
          BY <2>1, <3>1, Appended
    <3> QED BY <2>1, <3>2 DEF Packet!PktIds, PacketAssumption
  <2> HIDE DEF id
  <2>3. \A node : /\ Packet!SentBy(node)' = IF node = t[1] THEN Packet!SentBy(node) \cup {id} ELSE Packet!SentBy(node)
                  /\ \A k \in Packet!SentBy(node) : k < id
        BY <2>2 DEF Packet!SentBy, Packet!PktIds
  <2>4. Packet!Promise!Send(t[1], PktNodes, id)
        BY <1>0, <2>1, <2>3 DEF Packet!Promise!Send
  <2>5. t[1] \in PktNodes /\ PktNodes \in SUBSET PktNodes
        BY DEF PacketAssumption
  <2> QED BY <2>2, <2>4, <2>5 DEF Packet!Promise!Next
<1>3. ASSUME NEW x \in P, Packet!ReceiveFrame(x)
      PROVE  [Packet!Promise!Next]_(Packet!Promise!transferVars)
  <2> DEFINE kept == Packet!Buffered(frames[x], Head(wire[x]))
  <2>1. /\ wire[x] # <<>> /\ UNCHANGED packets
        /\ \/ UNCHANGED passed
           \/ /\ kept # Packet!NoBuffer /\ Packet!WholePacket(kept)
              /\ passed' = [passed EXCEPT ![x] = Append(@, Packet!ContentOf(kept))]
        BY <1>3 DEF Packet!ReceiveFrame
  <2>2. \/ kept = Packet!NoBuffer
        \/ kept.id \in Packet!SentBy(x[1]) /\ \A i \in DOMAIN passed[x] : passed[x][i] < kept.id
        BY <2>1, FrameTaken
  <2> HIDE DEF kept
  <2>3. CASE UNCHANGED passed
        BY <1>1, <2>1, <2>3
  <2>4. CASE /\ kept # Packet!NoBuffer /\ Packet!WholePacket(kept)
             /\ passed' = [passed EXCEPT ![x] = Append(@, Packet!ContentOf(kept))]
    <3>1. Packet!ContentOf(kept) = kept.id
          BY <2>4 DEF Packet!WholePacket, Packet!ContentOf
    <3>2. \A node : Packet!SentBy(node)' = Packet!SentBy(node)
          BY <2>1 DEF Packet!SentBy
    <3>3. Packet!Promise!Receive(x, kept.id)
          BY <1>0, <2>2, <2>4, <3>1, <3>2 DEF Packet!Promise!Receive
    <3> QED BY <1>0, <2>2, <2>4, <3>3 DEF Packet!Promise!Next
  <2> QED BY <2>1, <2>3, <2>4
<1>4. ASSUME NEW x \in P, Packet!LoseFrame(x) PROVE UNCHANGED <<packets, passed>>
      BY <1>4 DEF Packet!LoseFrame
<1>5. ASSUME NEW t \in PktThreads, Packet!SendFrame(t) PROVE UNCHANGED <<packets, passed>>
      BY <1>5 DEF Packet!SendFrame
<1>6. CASE UNCHANGED PacketVars
      BY <1>1, <1>6 DEF PacketVars
<1>7. CASE Packet!PktNext
      BY <1>1, <1>2, <1>3, <1>4, <1>5, <1>7 DEF Packet!PktNext
<1> QED BY <1>6, <1>7, PartSteps

(* Sent once, the frames of the packets implement Transfer: what handle_packet() passes  *)
(* up is a packet that was sent, whole, in order and at most once, for any threads,         *)
(* lengths and losses.                                                                *)
THEOREM PacketTransferHolds ==
  ASSUME Count = 1 PROVE Spec => PacketTransfer
<1>1. Init => Packet!Promise!Init
      BY DEF Init, Packet!PktInit, Packet!Promise!Init, Packet!Promise!Pairs, Packet!PktPairs, Packet!SentBy
<1>2. PacketInv /\ [Next]_vars => [Packet!Promise!Next]_(Packet!Promise!transferVars)
      BY PacketStepTransfers, PacketAssumption
<1>3. PacketInv /\ [Next]_vars => PacketInv'
      BY PacketKept, PacketAssumption
<1> QED BY <1>1, <1>2, <1>3, PacketInitially, PTL
        DEF Spec, PacketTransfer, Packet!PacketTransfer, Packet!Promise!Spec

-----------------------------------------------------------------------------
(* J1939, when two nodes do not send to each other at the same time and the decoder      *)
(* misses no announcement while it keeps data on the track.                             *)
Busy(x) == current[x] # Decoder!Idling
SizeOf(x) == transfers[current[x].id].size

DecoderTypes ==
  /\ transfers \in Seq([track : Decoder!Tracks, size : Nat \ {0}])
  /\ current \in [Decoder!Tracks -> [id : Nat, state : {"idle", "asked", "clear"}, n : Nat]]
  /\ DOMAIN track = Decoder!Tracks
  /\ joined \in [Decoder!Tracks -> Seq(Nat)]

(* The transfer under way on a track, and the answer that is not. *)
CurrentOK(x) ==
  Busy(x) =>
    /\ current[x].id \in Decoder!TransfersOf(x) /\ current[x].state \in {"asked", "clear"}
    /\ current[x].state = "asked" => x[2] # Everybody /\ current[x].n = 0
    /\ current[x].n <= SizeOf(x) /\ (x[2] = Everybody => current[x].n < SizeOf(x))
    /\ \A y \in Decoder!Tracks : y = Decoder!Answering(x) => ~Busy(y)

(* While a transfer is under way, the data kept on its track are of it.                  *)
KeptOK(x) ==
  track[x].hasDT /\ Busy(x) =>
    /\ track[x].known /\ track[x].len = current[x].id /\ track[x].packets = SizeOf(x)
    /\ \A s \in DOMAIN track[x].dt : s \in 1..current[x].n /\ track[x].dt[s] = <<track[x].len, s>>
    /\ \A i \in DOMAIN joined[x] : joined[x][i] < track[x].len

TrackRecord(x) ==
  track[x] = [known |-> track[x].known, len |-> track[x].len, packets |-> track[x].packets,
              hasDT |-> track[x].hasDT, dt |-> track[x].dt]

DecoderInv ==
  /\ DecoderTypes
  /\ \A x \in Decoder!Tracks :
       /\ CurrentOK(x) /\ TrackRecord(x) /\ KeptOK(x)
       /\ \A i \in DOMAIN joined[x] : joined[x][i] \in DOMAIN transfers

LEMMA DecoderInitially == Init => DecoderInv
<1> SUFFICES ASSUME Init PROVE DecoderInv
    OBVIOUS
<1>1. /\ transfers = <<>>
      /\ current = [x \in Decoder!Tracks |-> [id |-> 0, state |-> "idle", n |-> 0]]
      /\ track = [x \in Decoder!Tracks |->
                    [known |-> FALSE, len |-> 0, packets |-> 0, hasDT |-> FALSE, dt |-> <<>>]]
      /\ joined = [x \in Decoder!Tracks |-> <<>>]
      BY DEF Init, Decoder!JInit, Decoder!Idling, Decoder!NoTrack
<1>3. DecoderTypes
      BY <1>1 DEF DecoderTypes
<1>4. ASSUME NEW x \in Decoder!Tracks
      PROVE  /\ CurrentOK(x) /\ TrackRecord(x) /\ KeptOK(x)
             /\ \A i \in DOMAIN joined[x] : joined[x][i] \in DOMAIN transfers
  <2>1. /\ current[x] = Decoder!Idling /\ joined[x] = <<>>
        /\ track[x] = [known |-> FALSE, len |-> 0, packets |-> 0, hasDT |-> FALSE, dt |-> <<>>]
        BY <1>1 DEF Decoder!Idling
  <2> QED BY <2>1 DEF CurrentOK, TrackRecord, KeptOK, Busy
<1> QED BY <1>3, <1>4 DEF DecoderInv

LEMMA AnsweringBack ==
  ASSUME NEW x \in Decoder!Tracks
  PROVE  /\ Decoder!Answering(x) # x
         /\ x[2] # Everybody => Decoder!Answering(x) \in Decoder!Tracks
         /\ \A y \in Decoder!Tracks : x = Decoder!Answering(y) => y = Decoder!Answering(x)
BY DEF Decoder!Answering, Decoder!Tracks

(* A track on which nothing happens; while nothing is under way there, an answer to the  *)
(* other node may change the number of packets, or remove it.                            *)
LEMMA TrackStill ==
  ASSUME DecoderInv, NEW x \in Decoder!Tracks,
         current'[x] = current[x], joined'[x] = joined[x],
         \A id \in DOMAIN transfers : id \in DOMAIN transfers' /\ transfers'[id] = transfers[id],
         \/ track'[x] = track[x]
         \/ ~Busy(x) /\ TrackRecord(x)' /\ (track'[x].hasDT => track[x].hasDT),
         Busy(x) => \A y \in Decoder!Tracks : y = Decoder!Answering(x) => ~Busy(y)'
  PROVE  /\ CurrentOK(x)' /\ TrackRecord(x)' /\ KeptOK(x)'
         /\ \A i \in DOMAIN joined'[x] : joined'[x][i] \in DOMAIN transfers'
<1>1. /\ CurrentOK(x) /\ TrackRecord(x) /\ KeptOK(x)
      /\ \A i \in DOMAIN joined[x] : joined[x][i] \in DOMAIN transfers
      BY DEF DecoderInv, DecoderTypes
<1>2. CurrentOK(x)'
      BY <1>1 DEF CurrentOK, Busy, SizeOf, Decoder!TransfersOf
<1>3. TrackRecord(x)'
      BY <1>1 DEF TrackRecord
<1>4. KeptOK(x)'
  <2>1. CASE Busy(x)
    <3>1. current[x].id \in DOMAIN transfers /\ SizeOf(x)' = SizeOf(x) /\ track'[x] = track[x]
          BY <1>1, <2>1 DEF CurrentOK, SizeOf, Decoder!TransfersOf
    <3> QED BY <1>1, <2>1, <3>1 DEF KeptOK, Busy
  <2>2. CASE ~Busy(x)
        BY <1>1, <2>2 DEF KeptOK, Busy
  <2> QED BY <2>1, <2>2
<1> QED BY <1>1, <1>2, <1>3, <1>4

(* An announcement starts the track anew; if it is missed, nothing is kept there.       *)
LEMMA AnnounceKept ==
  ASSUME ~Duplex, ~MissesRestart, DecoderAssumption, DecoderInv,
         NEW x \in Decoder!Tracks, NEW size \in Sizes, Decoder!Announce(x, size)
  PROVE  DecoderInv'
<1> DEFINE id == Len(transfers) + 1
           new == [id |-> id, n |-> 0, state |-> IF x[2] = Everybody THEN "clear" ELSE "asked"]
<1>1. /\ ~Busy(x) /\ \A y \in Decoder!Tracks : y = Decoder!Answering(x) => ~Busy(y)
      /\ transfers' = Append(transfers, [track |-> x, size |-> size])
      /\ current' = [current EXCEPT ![x] = new] /\ UNCHANGED joined
      /\ \/ missed' = missed /\ track' = [track EXCEPT ![x] =
              [known |-> TRUE, len |-> id, packets |-> transfers'[id].size, hasDT |-> TRUE, dt |-> <<>>]]
         \/ ~track[x].hasDT /\ UNCHANGED track
      BY DEF Decoder!Announce, Decoder!TrackStart, Decoder!Watch, Decoder!Miss, Busy
<1>2. /\ id \in Nat \ {0} /\ DOMAIN transfers' = 1..id /\ DOMAIN transfers = 1..(id - 1)
      /\ transfers' \in Seq([track : Decoder!Tracks, size : Nat \ {0}])
      /\ transfers'[id] = [track |-> x, size |-> size] /\ size \in Nat \ {0}
      /\ \A k \in DOMAIN transfers : k \in DOMAIN transfers' /\ transfers'[k] = transfers[k]
  <2>1. /\ transfers \in Seq([track : Decoder!Tracks, size : Nat \ {0}]) /\ size \in Nat \ {0}
        /\ [track |-> x, size |-> size] \in [track : Decoder!Tracks, size : Nat \ {0}]
        BY DEF DecoderInv, DecoderTypes, DecoderAssumption
  <2> QED BY <1>1, <2>1, Appended
<1> HIDE DEF id
<1>4. /\ current'[x] = new /\ \A y \in Decoder!Tracks \ {x} : current'[y] = current[y]
      /\ DOMAIN track' = Decoder!Tracks /\ \A y \in Decoder!Tracks \ {x} : track'[y] = track[y]
      BY <1>1 DEF DecoderInv, DecoderTypes
<1>5. DecoderTypes'
  <2>1. current' \in [Decoder!Tracks -> [id : Nat, state : {"idle", "asked", "clear"}, n : Nat]]
        BY <1>1, <1>2 DEF DecoderInv, DecoderTypes
  <2> QED BY <1>1, <1>2, <1>4, <2>1 DEF DecoderInv, DecoderTypes
<1>6. CurrentOK(x)'
  <2>1. id \in Decoder!TransfersOf(x)' /\ transfers'[id].size = size /\ 0 < size
        BY <1>2 DEF Decoder!TransfersOf
  <2>2. \A y \in Decoder!Tracks : y = Decoder!Answering(x) => ~Busy(y)'
        BY <1>1, <1>4, AnsweringBack DEF Busy
  <2> QED BY <1>4, <2>1, <2>2 DEF CurrentOK, SizeOf
<1>7. TrackRecord(x)' /\ KeptOK(x)'
  <2>1. CASE track' = [track EXCEPT ![x] =
              [known |-> TRUE, len |-> id, packets |-> transfers'[id].size, hasDT |-> TRUE, dt |-> <<>>]]
    <3>1. track'[x] = [known |-> TRUE, len |-> id, packets |-> size, hasDT |-> TRUE, dt |-> <<>>]
          BY <1>2, <2>1 DEF DecoderInv, DecoderTypes
    <3>2. \A i \in DOMAIN joined[x] : joined[x][i] < id
          BY <1>2 DEF DecoderInv
    <3>3. Busy(x)' /\ SizeOf(x)' = size /\ current'[x].id = id /\ current'[x].n = 0
          BY <1>2, <1>4 DEF Busy, SizeOf, Decoder!Idling
    <3>4. DOMAIN track'[x].dt = {} /\ 1..0 = {}
          BY <3>1
    <3> QED BY <1>1, <1>2, <3>1, <3>2, <3>3, <3>4 DEF TrackRecord, KeptOK
  <2>2. CASE ~track[x].hasDT /\ UNCHANGED track
        BY <2>2 DEF KeptOK, TrackRecord, DecoderInv
  <2> QED BY <1>1, <2>1, <2>2
<1>8. ASSUME NEW y \in Decoder!Tracks \ {x}
      PROVE  /\ CurrentOK(y)' /\ TrackRecord(y)' /\ KeptOK(y)'
             /\ \A i \in DOMAIN joined'[y] : joined'[y][i] \in DOMAIN transfers'
  <2>1. Busy(y) => \A z \in Decoder!Tracks : z = Decoder!Answering(y) => ~Busy(z)'
    <3> SUFFICES ASSUME Busy(y), NEW z \in Decoder!Tracks, z = Decoder!Answering(y) PROVE ~Busy(z)'
        OBVIOUS
    <3>1. z # x
          BY <1>1, AnsweringBack
    <3>2. ~Busy(z)
          BY DEF DecoderInv, CurrentOK
    <3> QED BY <1>4, <3>1, <3>2 DEF Busy
  <2> QED BY <1>1, <1>2, <1>4, <2>1, TrackStill
<1>9. \A i \in DOMAIN joined'[x] : joined'[x][i] \in DOMAIN transfers'
      BY <1>1, <1>2 DEF DecoderInv
<1> QED BY <1>5, <1>6, <1>7, <1>8, <1>9 DEF DecoderInv

(* A step of the transfer under way on x leaves the other tracks alone, but that it may   *)
(* change the answer's.                                                               *)
LEMMA OthersStill ==
  ASSUME DecoderInv, NEW x \in Decoder!Tracks, Busy(x), UNCHANGED transfers,
         \A y \in Decoder!Tracks \ {x} : current'[y] = current[y] /\ joined'[y] = joined[y],
         \A y \in Decoder!Tracks \ {x} :
           \/ track'[y] = track[y]
           \/ /\ y = Decoder!Answering(x)
              /\ TrackRecord(y)' /\ (track'[y].hasDT => track[y].hasDT)
  PROVE  \A y \in Decoder!Tracks \ {x} :
           /\ CurrentOK(y)' /\ TrackRecord(y)' /\ KeptOK(y)'
           /\ \A i \in DOMAIN joined'[y] : joined'[y][i] \in DOMAIN transfers'
<1> SUFFICES ASSUME NEW y \in Decoder!Tracks \ {x}
             PROVE  /\ CurrentOK(y)' /\ TrackRecord(y)' /\ KeptOK(y)'
                    /\ \A i \in DOMAIN joined'[y] : joined'[y][i] \in DOMAIN transfers'
    OBVIOUS
<1>1. \A z \in Decoder!Tracks : z = Decoder!Answering(x) => ~Busy(z)
      BY DEF DecoderInv, CurrentOK
<1>2. Busy(y) => \A z \in Decoder!Tracks : z = Decoder!Answering(y) => ~Busy(z)'
  <2> SUFFICES ASSUME Busy(y), NEW z \in Decoder!Tracks, z = Decoder!Answering(y) PROVE ~Busy(z)'
      OBVIOUS
  <2>1. z # x
        BY <1>1, AnsweringBack
  <2>2. ~Busy(z)
        BY DEF DecoderInv, CurrentOK
  <2> QED BY <2>1, <2>2 DEF Busy
<1> QED BY <1>1, <1>2, TrackStill

LEMMA Sized ==
  ASSUME DecoderInv, NEW x \in Decoder!Tracks, Busy(x)
  PROVE  /\ current[x].id \in DOMAIN transfers /\ SizeOf(x) \in Nat \ {0} /\ current[x].n \in Nat
         /\ x[2] = Everybody => current[x].n < SizeOf(x)
<1> DEFINE S == [track : Decoder!Tracks, size : Nat \ {0}]
<1>1. current[x].id \in DOMAIN transfers /\ (x[2] = Everybody => current[x].n < SizeOf(x))
      BY DEF DecoderInv, CurrentOK, Decoder!TransfersOf
<1>2. transfers \in Seq(S)
      BY DEF DecoderInv, DecoderTypes
<1>3. transfers[current[x].id] \in S
  <2> HIDE DEF S
  <2> QED BY <1>1, <1>2
<1>4. current[x].n \in Nat
      BY DEF DecoderInv, DecoderTypes
<1> QED BY <1>1, <1>3, <1>4 DEF SizeOf

LEMMA ClearKept ==
  ASSUME DecoderAssumption, DecoderInv, NEW x \in Decoder!Tracks, Decoder!ClearToSend(x)
  PROVE  DecoderInv'
<1> DEFINE y == Decoder!Answering(x)
<1>1. /\ current[x].state = "asked" /\ current' = [current EXCEPT ![x].state = "clear"]
      /\ UNCHANGED <<transfers, joined>>
      /\ \/ track' = [track EXCEPT ![y].known = TRUE, ![y].packets = transfers[current[x].id].size]
         \/ UNCHANGED track
      BY DEF Decoder!ClearToSend, Decoder!TrackClear, Decoder!Watch, Decoder!Miss
<1>2. /\ Busy(x) /\ CurrentOK(x) /\ TrackRecord(x) /\ KeptOK(x)
      /\ \A i \in DOMAIN joined[x] : joined[x][i] \in DOMAIN transfers
      BY <1>1 DEF DecoderInv, Busy, Decoder!Idling
<1>3. y # x /\ y \in Decoder!Tracks
      BY <1>1, <1>2, AnsweringBack DEF CurrentOK
<1> HIDE DEF y
<1>5. /\ current' \in [Decoder!Tracks -> [id : Nat, state : {"idle", "asked", "clear"}, n : Nat]]
      /\ current'[x].id = current[x].id /\ current'[x].n = current[x].n /\ current'[x].state = "clear"
      /\ \A z \in Decoder!Tracks \ {x} : current'[z] = current[z]
      BY <1>1 DEF DecoderInv, DecoderTypes
<1>6. /\ DOMAIN track' = Decoder!Tracks /\ \A z \in Decoder!Tracks \ {y} : track'[z] = track[z]
      /\ TrackRecord(y)' /\ track'[y].hasDT = track[y].hasDT
  <2> DEFINE new == [track[y] EXCEPT !.known = TRUE, !.packets = transfers[current[x].id].size]
  <2>1. TrackRecord(y) /\ DOMAIN track = Decoder!Tracks
        BY <1>3 DEF DecoderInv, DecoderTypes
  <2>2. CASE UNCHANGED track
        BY <2>1, <2>2, <1>3 DEF TrackRecord
  <2>3. CASE track' = [track EXCEPT ![y].known = TRUE, ![y].packets = transfers[current[x].id].size]
    <3>1. SizeOf(x) \in Nat
          BY <1>2, Sized
    <3>2. track' = [track EXCEPT ![y] = new]
          BY <2>1, <2>3, <1>3
    <3>3. /\ new.hasDT = track[y].hasDT /\ new.dt = track[y].dt /\ new.len = track[y].len
          /\ new.known = TRUE /\ new.packets = SizeOf(x)
          BY <2>1 DEF TrackRecord, SizeOf
    <3> QED BY <2>1, <3>1, <3>2, <3>3, <1>3 DEF TrackRecord
  <2> QED BY <1>1, <2>2, <2>3
<1>7. DecoderTypes'
      BY <1>1, <1>5, <1>6 DEF DecoderInv, DecoderTypes
<1>8. Busy(x)' /\ SizeOf(x)' = SizeOf(x) /\ track'[x] = track[x]
      BY <1>1, <1>3, <1>5, <1>6 DEF Busy, SizeOf, Decoder!Idling
<1>9. CurrentOK(x)'
  <2>1. \A z \in Decoder!Tracks : z = Decoder!Answering(x) => ~Busy(z)'
        BY <1>2, <1>5, AnsweringBack DEF CurrentOK, Busy
  <2> QED BY <1>1, <1>2, <1>5, <1>8, <2>1 DEF CurrentOK, Decoder!TransfersOf
<1>10. TrackRecord(x)' /\ KeptOK(x)'
       BY <1>1, <1>2, <1>5, <1>8 DEF TrackRecord, KeptOK
<1>11. \A z \in Decoder!Tracks \ {x} :
         /\ CurrentOK(z)' /\ TrackRecord(z)' /\ KeptOK(z)'
         /\ \A i \in DOMAIN joined'[z] : joined'[z][i] \in DOMAIN transfers'
  <2>1. \A z \in Decoder!Tracks \ {x} :
           \/ track'[z] = track[z]
           \/ /\ z = Decoder!Answering(x)
              /\ TrackRecord(z)' /\ (track'[z].hasDT => track[z].hasDT)
        BY <1>6 DEF y
  <2> QED BY <1>1, <1>2, <1>5, <2>1, OthersStill
<1> QED BY <1>1, <1>2, <1>7, <1>9, <1>10, <1>11 DEF DecoderInv

LEMMA EndKept ==
  ASSUME DecoderAssumption, DecoderInv, NEW x \in Decoder!Tracks,
         Decoder!Acknowledge(x) \/ Decoder!Abort(x)
  PROVE  DecoderInv'
<1>1. /\ Busy(x) /\ current' = [current EXCEPT ![x] = Decoder!Idling]
      /\ UNCHANGED <<transfers, joined>>
      BY DEF Decoder!Acknowledge, Decoder!Abort, Decoder!TrackEnd, Decoder!Miss, Decoder!Idling, Busy
<1>2. /\ CurrentOK(x) /\ TrackRecord(x) /\ KeptOK(x)
      /\ \A i \in DOMAIN joined[x] : joined[x][i] \in DOMAIN transfers
      BY DEF DecoderInv
<1>3. PICK y \in {x, Decoder!Answering(x)} :
        /\ track' = [track EXCEPT ![y] = Decoder!NoTrack] \/ UNCHANGED track
        /\ x[2] # Everybody
  <2>1. CASE Decoder!Acknowledge(x)
    <3>1. x[2] # Everybody
      <4>1. current[x].n = SizeOf(x)
            BY <2>1 DEF Decoder!Acknowledge, SizeOf
      <4> QED BY <1>1, <4>1, Sized
    <3> QED BY <2>1, <3>1 DEF Decoder!Acknowledge, Decoder!TrackEnd, Decoder!Watch, Decoder!Miss
  <2>2. CASE Decoder!Abort(x)
        BY <2>2 DEF Decoder!Abort, Decoder!TrackEnd, Decoder!Watch, Decoder!Miss
  <2> QED BY <2>1, <2>2
<1>5. /\ current' \in [Decoder!Tracks -> [id : Nat, state : {"idle", "asked", "clear"}, n : Nat]]
      /\ ~Busy(x)' /\ \A z \in Decoder!Tracks \ {x} : current'[z] = current[z]
      BY <1>1 DEF DecoderInv, DecoderTypes, Busy, Decoder!Idling
<1>6. y \in Decoder!Tracks
      BY <1>3, AnsweringBack
<1>7. /\ DOMAIN track' = Decoder!Tracks
      /\ \A z \in Decoder!Tracks : track'[z] = track[z] \/ (z = y /\ TrackRecord(z)' /\ ~track'[z].hasDT)
  <2>1. CASE UNCHANGED track
        BY <2>1 DEF DecoderInv, DecoderTypes
  <2>2. CASE track' = [track EXCEPT ![y] = Decoder!NoTrack]
        BY <1>6, <2>2 DEF DecoderInv, DecoderTypes, TrackRecord, Decoder!NoTrack
  <2> QED BY <1>3, <2>1, <2>2
<1>8. DecoderTypes'
      BY <1>1, <1>5, <1>7 DEF DecoderInv, DecoderTypes
<1>9. CurrentOK(x)' /\ TrackRecord(x)' /\ KeptOK(x)'
  <2>1. CurrentOK(x)'
        BY <1>5 DEF CurrentOK
  <2>2. TrackRecord(x)'
        BY <1>2, <1>7 DEF TrackRecord
  <2> QED BY <1>5, <2>1, <2>2 DEF KeptOK
<1>10. \A z \in Decoder!Tracks \ {x} :
         /\ CurrentOK(z)' /\ TrackRecord(z)' /\ KeptOK(z)'
         /\ \A i \in DOMAIN joined'[z] : joined'[z][i] \in DOMAIN transfers'
  <2>1. \A z \in Decoder!Tracks \ {x} :
           \/ track'[z] = track[z]
           \/ /\ z = Decoder!Answering(x)
              /\ TrackRecord(z)' /\ (track'[z].hasDT => track[z].hasDT)
        BY <1>3, <1>7
  <2> QED BY <1>1, <1>5, <2>1, OthersStill
<1> QED BY <1>1, <1>2, <1>8, <1>9, <1>10 DEF DecoderInv

(* Data: what they leave on the track, when they are seen.                              *)
LEMMA DataSeen ==
  ASSUME DecoderInv, NEW x \in Decoder!Tracks, Busy(x), current[x].n < SizeOf(x),
         Decoder!TrackData(x, current[x].id, current[x].n + 1)
  PROVE  /\ DOMAIN track' = Decoder!Tracks /\ TrackRecord(x)'
         /\ \A y \in Decoder!Tracks \ {x} : track'[y] = track[y] /\ joined'[y] = joined[y]
         /\ joined' \in [Decoder!Tracks -> Seq(Nat)]
         /\ \/ ~track'[x].hasDT /\ UNCHANGED joined
            \/ /\ ~track'[x].hasDT /\ track[x].hasDT
               /\ joined' = [joined EXCEPT ![x] = Append(@, current[x].id)]
            \/ /\ UNCHANGED joined /\ track[x].hasDT /\ track'[x].known
               /\ track'[x].len = track[x].len /\ track'[x].packets = track[x].packets
               /\ \A s \in DOMAIN track'[x].dt :
                    s \in 1..(current[x].n + 1) /\ track'[x].dt[s] = <<track[x].len, s>>
<1> DEFINE cm == track[x]
           seq == current[x].n + 1
           dt == [s \in DOMAIN cm.dt \cup {seq} |-> IF s = seq THEN <<current[x].id, seq>> ELSE cm.dt[s]]
<1>1. TrackRecord(x) /\ KeptOK(x) /\ DOMAIN track = Decoder!Tracks /\ joined \in [Decoder!Tracks -> Seq(Nat)]
      BY DEF DecoderInv, DecoderTypes
<1>2. /\ current[x].id \in DOMAIN transfers /\ SizeOf(x) \in Nat \ {0} /\ current[x].n \in Nat
      /\ seq \in 1..SizeOf(x) /\ current[x].id \in Nat
  <2>1. current[x].id \in Nat
        BY DEF DecoderInv, DecoderTypes
  <2> QED BY <2>1, Sized
<1>3. CASE ~cm.hasDT
  <2>1. UNCHANGED <<track, joined>>
        BY <1>3 DEF Decoder!TrackData
  <2> QED BY <1>1, <1>3, <2>1 DEF TrackRecord
<1>4. CASE cm.hasDT
  <2>1. /\ cm.known /\ cm.len = current[x].id /\ cm.packets = SizeOf(x)
        /\ \A s \in DOMAIN cm.dt : s \in 1..current[x].n /\ cm.dt[s] = <<cm.len, s>>
        BY <1>1, <1>4 DEF KeptOK
  <2>2. /\ DOMAIN dt = DOMAIN cm.dt \cup {seq}
        /\ \A s \in DOMAIN dt : s \in 1..seq /\ dt[s] = <<cm.len, s>>
    <3>1. DOMAIN dt = DOMAIN cm.dt \cup {seq} /\ dt[seq] = <<current[x].id, seq>>
          OBVIOUS
    <3>2. \A s \in DOMAIN cm.dt : s \in 1..seq /\ s # seq /\ dt[s] = cm.dt[s]
          BY <1>2, <2>1
    <3> HIDE DEF dt
    <3> QED BY <1>2, <2>1, <3>1, <3>2
  <2>3. IF seq = cm.packets /\ Decoder!Complete(dt, cm.packets)
        THEN /\ track' = [track EXCEPT ![x].hasDT = FALSE, ![x].dt = <<>>]
             /\ joined' = [joined EXCEPT ![x] = Append(@, Decoder!Content(cm, dt))]
        ELSE track' = [track EXCEPT ![x].dt = dt] /\ UNCHANGED joined
        BY <1>4, <2>1 DEF Decoder!TrackData
  <2> HIDE DEF dt
  <2>4. CASE seq = cm.packets /\ Decoder!Complete(dt, cm.packets)
    <3>1. Decoder!Content(cm, dt) = current[x].id
          BY <2>1, <2>2, <2>4 DEF Decoder!Content, Decoder!Complete, SizeOf
    <3>2. /\ joined' = [joined EXCEPT ![x] = Append(@, current[x].id)]
          /\ track' = [track EXCEPT ![x].hasDT = FALSE, ![x].dt = <<>>]
          BY <2>3, <2>4, <3>1
    <3>3. joined[x] \in Seq(Nat) /\ Append(joined[x], current[x].id) \in Seq(Nat)
          BY <1>1, <1>2, Appended
    <3>4. joined' \in [Decoder!Tracks -> Seq(Nat)]
          BY <1>1, <3>2, <3>3
    <3>5. TrackRecord(x)' /\ ~track'[x].hasDT /\ DOMAIN track' = Decoder!Tracks
          BY <1>1, <3>2 DEF TrackRecord
    <3> QED BY <1>1, <1>4, <3>2, <3>4, <3>5
  <2>5. CASE ~(seq = cm.packets /\ Decoder!Complete(dt, cm.packets))
    <3>1. track' = [track EXCEPT ![x].dt = dt] /\ UNCHANGED joined
          BY <2>3, <2>5
    <3>2. /\ TrackRecord(x)' /\ track'[x].dt = dt /\ track'[x].known /\ track'[x].len = cm.len
          /\ track'[x].packets = cm.packets /\ DOMAIN track' = Decoder!Tracks
          BY <1>1, <2>1, <3>1 DEF TrackRecord
    <3> QED BY <1>1, <1>4, <2>2, <3>1, <3>2
  <2> QED BY <2>4, <2>5
<1> QED BY <1>3, <1>4

LEMMA DataKept ==
  ASSUME DecoderAssumption, DecoderInv, NEW x \in Decoder!Tracks, Decoder!SendDT(x)
  PROVE  DecoderInv'
<1> DEFINE n == current[x].n
<1>1. /\ current[x].state = "clear" /\ n < SizeOf(x) /\ UNCHANGED transfers
      /\ current' = [current EXCEPT ![x] =
           IF n + 1 = SizeOf(x) /\ x[2] = Everybody THEN Decoder!Idling
                                                    ELSE [current[x] EXCEPT !.n = n + 1]]
      /\ Decoder!TrackData(x, current[x].id, n + 1) \/ UNCHANGED <<track, joined>>
      BY DEF Decoder!SendDT, Decoder!Watch, Decoder!Miss, SizeOf
<1>2. /\ Busy(x) /\ CurrentOK(x) /\ TrackRecord(x) /\ KeptOK(x)
      /\ \A i \in DOMAIN joined[x] : joined[x][i] \in DOMAIN transfers
      BY <1>1 DEF DecoderInv, Busy, Decoder!Idling
<1>3. /\ current[x].id \in DOMAIN transfers /\ SizeOf(x) \in Nat \ {0} /\ n \in Nat
      BY <1>2, Sized
<1>5. /\ current' \in [Decoder!Tracks -> [id : Nat, state : {"idle", "asked", "clear"}, n : Nat]]
      /\ \A z \in Decoder!Tracks \ {x} : current'[z] = current[z]
      /\ Busy(x)' => /\ current'[x].id = current[x].id /\ current'[x].n = n + 1
                     /\ current'[x].state = "clear" /\ (x[2] = Everybody => n + 1 < SizeOf(x))
      /\ ~Busy(x)' => n + 1 = SizeOf(x)
  <2>1. CASE n + 1 = SizeOf(x) /\ x[2] = Everybody
        BY <1>1, <1>3, <2>1 DEF DecoderInv, DecoderTypes, Busy, Decoder!Idling
  <2>2. CASE ~(n + 1 = SizeOf(x) /\ x[2] = Everybody)
    <3>1. current' = [current EXCEPT ![x] = [current[x] EXCEPT !.n = n + 1]]
          BY <1>1, <2>2
    <3>2. /\ current' \in [Decoder!Tracks -> [id : Nat, state : {"idle", "asked", "clear"}, n : Nat]]
          /\ \A z \in Decoder!Tracks \ {x} : current'[z] = current[z]
          /\ current'[x].id = current[x].id /\ current'[x].n = n + 1 /\ current'[x].state = "clear"
      <4> DEFINE S == [id : Nat, state : {"idle", "asked", "clear"}, n : Nat]
                 new == [current[x] EXCEPT !.n = n + 1]
      <4>1. current \in [Decoder!Tracks -> S] /\ current[x] \in S
            BY DEF DecoderInv, DecoderTypes
      <4>2. new \in S /\ new.id = current[x].id /\ new.n = n + 1 /\ new.state = "clear"
            BY <1>1, <1>3, <4>1
      <4> HIDE DEF S, new
      <4>3. /\ current' \in [Decoder!Tracks -> S] /\ current'[x] = new
            /\ \A z \in Decoder!Tracks \ {x} : current'[z] = current[z]
            BY <3>1, <4>1, <4>2 DEF new
      <4> QED BY <4>2, <4>3 DEF S
    <3> QED BY <1>1, <1>3, <2>2, <3>2 DEF Busy, Decoder!Idling
  <2> QED BY <2>1, <2>2
<1>6. /\ DOMAIN track' = Decoder!Tracks /\ TrackRecord(x)' /\ joined' \in [Decoder!Tracks -> Seq(Nat)]
      /\ \A y \in Decoder!Tracks \ {x} : track'[y] = track[y] /\ joined'[y] = joined[y]
  <2>1. CASE Decoder!TrackData(x, current[x].id, n + 1)
        BY <1>1, <1>2, <2>1, DataSeen
  <2>2. CASE UNCHANGED <<track, joined>>
        BY <1>2, <2>2 DEF DecoderInv, DecoderTypes, TrackRecord
  <2> QED BY <1>1, <2>1, <2>2
<1>7. DecoderTypes'
      BY <1>1, <1>5, <1>6 DEF DecoderInv, DecoderTypes
<1>8. CurrentOK(x)'
  <2> SUFFICES ASSUME Busy(x)' PROVE CurrentOK(x)'
      BY DEF CurrentOK
  <2>1. \A z \in Decoder!Tracks : z = Decoder!Answering(x) => ~Busy(z)'
        BY <1>2, <1>5, AnsweringBack DEF CurrentOK, Busy
  <2>2. /\ current'[x].id = current[x].id /\ current'[x].n = n + 1 /\ SizeOf(x)' = SizeOf(x)
        /\ current'[x].state = "clear" /\ (x[2] = Everybody => n + 1 < SizeOf(x))
        BY <1>1, <1>5 DEF SizeOf
  <2>3. n + 1 <= SizeOf(x) /\ current'[x].id \in Decoder!TransfersOf(x)'
        BY <1>1, <1>2, <1>3, <2>2 DEF CurrentOK, Decoder!TransfersOf
  <2> QED BY <2>1, <2>2, <2>3 DEF CurrentOK
<1>9. KeptOK(x)' /\ \A i \in DOMAIN joined'[x] : joined'[x][i] \in DOMAIN transfers'
  <2>1. CASE UNCHANGED <<track, joined>>
    <3> SUFFICES ASSUME track[x].hasDT, Busy(x)'
                 PROVE  /\ track[x].known /\ track[x].len = current'[x].id /\ track[x].packets = SizeOf(x)'
                        /\ \A s \in DOMAIN track[x].dt :
                             s \in 1..current'[x].n /\ track[x].dt[s] = <<track[x].len, s>>
                        /\ \A i \in DOMAIN joined[x] : joined[x][i] < track[x].len
        BY <1>1, <1>2, <2>1 DEF KeptOK
    <3>1. current'[x].id = current[x].id /\ current'[x].n = n + 1 /\ SizeOf(x)' = SizeOf(x)
          BY <1>1, <1>5 DEF SizeOf
    <3>2. \A s \in 1..n : s \in 1..(n + 1)
          BY <1>3
    <3> QED BY <1>2, <3>1, <3>2 DEF KeptOK
  <2>2. CASE Decoder!TrackData(x, current[x].id, n + 1)
    <3>1. CASE ~track'[x].hasDT /\ UNCHANGED joined
          BY <1>1, <1>2, <3>1 DEF KeptOK
    <3>2. CASE ~track'[x].hasDT /\ joined' = [joined EXCEPT ![x] = Append(@, current[x].id)]
      <4>1. joined'[x] = Append(joined[x], current[x].id) /\ joined[x] \in Seq(Nat) /\ current[x].id \in Nat
            BY <3>2 DEF DecoderInv, DecoderTypes
      <4>2. \A i \in DOMAIN joined'[x] :
              joined'[x][i] = current[x].id \/ (i \in DOMAIN joined[x] /\ joined'[x][i] = joined[x][i])
            BY <4>1
      <4> QED BY <1>1, <1>2, <1>3, <3>2, <4>2 DEF KeptOK
    <3>3. CASE /\ UNCHANGED joined /\ track[x].hasDT /\ track'[x].known
               /\ track'[x].len = track[x].len /\ track'[x].packets = track[x].packets
               /\ \A s \in DOMAIN track'[x].dt :
                    s \in 1..(n + 1) /\ track'[x].dt[s] = <<track[x].len, s>>
      <4>1. /\ track[x].len = current[x].id /\ track[x].packets = SizeOf(x)
            /\ \A i \in DOMAIN joined[x] : joined[x][i] < track[x].len
            BY <1>2, <3>3 DEF KeptOK
      <4>2. Busy(x)' => current'[x].id = current[x].id /\ current'[x].n = n + 1 /\ SizeOf(x)' = SizeOf(x)
            BY <1>1, <1>5 DEF SizeOf
      <4>3. KeptOK(x)'
        <5>1. CASE Busy(x) /\ Busy(x)'
              BY <3>3, <4>1, <4>2, <5>1 DEF KeptOK
        <5> QED BY <1>2, <5>1 DEF KeptOK
      <4> QED BY <1>1, <1>2, <3>3, <4>3
    <3> QED BY <1>1, <1>2, <2>2, <3>1, <3>2, <3>3, DataSeen
  <2> QED BY <1>1, <2>1, <2>2
<1>10. \A z \in Decoder!Tracks \ {x} :
         /\ CurrentOK(z)' /\ TrackRecord(z)' /\ KeptOK(z)'
         /\ \A i \in DOMAIN joined'[z] : joined'[z][i] \in DOMAIN transfers'
       BY <1>1, <1>2, <1>5, <1>6, OthersStill
<1> QED BY <1>6, <1>7, <1>8, <1>9, <1>10 DEF DecoderInv

LEMMA DecoderKept ==
  ASSUME ~Duplex, ~MissesRestart, DecoderAssumption, DecoderInv, [Next]_vars
  PROVE  DecoderInv'
<1>1. CASE UNCHANGED DecoderVars
  <2>1. UNCHANGED <<transfers, current, track, joined>>
        BY <1>1 DEF DecoderVars
  <2>2. \A x \in Decoder!Tracks : /\ CurrentOK(x) => CurrentOK(x)'
                                  /\ TrackRecord(x) => TrackRecord(x)'
                                  /\ KeptOK(x) => KeptOK(x)'
        BY <2>1 DEF CurrentOK, TrackRecord, KeptOK, Busy, SizeOf, Decoder!TransfersOf
  <2> QED BY <2>1, <2>2 DEF DecoderInv, DecoderTypes
<1>2. CASE Decoder!JNext
      BY <1>2, AnnounceKept, ClearKept, DataKept, EndKept DEF Decoder!JNext
<1> QED BY <1>1, <1>2, PartSteps

(* Each step is one of Transfer: an announcement sends, the data that complete a track      *)
(* are received.                                                                      *)
LEMMA DecoderStepTransfers ==
  ASSUME ~Duplex, ~MissesRestart, DecoderAssumption, DecoderInv, [Next]_vars
  PROVE  [Decoder!Promise!Next]_(Decoder!Promise!transferVars)
<1>0. /\ Decoder!Promise!Pairs = Decoder!Pairs
      /\ \A x \in Decoder!Tracks : x \in Decoder!Pairs /\ x[1] \in BusNodes /\ x[2] \in BusNodes
      /\ \A x, y \in Decoder!Pairs : x[1] = y[1] /\ x[2] = y[2] => x = y
      BY DEF Decoder!Promise!Pairs, Decoder!Pairs, Decoder!Tracks
<1>1. ASSUME UNCHANGED <<transfers, joined>> PROVE UNCHANGED Decoder!Promise!transferVars
      BY <1>1 DEF Decoder!Promise!transferVars, Decoder!TransfersOf
<1>2. ASSUME NEW x \in Decoder!Tracks, NEW size \in Sizes, Decoder!Announce(x, size)
      PROVE  Decoder!Promise!Next
  <2> DEFINE id == Len(transfers) + 1
  <2>1. /\ transfers' = Append(transfers, [track |-> x, size |-> size]) /\ UNCHANGED joined
        /\ Len(transfers) < MaxTransfers
        BY <1>2 DEF Decoder!Announce, Decoder!TrackStart, Decoder!Miss
  <2>2. /\ id \in Decoder!TransferIds /\ DOMAIN transfers' = 1..id /\ DOMAIN transfers = 1..(id - 1)
        /\ transfers'[id] = [track |-> x, size |-> size]
        /\ \A k \in DOMAIN transfers : transfers'[k] = transfers[k]
    <3>1. /\ transfers \in Seq([track : Decoder!Tracks, size : Nat \ {0}])
          /\ [track |-> x, size |-> size] \in [track : Decoder!Tracks, size : Nat \ {0}]
          BY DEF DecoderInv, DecoderTypes, DecoderAssumption
    <3>2. /\ Len(transfers) \in Nat /\ DOMAIN transfers' = 1..id /\ DOMAIN transfers = 1..Len(transfers)
          /\ transfers'[id] = [track |-> x, size |-> size]
          /\ \A k \in DOMAIN transfers : transfers'[k] = transfers[k]
          BY <2>1, <3>1, Appended
    <3> QED BY <2>1, <3>2 DEF Decoder!TransferIds, DecoderAssumption
  <2> HIDE DEF id
  <2>3. \A y : /\ Decoder!TransfersOf(y)' =
                     IF y = x THEN Decoder!TransfersOf(y) \cup {id} ELSE Decoder!TransfersOf(y)
               /\ \A k \in Decoder!TransfersOf(y) : k < id
        BY <2>2 DEF Decoder!TransfersOf, Decoder!TransferIds
  <2>4. Decoder!Promise!Send(x[1], {x[2]}, id)
        BY <1>0, <2>1, <2>3 DEF Decoder!Promise!Send
  <2>5. x[1] \in BusNodes /\ {x[2]} \in SUBSET BusNodes
        BY <1>0
  <2> QED BY <2>2, <2>4, <2>5 DEF Decoder!Promise!Next
<1>3. ASSUME NEW x \in Decoder!Tracks, Decoder!SendDT(x)
      PROVE  [Decoder!Promise!Next]_(Decoder!Promise!transferVars)
  <2>1. /\ current[x].state = "clear" /\ current[x].n < SizeOf(x) /\ UNCHANGED transfers
        /\ Decoder!TrackData(x, current[x].id, current[x].n + 1) \/ UNCHANGED joined
        BY <1>3 DEF Decoder!SendDT, Decoder!Miss, SizeOf
  <2>2. Busy(x)
        BY <2>1 DEF Busy, Decoder!Idling
  <2>3. CASE UNCHANGED joined
        BY <1>1, <2>1, <2>3
  <2>4. CASE track[x].hasDT /\ joined' = [joined EXCEPT ![x] = Append(@, current[x].id)]
    <3>1. /\ current[x].id \in Decoder!TransfersOf(x) /\ joined \in [Decoder!Tracks -> Seq(Nat)]
          /\ \A i \in DOMAIN joined[x] : joined[x][i] < current[x].id
          BY <2>2, <2>4 DEF DecoderInv, DecoderTypes, CurrentOK, KeptOK
    <3>2. \A y : Decoder!TransfersOf(y)' = Decoder!TransfersOf(y)
          BY <2>1 DEF Decoder!TransfersOf
    <3>3. PICK m : m = current[x].id
          OBVIOUS
    <3>4. Decoder!Promise!Receive(x, m)
          BY <1>0, <2>4, <3>1, <3>2, <3>3 DEF Decoder!Promise!Receive
    <3>5. x \in Decoder!Pairs /\ m \in [y \in Decoder!Pairs |-> Decoder!TransfersOf(y)][x]
          BY <1>0, <3>1, <3>3
    <3> QED BY <1>0, <3>4, <3>5 DEF Decoder!Promise!Next
  <2> QED BY <2>1, <2>2, <2>3, <2>4, DataSeen
<1>4. ASSUME NEW x \in Decoder!Tracks,
             Decoder!ClearToSend(x) \/ Decoder!Acknowledge(x) \/ Decoder!Abort(x)
      PROVE  UNCHANGED <<transfers, joined>>
      BY <1>4 DEF Decoder!ClearToSend, Decoder!Acknowledge, Decoder!Abort, Decoder!TrackClear,
                  Decoder!TrackEnd, Decoder!Miss
<1>5. CASE UNCHANGED DecoderVars
      BY <1>1, <1>5 DEF DecoderVars
<1>6. CASE Decoder!JNext
      BY <1>1, <1>2, <1>3, <1>4, <1>6 DEF Decoder!JNext
<1> QED BY <1>5, <1>6, PartSteps

(* What the decoder joins are transfers, whole, in order and once, as long as two nodes do  *)
(* not send to each other at the same time and it misses no announcement while it keeps data  *)
(* on the track, for any nodes, sizes, frames missed and aborts of either side            *)
(* (J1939DecodeCM, J1939DecodeDT, J1939JoinDT).                                          *)
THEOREM DecoderTransferHolds ==
  ASSUME ~Duplex, ~MissesRestart PROVE Spec => DecoderTransfer
<1>1. Init => Decoder!Promise!Init
      BY DEF Init, Decoder!JInit, Decoder!Promise!Init, Decoder!Promise!Pairs, Decoder!Pairs,
             Decoder!TransfersOf
<1>2. DecoderInv /\ [Next]_vars => [Decoder!Promise!Next]_(Decoder!Promise!transferVars)
      BY DecoderStepTransfers, DecoderAssumption
<1>3. DecoderInv /\ [Next]_vars => DecoderInv'
      BY DecoderKept, DecoderAssumption
<1> QED BY <1>1, <1>2, <1>3, DecoderInitially, PTL
        DEF Spec, DecoderTransfer, Decoder!DecoderTransfer, Decoder!Promise!Spec

-----------------------------------------------------------------------------
(* IsoTp, when a node sends a peer one message at a time and none is too long for the      *)
(* length field of its first frame.                                                   *)
IsoShort == \A n \in Nodes : \A len \in Lengths[n] : len < Iso!LenMod

Of(id, x) == id \in DOMAIN msgs /\ msgs[id].pair = x
Long(id) == Iso!IsLong(msgs[id].len)
BlocksOf(id) == Iso!Blocks(msgs[id].len)

IsoFrame == [kind : {"single", "first", "consecutive", "flow"}, id : Nat, n : Nat]
IsFlow(f) == f.kind = "flow"

IsoTypes ==
  /\ msgs \in Seq([pair : Iso!Pairs, len : 1..(Iso!LenMod - 1)])
  /\ bus \in [Iso!Pairs -> Seq(IsoFrame)]
  /\ \A x \in Iso!Pairs : \A i \in DOMAIN bus[x] : IsFlow(bus[x][i]) <=> bus[x][i] = Iso!FlowControl
  /\ starting \in [Nodes -> Nat] /\ txq \in [Iso!Pairs -> Nat]
  /\ DOMAIN burst = Nodes /\ DOMAIN rxq = Iso!Pairs
  /\ got \in [Iso!Pairs -> Seq([len : Nat, parts : Seq(Nat \X Nat)])]

(* What may be under way from x[1] to x[2]. *)
Starts(x) == starting[x[1]] # 0 /\ msgs[starting[x[1]]].pair = x
Bursts(x) == burst[x[1]] # Iso!NoBurst /\ burst[x[1]].to = x[2]
Carries(x, i) == i \in DOMAIN bus[x] /\ ~IsFlow(bus[x][i])
Answers(x, i) == i \in DOMAIN bus[Iso!Back(x)] /\ IsFlow(bus[Iso!Back(x)][i])
IsData(x, i) == i \in DOMAIN bus[x] /\ bus[x][i].kind = "consecutive"

NodeOK(n) ==
  /\ starting[n] # 0 => starting[n] \in DOMAIN msgs /\ msgs[starting[n]].pair[1] = n
  /\ burst[n] = Iso!NoBurst \/
       /\ burst[n] = [id |-> burst[n].id, to |-> burst[n].to, n |-> burst[n].n]
       /\ Of(burst[n].id, <<n, burst[n].to>>) /\ Long(burst[n].id)
       /\ burst[n].n \in 1..(BlocksOf(burst[n].id) + 1)

FrameOK(x, f) ==
  /\ Of(f.id, x)
  /\ f.kind \in {"single", "first"} => f.n = msgs[f.id].len
  /\ f.kind = "single" => ~Long(f.id)
  /\ f.kind = "first" => Long(f.id) /\ txq[x] = f.id
  /\ f.kind = "consecutive" => Long(f.id) /\ f.n \in 1..BlocksOf(f.id)

(* The reassembly, when the frames before n have come or are lost: the slots from n on are *)
(* free, and the others hold what belongs there, or else one of them is free for ever.     *)
Ready(r, n) ==
  /\ \A i \in DOMAIN r.slots : i >= n => r.slots[i] = Iso!Hole
  /\ \/ \A i \in DOMAIN r.slots : i < n => r.slots[i] = Iso!Part(r.first, i)
     \/ \E i \in DOMAIN r.slots : i < n /\ r.slots[i] = Iso!Hole

IdIn(g) == g.parts[1][1]
GotBelow(x, m) == \A i \in DOMAIN got[x] : IdIn(got[x][i]) < m

(* The stages of a message exclude each other. *)
StagesOK(x) ==
  /\ Starts(x) => ~Bursts(x) /\ \A i : ~Carries(x, i) /\ ~Answers(x, i)
  /\ \A i : Carries(x, i) /\ ~IsData(x, i) =>
       ~Bursts(x) /\ (\A j : ~Answers(x, j)) /\ \A j : Carries(x, j) => j = i
  /\ \A i : Answers(x, i) =>
       ~Bursts(x) /\ (\A j : ~Carries(x, j)) /\ \A j : Answers(x, j) => j = i
  /\ \A i, j : IsData(x, i) /\ IsData(x, j) /\ i < j => bus[x][i].n < bus[x][j].n
  /\ \A i : IsData(x, i) /\ Bursts(x) => bus[x][i].n < burst[x[1]].n

(* The reassembly r: what comes next for it fits. *)
Rebuilds(x, r) ==
  /\ r = [first |-> r.first, len |-> r.len, slots |-> r.slots]
  /\ Of(r.first, x) /\ Long(r.first) /\ r.len = msgs[r.first].len
  /\ r.slots \in Seq(Nat \X Nat) /\ Len(r.slots) = Iso!Blocks(r.len)
  /\ \A i : Answers(x, i) => txq[x] = r.first /\ Ready(r, 1) /\ GotBelow(x, r.first)
  /\ Bursts(x) => burst[x[1]].id = r.first /\ Ready(r, burst[x[1]].n) /\ GotBelow(x, r.first)
  /\ \A i : IsData(x, i) =>
       bus[x][i].id = r.first /\ Ready(r, bus[x][i].n) /\ GotBelow(x, r.first)

TxqOK(x) == txq[x] # 0 => Of(txq[x], x) /\ Long(txq[x])
StartOK(x) ==
  Starts(x) => GotBelow(x, starting[x[1]]) /\ (Long(starting[x[1]]) => txq[x] = starting[x[1]])
FramesOK(x) ==
  \A i, f : Carries(x, i) /\ f = bus[x][i] =>
    FrameOK(x, f) /\ (f.kind # "consecutive" => GotBelow(x, f.id))
RebuildOK(x) == \A r : r = rxq[x] /\ r # Iso!None => Rebuilds(x, r)
GotOK(x) == \A i, g : i \in DOMAIN got[x] /\ g = got[x][i] => Iso!IsMessage(x, g, IdIn(g))

PairOK(x) == TxqOK(x) /\ StartOK(x) /\ FramesOK(x) /\ StagesOK(x) /\ RebuildOK(x) /\ GotOK(x)

IsoInv ==
  /\ IsoTypes
  /\ \A n \in Nodes : NodeOK(n)
  /\ \A x \in Iso!Pairs : PairOK(x)

IsoKept == \A id \in DOMAIN msgs : id \in DOMAIN msgs' /\ msgs'[id] = msgs[id]

LEMMA IsoPairs ==
  ASSUME NEW x \in Iso!Pairs
  PROVE  /\ x = <<x[1], x[2]>> /\ x[1] \in Nodes /\ x[2] \in Nodes /\ x[1] # x[2]
         /\ Iso!Back(x) \in Iso!Pairs /\ Iso!Back(Iso!Back(x)) = x /\ Iso!Back(x) # x
         /\ Iso!Back(x)[1] = x[2] /\ Iso!Back(x)[2] = x[1]
         /\ \A y \in Iso!Pairs : x[1] = y[1] /\ x[2] = y[2] => x = y
BY DEF Iso!Pairs, Iso!Back

LEMMA IsoLength ==
  ASSUME NEW len \in 1..(Iso!LenMod - 1)
  PROVE  /\ Iso!Blocks(len) \in Nat /\ len % Iso!LenMod = len
         /\ Iso!IsLong(len) => Iso!Blocks(len) >= 1
BY DEF Iso!LenMod, Iso!Blocks, Iso!IsLong

LEMMA IsoInitially == Init => IsoInv
<1> SUFFICES ASSUME Init PROVE IsoInv
    OBVIOUS
<1>1. /\ msgs = <<>> /\ bus = [x \in Iso!Pairs |-> <<>>]
      /\ starting = [n \in Nodes |-> 0] /\ txq = [x \in Iso!Pairs |-> 0]
      /\ rxq = [x \in Iso!Pairs |-> Iso!None] /\ burst = [n \in Nodes |-> Iso!NoBurst]
      /\ got = [x \in Iso!Pairs |-> <<>>]
      BY DEF Init, Iso!Init
<1>2. IsoTypes
      BY <1>1 DEF IsoTypes
<1>3. \A n \in Nodes : NodeOK(n)
      BY <1>1 DEF NodeOK
<1>4. ASSUME NEW x \in Iso!Pairs PROVE PairOK(x)
  <2>1. /\ txq[x] = 0 /\ rxq[x] = Iso!None /\ got[x] = <<>> /\ ~Starts(x) /\ ~Bursts(x)
        /\ \A i : ~Carries(x, i) /\ ~Answers(x, i) /\ ~IsData(x, i)
        BY <1>1, IsoPairs DEF Starts, Bursts, Carries, Answers, IsData
  <2> QED BY <2>1 DEF PairOK, TxqOK, StartOK, FramesOK, StagesOK, RebuildOK, GotOK
<1> QED BY <1>2, <1>3, <1>4 DEF IsoInv

(* A pair of which nothing changes, but that frames in front of its own may have gone. *)
LEMMA PairShifted ==
  ASSUME IsoTypes, NEW x \in Iso!Pairs, PairOK(x), IsoKept,
         Starts(x)' => Starts(x) /\ starting'[x[1]] = starting[x[1]] /\ starting[x[1]] \in DOMAIN msgs,
         Bursts(x)' => Bursts(x) /\ burst'[x[1]] = burst[x[1]],
         txq'[x] = txq[x], rxq'[x] = rxq[x], got'[x] = got[x],
         NEW d \in {0, 1}, NEW e \in {0, 1},
         \A i : Carries(x, i)' => i \in Nat /\ Carries(x, i + d) /\ bus'[x][i] = bus[x][i + d],
         \A i : Answers(x, i)' => i \in Nat /\ Answers(x, i + e)
  PROVE  PairOK(x)'
<1>1. \A id, z : Of(id, z) => Of(id, z)' /\ msgs'[id] = msgs[id]
      BY DEF Of, IsoKept
<1>2. \A m : GotBelow(x, m) => GotBelow(x, m)'
      BY DEF GotBelow
<1>3. \A i : IsData(x, i)' => i \in Nat /\ IsData(x, i + d) /\ bus'[x][i] = bus[x][i + d]
      BY DEF IsData, Carries, IsFlow
<1>4. \A i : Carries(x, i)' /\ ~IsData(x, i)' => Carries(x, i + d) /\ ~IsData(x, i + d)
      BY DEF IsData, Carries
<1>5. TxqOK(x)'
      BY DEF PairOK, TxqOK, Of, Long, IsoKept
<1>6. StartOK(x)'
      BY <1>2 DEF PairOK, StartOK, GotBelow, Long, IsoKept
<1>7. FramesOK(x)'
  <2> SUFFICES ASSUME NEW i, NEW f, Carries(x, i)', f = bus'[x][i]
               PROVE  FrameOK(x, f)' /\ (f.kind # "consecutive" => GotBelow(x, f.id)')
      BY DEF FramesOK
  <2>1. FrameOK(x, f) /\ (f.kind # "consecutive" => GotBelow(x, f.id))
        BY DEF PairOK, FramesOK
  <2>2. Of(f.id, x) /\ Of(f.id, x)' /\ msgs'[f.id] = msgs[f.id]
        BY <1>1, <2>1 DEF FrameOK
  <2>3. FrameOK(x, f)'
        BY <2>1, <2>2 DEF FrameOK, Long, BlocksOf
  <2> QED BY <1>2, <2>1, <2>3
<1>8. StagesOK(x)'
  <2> USE DEF PairOK
  <2>1. Starts(x)' => ~Bursts(x)' /\ \A i : ~Carries(x, i)' /\ ~Answers(x, i)'
        BY DEF StagesOK
  <2>2. ASSUME NEW i, Carries(x, i)', ~IsData(x, i)'
        PROVE  ~Bursts(x)' /\ (\A j : ~Answers(x, j)') /\ \A j : Carries(x, j)' => j = i
    <3>1. /\ ~Bursts(x) /\ (\A j : ~Answers(x, j)) /\ \A j : Carries(x, j) => j = i + d
          /\ i \in Nat
          BY <1>4, <2>2 DEF StagesOK
    <3>2. \A j : Carries(x, j)' => j \in Nat /\ j + d = i + d
          BY <3>1
    <3> QED BY <3>1, <3>2
  <2>3. ASSUME NEW i, Answers(x, i)'
        PROVE  ~Bursts(x)' /\ (\A j : ~Carries(x, j)') /\ \A j : Answers(x, j)' => j = i
    <3>1. /\ ~Bursts(x) /\ (\A j : ~Carries(x, j)) /\ \A j : Answers(x, j) => j = i + e
          /\ i \in Nat
          BY <2>3 DEF StagesOK
    <3>2. \A j : Answers(x, j)' => j \in Nat /\ j + e = i + e
          BY <3>1
    <3> QED BY <3>1, <3>2
  <2>4. ASSUME NEW i, NEW j, IsData(x, i)', IsData(x, j)', i < j PROVE bus'[x][i].n < bus'[x][j].n
    <3>1. /\ IsData(x, i + d) /\ IsData(x, j + d) /\ i + d < j + d
          /\ bus'[x][i] = bus[x][i + d] /\ bus'[x][j] = bus[x][j + d]
          BY <1>3, <2>4
    <3> QED BY <3>1 DEF StagesOK
  <2>5. ASSUME NEW i, IsData(x, i)', Bursts(x)' PROVE bus'[x][i].n < burst'[x[1]].n
        BY <1>3, <2>5 DEF StagesOK
  <2> QED BY <2>1, <2>2, <2>3, <2>4, <2>5 DEF StagesOK
<1>9. RebuildOK(x)'
  <2> SUFFICES ASSUME NEW r, r = rxq'[x], r # Iso!None PROVE Rebuilds(x, r)'
      BY DEF RebuildOK
  <2>1. Rebuilds(x, r)
        BY DEF PairOK, RebuildOK
  <2>2. Of(r.first, x)' /\ Long(r.first)' /\ msgs'[r.first].len = r.len
        BY <1>1, <2>1 DEF Rebuilds, Long
  <2>3. /\ \A i : Answers(x, i)' => txq'[x] = r.first /\ Ready(r, 1) /\ GotBelow(x, r.first)'
        /\ Bursts(x)' => burst'[x[1]].id = r.first /\ Ready(r, burst'[x[1]].n) /\ GotBelow(x, r.first)'
        /\ \A i : IsData(x, i)' =>
             bus'[x][i].id = r.first /\ Ready(r, bus'[x][i].n) /\ GotBelow(x, r.first)'
    <3>1. ASSUME NEW i, Answers(x, i)'
          PROVE  txq'[x] = r.first /\ Ready(r, 1) /\ GotBelow(x, r.first)'
          BY <1>2, <1>3, <2>1, <3>1 DEF Rebuilds
    <3>2. ASSUME Bursts(x)'
          PROVE  burst'[x[1]].id = r.first /\ Ready(r, burst'[x[1]].n) /\ GotBelow(x, r.first)'
          BY <1>2, <1>3, <2>1, <3>2 DEF Rebuilds
    <3>3. ASSUME NEW i, IsData(x, i)'
          PROVE  bus'[x][i].id = r.first /\ Ready(r, bus'[x][i].n) /\ GotBelow(x, r.first)'
          BY <1>2, <1>3, <2>1, <3>3 DEF Rebuilds
    <3> QED BY <3>1, <3>2, <3>3
  <2>4. /\ r = [first |-> r.first, len |-> r.len, slots |-> r.slots]
        /\ r.len = msgs'[r.first].len
        /\ r.slots \in Seq(Nat \X Nat) /\ Len(r.slots) = Iso!Blocks(r.len)
        BY <2>1, <2>2 DEF Rebuilds
  <2> QED BY <2>2, <2>3, <2>4, Zenon DEF Rebuilds
<1>10. GotOK(x)'
  <2>1. \A g, id : Iso!IsMessage(x, g, id) => Iso!IsMessage(x, g, id)'
        BY DEF Iso!IsMessage, Iso!PartsOf, Iso!Whole, IsoKept
  <2> QED BY <2>1 DEF PairOK, GotOK
<1> QED BY <1>5, <1>6, <1>7, <1>8, <1>9, <1>10 DEF PairOK

(* The frames on bus[y] after a step: those that were there, but perhaps the first, and new *)
(* ones only of the kind given.                                                       *)
Moves(y, flow) ==
  \E d \in {0, 1} : \A i \in DOMAIN bus'[y] :
    /\ i \in Nat
    /\ \/ i + d \in DOMAIN bus[y] /\ bus'[y][i] = bus[y][i + d]
       \/ IsFlow(bus'[y][i]) <=> flow

LEMMA Moving ==
  ASSUME IsoTypes, NEW y \in Iso!Pairs, NEW flow \in BOOLEAN,
         \/ bus'[y] = bus[y]
         \/ bus[y] # <<>> /\ bus'[y] = Tail(bus[y])
         \/ \E f \in IsoFrame : bus'[y] = Append(bus[y], f) /\ (IsFlow(f) <=> flow)
  PROVE  Moves(y, flow)
<1> DEFINE S == IsoFrame
<1>1. bus[y] \in Seq(S)
      BY DEF IsoTypes
<1> HIDE DEF S
<1>2. CASE bus'[y] = bus[y]
      BY <1>1, <1>2 DEF Moves
<1>3. CASE bus[y] # <<>> /\ bus'[y] = Tail(bus[y])
  <2>1. \A i \in DOMAIN bus'[y] : i \in Nat /\ i + 1 \in DOMAIN bus[y] /\ bus'[y][i] = bus[y][i + 1]
        BY <1>1, <1>3, Tailed
  <2> QED BY <2>1 DEF Moves
<1>4. ASSUME NEW f \in S, bus'[y] = Append(bus[y], f), IsFlow(f) <=> flow PROVE Moves(y, flow)
  <2>1. /\ DOMAIN bus'[y] = 1..(Len(bus[y]) + 1) /\ Len(bus[y]) \in Nat /\ DOMAIN bus[y] = 1..Len(bus[y])
        /\ bus'[y][Len(bus[y]) + 1] = f /\ \A i \in DOMAIN bus[y] : bus'[y][i] = bus[y][i]
        BY <1>1, <1>4, Appended
  <2>2. ASSUME NEW i \in DOMAIN bus'[y]
        PROVE  /\ i \in Nat
               /\ \/ i + 0 \in DOMAIN bus[y] /\ bus'[y][i] = bus[y][i + 0]
                  \/ IsFlow(bus'[y][i]) <=> flow
    <3>1. CASE i = Len(bus[y]) + 1
          BY <1>4, <2>1, <3>1
    <3>2. CASE i \in 1..Len(bus[y])
          BY <2>1, <3>2
    <3> QED BY <2>1, <3>1, <3>2
  <2> QED BY <2>2 DEF Moves
<1> QED BY <1>2, <1>3, <1>4 DEF S

(* A pair that a step does not act for. *)
LEMMA PairMoved ==
  ASSUME IsoTypes, NEW x \in Iso!Pairs, PairOK(x), IsoKept,
         Starts(x)' => Starts(x) /\ starting'[x[1]] = starting[x[1]] /\ starting[x[1]] \in DOMAIN msgs,
         Bursts(x)' => Bursts(x) /\ burst'[x[1]] = burst[x[1]],
         txq'[x] = txq[x], rxq'[x] = rxq[x], got'[x] = got[x],
         Moves(x, TRUE), Moves(Iso!Back(x), FALSE)
  PROVE  PairOK(x)'
<1>1. PICK d \in {0, 1} : \A i : Carries(x, i)' =>
             i \in Nat /\ Carries(x, i + d) /\ bus'[x][i] = bus[x][i + d]
      BY DEF Moves, Carries
<1>2. PICK e \in {0, 1} : \A i : Answers(x, i)' => i \in Nat /\ Answers(x, i + e)
      BY DEF Moves, Answers
<1> QED BY <1>1, <1>2, PairShifted

SeqOK(s) == s \in Seq(IsoFrame) /\ \A i \in DOMAIN s : IsFlow(s[i]) <=> s[i] = Iso!FlowControl

LEMMA SeqKept ==
  ASSUME NEW s, SeqOK(s)
  PROVE  /\ s # <<>> => SeqOK(Tail(s))
         /\ \A f \in IsoFrame : (IsFlow(f) <=> f = Iso!FlowControl) => SeqOK(Append(s, f))
<1> DEFINE S == IsoFrame
<1>1. s \in Seq(S) /\ \A i \in DOMAIN s : IsFlow(s[i]) <=> s[i] = Iso!FlowControl
      BY DEF SeqOK
<1> HIDE DEF S
<1>2. ASSUME s # <<>>
      PROVE  Tail(s) \in Seq(S) /\ \A i \in DOMAIN Tail(s) : IsFlow(Tail(s)[i]) <=> Tail(s)[i] = Iso!FlowControl
      BY <1>1, <1>2, Tailed
<1>3. ASSUME NEW f \in S, IsFlow(f) <=> f = Iso!FlowControl
      PROVE  /\ Append(s, f) \in Seq(S)
             /\ \A i \in DOMAIN Append(s, f) : IsFlow(Append(s, f)[i]) <=> Append(s, f)[i] = Iso!FlowControl
  <2>1. \A i \in DOMAIN Append(s, f) : Append(s, f)[i] = f \/ (i \in DOMAIN s /\ Append(s, f)[i] = s[i])
        BY <1>1, <1>3, Appended
  <2> QED BY <1>1, <1>3, <2>1, Appended
<1> QED BY <1>2, <1>3 DEF SeqOK, S

LEMMA LeastExists ==
  ASSUME NEW S \in SUBSET Nat, S # {}
  PROVE  Iso!Min(S) \in S /\ \A i \in S : Iso!Min(S) <= i
<1>1. IsWellFoundedOn(OpToRel(<, Nat), Nat)
      BY NatLessThanWellFounded
<1>2. PICK m \in S : \A i \in S : ~(<<i, m>> \in OpToRel(<, Nat))
      BY <1>1, WFMin
<1>3. \A i \in S : ~(i < m)
  <2> SUFFICES ASSUME NEW i \in S, i < m PROVE FALSE
      OBVIOUS
  <2>1. <<i, m>> \in {ss \in Nat \X Nat : ss[1] < ss[2]}
        OBVIOUS
  <2> QED BY <1>2, <2>1 DEF OpToRel
<1>4. \A i \in S : m <= i
      BY <1>3
<1> QED BY <1>4 DEF Iso!Min

(* Slots that are ready for block n are ready for a later one, too. *)
LEMMA ReadyLater ==
  ASSUME NEW r, NEW S, r.slots \in Seq(S), NEW n \in Nat, NEW k \in Nat, n <= k, n # 0, Ready(r, n)
  PROVE  Ready(r, k)
<1>1. DOMAIN r.slots = 1..Len(r.slots) /\ Len(r.slots) \in Nat
      OBVIOUS
<1>2. CASE n \in DOMAIN r.slots /\ n < k
      BY <1>1, <1>2 DEF Ready
<1>3. CASE n = k
      BY <1>3
<1>4. CASE n \notin DOMAIN r.slots
      BY <1>1, <1>4 DEF Ready
<1> QED BY <1>1, <1>2, <1>3, <1>4

(* Slots that are ready for block n: it goes where it belongs, or into a slot that a lost   *)
(* one has left free, and then its own stays free.                                     *)
Filled(N, f, h, n) ==
  /\ \A i \in 1..N : i >= n => f[i] = Iso!Hole
  /\ \/ \A i \in 1..N : i < n => f[i] = h[i]
     \/ \E i \in 1..N : i < n /\ f[i] = Iso!Hole
NoHole(N, f) == \A i \in 1..N : f[i] # Iso!Hole
SameIn(N, f, g) == \A i \in 1..N : f[i] = g[i]

LEMMA SlotTaken ==
  ASSUME NEW N \in Nat, NEW f, DOMAIN f = 1..N, NEW n \in 1..N, NEW m \in 1..n, NEW h,
         Filled(N, f, h, n), NoHole(N, h), f[m] = Iso!Hole,
         NEW g, g = [f EXCEPT ![m] = h[n]]
  PROVE  Filled(N, g, h, n + 1)
<1>1. g[m] = h[n] /\ \A i \in 1..N : i # m => g[i] = f[i]
      OBVIOUS
<1>2. \A i \in 1..N : i >= n + 1 => g[i] = Iso!Hole
      BY <1>1 DEF Filled
<1>3. CASE m # n
      BY <1>1, <1>2, <1>3 DEF Filled
<1>4. CASE m = n
      BY <1>1, <1>2, <1>4 DEF Filled
<1> QED BY <1>3, <1>4

LEMMA BlockPlaced ==
  ASSUME NEW r, r.slots \in Seq(Nat \X Nat), NEW n \in 1..Len(r.slots), Ready(r, n),
         r.first \in Nat \ {0},
         NEW s, s = Iso!Place(r.slots, n, Iso!Part(r.first, n)),
         NEW q, q.first = r.first, q.slots = s
  PROVE  /\ Iso!Free(r.slots, n) # {}
         /\ s \in Seq(Nat \X Nat) /\ Len(s) = Len(r.slots)
         /\ Ready(q, n + 1)
<1> DEFINE F == Iso!Free(r.slots, n)
           m == Iso!Min(F)
           f == r.slots
           N == Len(f)
           h == [i \in 1..N |-> Iso!Part(r.first, i)]
<1>1. DOMAIN f = 1..N /\ N \in Nat
      OBVIOUS
<1>2. n \in F /\ F \in SUBSET Nat /\ F \subseteq DOMAIN r.slots
  <2>1. n \in DOMAIN f /\ f[n] = Iso!Hole /\ DOMAIN f \in SUBSET Nat
        BY <1>1 DEF Ready
  <2> QED BY <2>1 DEF Iso!Free
<1>3. m \in 1..N /\ m <= n /\ f[m] = Iso!Hole
      BY <1>1, <1>2, LeastExists DEF Iso!Free
<1>4. s = [f EXCEPT ![m] = h[n]]
      BY DEF Iso!Place
<1> HIDE DEF m, F
<1>5. h[n] \in Nat \X Nat /\ \A i \in 1..N : h[i] # Iso!Hole
      BY <1>1 DEF Iso!Part, Iso!Hole
<1>6. s \in Seq(Nat \X Nat) /\ Len(s) = N /\ DOMAIN s = 1..N
      BY <1>1, <1>3, <1>4, <1>5
<1>7. Filled(N, f, h, n)
      BY <1>1 DEF Ready, Filled
<1>8. m \in 1..n /\ n \in 1..N
      BY <1>1, <1>3
<1> HIDE DEF f, N, h
<1>9. Filled(N, s, h, n + 1)
  <2>1. /\ N \in Nat /\ DOMAIN f = 1..N /\ n \in 1..N /\ m \in 1..n
        /\ f[m] = Iso!Hole /\ NoHole(N, h)
        BY <1>1, <1>3, <1>5, <1>8 DEF NoHole
  <2> QED BY <1>4, <1>7, <2>1, SlotTaken, Zenon
<1>10. Ready(q, n + 1)
       BY <1>6, <1>9 DEF Ready, Filled, h
<1> QED BY <1>2, <1>6, <1>10 DEF F, N, f

(* Full slots hold the blocks of the message. *)
LEMMA FullSlots ==
  ASSUME NEW N \in Nat, NEW f, NEW k \in Nat, NEW h, Filled(N, f, h, k), NoHole(N, f)
  PROVE  SameIn(N, f, h)
BY DEF Filled, NoHole, SameIn

LEMMA FullIsWhole ==
  ASSUME IsoTypes, NEW q, NEW k \in Nat, Ready(q, k), Iso!IsFull(q.slots),
         q.slots \in Seq(Nat \X Nat), q.first \in DOMAIN msgs, Len(q.slots) = BlocksOf(q.first)
  PROVE  /\ <<Iso!Part(q.first, 0)>> \o q.slots = Iso!Whole(q.first)
         /\ Iso!Whole(q.first) \in Seq(Nat \X Nat)
         /\ Iso!Whole(q.first)[1][1] = q.first
<1> DEFINE f == q.slots
           n == Len(f)
           h == [i \in 1..n |-> Iso!Part(q.first, i)]
           s == <<Iso!Part(q.first, 0)>> \o f
<1>1. n \in Nat /\ DOMAIN f = 1..n /\ q.first \in Nat
  <2>1. n \in Nat /\ DOMAIN f = 1..n
        OBVIOUS
  <2>2. \E T : msgs \in Seq(T)
        BY DEF IsoTypes
  <2>3. q.first \in Nat
        BY <2>2
  <2> QED BY <2>1, <2>3
<1>2. \A i \in 1..n : f[i] = h[i]
  <2>1. Filled(n, f, h, k) /\ NoHole(n, f)
        BY <1>1 DEF Ready, Iso!IsFull, Filled, NoHole
  <2>2. n \in Nat /\ k \in Nat
        BY <1>1
  <2> HIDE DEF f, n, h
  <2>3. SameIn(n, f, h)
        BY <2>1, <2>2, FullSlots, Zenon
  <2> QED BY <2>3 DEF SameIn
<1>3. Iso!Part(q.first, 0) \in Nat \X Nat
      BY <1>1 DEF Iso!Part
<1>4. s \in Seq(Nat \X Nat) /\ Len(s) = n + 1
      BY <1>1, <1>3
<1>5. s[1] = Iso!Part(q.first, 0) /\ \A i \in 1..n : s[i + 1] = f[i]
      BY <1>1, <1>3
<1>6. \A i \in 1..(n + 1) : s[i] = Iso!Part(q.first, i - 1)
  <2> SUFFICES ASSUME NEW i \in 1..(n + 1) PROVE s[i] = Iso!Part(q.first, i - 1)
      OBVIOUS
  <2>1. CASE i = 1
        BY <1>5, <2>1
  <2>2. CASE i # 1
    <3>1. i - 1 \in 1..n /\ (i - 1) + 1 = i
          BY <1>1, <2>2
    <3> QED BY <1>2, <1>5, <3>1
  <2> QED BY <2>1, <2>2
<1>7. Iso!Whole(q.first) = [i \in 1..(n + 1) |-> Iso!Part(q.first, i - 1)]
      BY DEF Iso!Whole, BlocksOf
<1>9. Iso!Part(q.first, 0)[1] = q.first
      BY DEF Iso!Part
<1> HIDE DEF s, n
<1>8. s = [i \in 1..(n + 1) |-> s[i]]
      BY <1>1, <1>4
<1>10. s = Iso!Whole(q.first)
      BY <1>6, <1>7, <1>8
<1> HIDE DEF f
<1> QED BY <1>4, <1>5, <1>9, <1>10 DEF s, f

LEMMA IsoIds ==
  ASSUME IsoTypes
  PROVE  /\ Len(msgs) \in Nat /\ DOMAIN msgs = 1..Len(msgs)
         /\ \A id \in DOMAIN msgs : /\ id \in Nat \ {0} /\ msgs[id].pair \in Iso!Pairs
                                    /\ msgs[id].len \in 1..(Iso!LenMod - 1)
<1> DEFINE S == [pair : Iso!Pairs, len : 1..(Iso!LenMod - 1)]
<1>1. msgs \in Seq(S)
      BY DEF IsoTypes
<1> HIDE DEF S
<1>2. /\ Len(msgs) \in Nat /\ DOMAIN msgs = 1..Len(msgs)
      /\ \A id \in DOMAIN msgs : id \in Nat \ {0} /\ msgs[id] \in S
      BY <1>1
<1> QED BY <1>2 DEF S

LEMMA MessageKept ==
  ASSUME IsoKept, NEW x, NEW g, NEW id, Iso!IsMessage(x, g, id)
  PROVE  Iso!IsMessage(x, g, id)'
BY DEF Iso!IsMessage, Iso!PartsOf, Iso!Whole, IsoKept

LEMMA GotBefore ==
  ASSUME IsoTypes, NEW x \in Iso!Pairs, PairOK(x)
  PROVE  GotBelow(x, Len(msgs) + 1)
<1>1. \A i \in DOMAIN got[x] : IdIn(got[x][i]) \in DOMAIN msgs
      BY DEF PairOK, GotOK, Iso!IsMessage
<1> QED BY <1>1, IsoIds DEF GotBelow

LEMMA SendMessageKept ==
  ASSUME ~Overlap, IsoShort, IsoInv, NEW x \in Iso!Pairs, NEW len \in Lengths[x[1]],
         Iso!SendMessage(x, len)
  PROVE  IsoInv' /\ IsoKept
<1> DEFINE id == Len(msgs) + 1
           S == [pair : Iso!Pairs, len : 1..(Iso!LenMod - 1)]
<1>1. /\ msgs' = Append(msgs, [pair |-> x, len |-> len])
      /\ starting[x[1]] = 0 /\ starting' = [starting EXCEPT ![x[1]] = id]
      /\ txq' = [txq EXCEPT ![x] = IF Iso!IsLong(len) THEN id ELSE @]
      /\ UNCHANGED <<bus, rxq, burst, got>>
      /\ ~Iso!UnderWay(x)
      BY DEF Iso!SendMessage
<1>2. /\ IsoTypes /\ (\A n \in Nodes : NodeOK(n)) /\ (\A y \in Iso!Pairs : PairOK(y))
      /\ x[1] \in Nodes /\ x[2] \in Nodes
      BY IsoPairs DEF IsoInv
<1>3. len \in 1..(Iso!LenMod - 1)
  <2>1. Lengths[x[1]] \in SUBSET (1..(2 * Iso!LenMod - 1))
        BY <1>2, IsoAssumption DEF Iso!IsoConstants
  <2>2. len \in 1..(2 * Iso!LenMod - 1)
        BY <2>1
  <2>3. len < Iso!LenMod
        BY <1>2 DEF IsoShort
  <2>4. \A m \in Nat : \A l \in 1..(2 * m - 1) : l < m => l \in 1..(m - 1)
        OBVIOUS
  <2>5. Iso!LenMod \in Nat
        BY DEF Iso!LenMod
  <2> QED BY <2>2, <2>3, <2>4, <2>5
<1>4. /\ msgs' \in Seq(S) /\ id \in Nat \ {0} /\ id \in DOMAIN msgs' /\ id \notin DOMAIN msgs
      /\ msgs'[id] = [pair |-> x, len |-> len] /\ IsoKept
  <2>1. msgs \in Seq(S) /\ [pair |-> x, len |-> len] \in S
        BY <1>2, <1>3 DEF IsoTypes
  <2> HIDE DEF S
  <2>2. /\ msgs' \in Seq(S) /\ Len(msgs) \in Nat /\ DOMAIN msgs = 1..Len(msgs)
        /\ DOMAIN msgs' = 1..id /\ msgs'[id] = [pair |-> x, len |-> len]
        /\ \A k \in DOMAIN msgs : msgs'[k] = msgs[k]
        BY <1>1, <2>1, Appended
  <2>3. \A k \in DOMAIN msgs : k \in DOMAIN msgs'
        BY <2>2
  <2> QED BY <2>2, <2>3 DEF IsoKept
<1>5. GotBelow(x, id)
      BY <1>2, GotBefore
<1> HIDE DEF id
<1>6. ~Bursts(x) /\ \A i : ~Carries(x, i) /\ ~Answers(x, i)
      BY <1>1, <1>2, IsoPairs DEF Iso!UnderWay, Bursts, Carries, Answers, IsoTypes
<1>7. IsoTypes'
      BY <1>1, <1>2, <1>4 DEF IsoTypes
<1>8. ASSUME NEW n \in Nodes PROVE NodeOK(n)'
  <2>1. NodeOK(n) /\ DOMAIN starting = Nodes
        BY <1>2 DEF IsoTypes
  <2>2. starting'[n] # 0 => starting'[n] \in DOMAIN msgs' /\ msgs'[starting'[n]].pair[1] = n
    <3>1. starting' = [starting EXCEPT ![x[1]] = id]
          BY <1>1
    <3>2. CASE n = x[1]
          BY <1>4, <2>1, <3>1, <3>2
    <3>3. CASE n # x[1]
      <4>1. starting'[n] = starting[n]
            BY <2>1, <3>1, <3>3
      <4> QED BY <1>4, <2>1, <4>1 DEF NodeOK, IsoKept
    <3> QED BY <3>2, <3>3
  <2>3. \A k, z : Of(k, z) => Of(k, z)' /\ msgs'[k] = msgs[k]
        BY <1>4 DEF Of, IsoKept
  <2> QED BY <1>1, <2>1, <2>2, <2>3 DEF NodeOK, Long, BlocksOf
<1>9. ASSUME NEW y \in Iso!Pairs, y # x PROVE PairOK(y)'
  <2>1. Starts(y)' => Starts(y) /\ starting'[y[1]] = starting[y[1]] /\ starting[y[1]] \in DOMAIN msgs
    <3>1. CASE y[1] = x[1]
          BY <1>1, <1>2, <1>4, <1>9, <3>1 DEF Starts, IsoTypes
    <3>2. CASE y[1] # x[1]
          BY <1>1, <1>2, <1>4, <3>2, IsoPairs DEF Starts, NodeOK, IsoKept, IsoTypes
    <3> QED BY <3>1, <3>2
  <2>2. txq'[y] = txq[y] /\ rxq'[y] = rxq[y] /\ got'[y] = got[y]
        BY <1>1, <1>2, <1>9 DEF IsoTypes
  <2>3. Bursts(y)' => Bursts(y) /\ burst'[y[1]] = burst[y[1]]
        BY <1>1 DEF Bursts
  <2>4. Moves(y, TRUE) /\ Moves(Iso!Back(y), FALSE)
        BY <1>1, <1>2, IsoPairs, Moving
  <2> QED BY <1>2, <1>4, <2>1, <2>2, <2>3, <2>4, PairMoved
<1>10. PairOK(x)'
  <2>1. /\ starting'[x[1]] = id /\ txq'[x] = IF Iso!IsLong(len) THEN id ELSE txq[x]
        BY <1>1, <1>2 DEF IsoTypes
  <2>2. ~Bursts(x)' /\ \A i : ~Carries(x, i)' /\ ~Answers(x, i)' /\ ~IsData(x, i)'
        BY <1>1, <1>6 DEF Bursts, Carries, Answers, IsData, IsFlow
  <2>3. TxqOK(x)'
        BY <1>2, <1>4, <2>1 DEF PairOK, TxqOK, Of, Long, IsoKept
  <2>4. StartOK(x)'
    <3>1. \A i \in DOMAIN got'[x] : IdIn(got'[x][i]) < starting'[x[1]]
          BY <1>1, <1>5, <2>1 DEF GotBelow
    <3>2. Iso!IsLong(msgs'[starting'[x[1]]].len) => txq'[x] = starting'[x[1]]
          BY <1>4, <2>1
    <3> QED BY <3>1, <3>2 DEF StartOK, GotBelow, Long
  <2>5. FramesOK(x)' /\ StagesOK(x)'
        BY <2>2 DEF FramesOK, StagesOK
  <2>6. RebuildOK(x)'
    <3> SUFFICES ASSUME NEW r, r = rxq'[x], r # Iso!None PROVE Rebuilds(x, r)'
        BY DEF RebuildOK
    <3>1. Rebuilds(x, r)
          BY <1>1, <1>2 DEF PairOK, RebuildOK
    <3> QED BY <1>4, <2>2, <3>1 DEF Rebuilds, Of, Long, IsoKept
  <2>7. GotOK(x)'
        BY <1>1, <1>2, <1>4, MessageKept DEF PairOK, GotOK
  <2> QED BY <2>3, <2>4, <2>5, <2>6, <2>7 DEF PairOK
<1> QED BY <1>4, <1>7, <1>8, <1>9, <1>10 DEF IsoInv

LEMMA OthersMoved ==
  ASSUME IsoInv, IsoKept, NEW y \in Iso!Pairs,
         starting'[y[1]] = starting[y[1]] \/ starting'[y[1]] = 0,
         burst'[y[1]] = burst[y[1]] \/ ~Bursts(y)',
         txq'[y] = txq[y], rxq'[y] = rxq[y], got'[y] = got[y],
         Moves(y, TRUE), Moves(Iso!Back(y), FALSE)
  PROVE  PairOK(y)'
<1>1. IsoTypes /\ NodeOK(y[1]) /\ PairOK(y)
      BY IsoPairs DEF IsoInv
<1>2. Starts(y)' => Starts(y) /\ starting'[y[1]] = starting[y[1]] /\ starting[y[1]] \in DOMAIN msgs
      BY <1>1 DEF Starts, NodeOK, IsoKept
<1>3. Bursts(y)' => Bursts(y) /\ burst'[y[1]] = burst[y[1]]
      BY DEF Bursts
<1> QED BY <1>1, <1>2, <1>3, PairMoved

LEMMA BusPut ==
  ASSUME IsoTypes, NEW x \in Iso!Pairs, NEW f \in IsoFrame, IsFlow(f) <=> f = Iso!FlowControl,
         bus' = [bus EXCEPT ![x] = Append(@, f)]
  PROVE  /\ bus' \in [Iso!Pairs -> Seq(IsoFrame)]
         /\ \A y \in Iso!Pairs : \A i \in DOMAIN bus'[y] : IsFlow(bus'[y][i]) <=> bus'[y][i] = Iso!FlowControl
         /\ \A y \in Iso!Pairs \ {x} : bus'[y] = bus[y]
         /\ \A y \in Iso!Pairs : /\ IsFlow(f) \/ Moves(y, FALSE)
                                 /\ y # x => Moves(y, TRUE) /\ Moves(y, FALSE)
<1> DEFINE S == IsoFrame
<1>1. bus \in [Iso!Pairs -> Seq(S)] /\ \A y \in Iso!Pairs : SeqOK(bus[y])
      BY DEF IsoTypes, SeqOK
<1> HIDE DEF S
<1>2. bus'[x] = Append(bus[x], f) /\ \A y \in Iso!Pairs \ {x} : bus'[y] = bus[y]
      BY <1>1
<1>3. \A y \in Iso!Pairs : \A s : s = bus'[y] => SeqOK(s)
  <2>1. SeqOK(bus[x]) /\ f \in IsoFrame
        BY <1>1
  <2>2. SeqOK(Append(bus[x], f))
        BY <2>1, SeqKept
  <2> QED BY <1>1, <1>2, <2>2
<1>4. /\ bus' \in [Iso!Pairs -> Seq(S)]
      /\ \A y \in Iso!Pairs : \A i \in DOMAIN bus'[y] : IsFlow(bus'[y][i]) <=> bus'[y][i] = Iso!FlowControl
  <2>1. \A y \in Iso!Pairs : bus'[y] \in Seq(S)
        BY <1>3 DEF SeqOK, S
  <2>2. bus' \in [Iso!Pairs -> Seq(S)]
        BY <1>1, <2>1
  <2> QED BY <1>3, <2>2 DEF SeqOK
<1>5. \A y \in Iso!Pairs : y # x => Moves(y, TRUE) /\ Moves(y, FALSE)
      BY <1>2, Moving
<1>6. IsFlow(f) \/ Moves(x, FALSE)
      BY <1>2, Moving
<1> QED BY <1>2, <1>4, <1>5, <1>6 DEF S

(* A frame that a step has put on bus[x] is the last there, at position m. *)
LastIs(x, f, m) ==
  /\ m \in DOMAIN bus'[x] /\ bus'[x][m] = f
  /\ \A i \in DOMAIN bus'[x] :
       i = m \/ (i \in 1..(m - 1) /\ i \in DOMAIN bus[x] /\ bus'[x][i] = bus[x][i])

LEMMA LastPut ==
  ASSUME IsoTypes, NEW x \in Iso!Pairs, NEW f \in IsoFrame, bus' = [bus EXCEPT ![x] = Append(@, f)]
  PROVE  \E m \in Nat \ {0} : LastIs(x, f, m)
<1> DEFINE S == IsoFrame
           m == Len(bus[x]) + 1
<1>1. bus \in [Iso!Pairs -> Seq(S)] /\ f \in S
      BY DEF IsoTypes
<1> HIDE DEF S
<1>2. bus'[x] = Append(bus[x], f) /\ bus[x] \in Seq(S)
      BY <1>1
<1>3. /\ m \in Nat \ {0} /\ DOMAIN bus'[x] = 1..m /\ DOMAIN bus[x] = 1..(m - 1) /\ bus'[x][m] = f
      /\ \A i \in DOMAIN bus[x] : bus'[x][i] = bus[x][i]
      BY <1>1, <1>2, Appended
<1> HIDE DEF m
<1>4. \A i \in DOMAIN bus'[x] : i = m \/ i \in 1..(m - 1)
      BY <1>3
<1>5. LastIs(x, f, m)
      BY <1>3, <1>4 DEF LastIs
<1> QED BY <1>3, <1>5

LEMMA BusTail ==
  ASSUME IsoTypes, NEW x \in Iso!Pairs, bus[x] # <<>>, bus' = [bus EXCEPT ![x] = Tail(@)]
  PROVE  /\ bus' \in [Iso!Pairs -> Seq(IsoFrame)]
         /\ \A y \in Iso!Pairs : \A i \in DOMAIN bus'[y] : IsFlow(bus'[y][i]) <=> bus'[y][i] = Iso!FlowControl
         /\ \A y \in Iso!Pairs \ {x} : bus'[y] = bus[y]
         /\ 1 \in DOMAIN bus[x] /\ Head(bus[x]) = bus[x][1] /\ bus[x][1] \in IsoFrame
         /\ \A i \in DOMAIN bus'[x] :
              i \in Nat \ {0} /\ i + 1 \in DOMAIN bus[x] /\ bus'[x][i] = bus[x][i + 1]
         /\ \A y \in Iso!Pairs : Moves(y, TRUE) /\ Moves(y, FALSE)
<1> DEFINE S == IsoFrame
<1>1. bus \in [Iso!Pairs -> Seq(S)] /\ \A y \in Iso!Pairs : SeqOK(bus[y])
      BY DEF IsoTypes, SeqOK
<1> HIDE DEF S
<1>2. bus'[x] = Tail(bus[x]) /\ \A y \in Iso!Pairs \ {x} : bus'[y] = bus[y]
      BY <1>1
<1>3. \A y \in Iso!Pairs : \A s : s = bus'[y] => SeqOK(s)
      BY <1>1, <1>2, SeqKept
<1>4. /\ bus' \in [Iso!Pairs -> Seq(S)]
      /\ \A y \in Iso!Pairs : \A i \in DOMAIN bus'[y] : IsFlow(bus'[y][i]) <=> bus'[y][i] = Iso!FlowControl
  <2>1. \A y \in Iso!Pairs : bus'[y] \in Seq(S)
        BY <1>3 DEF SeqOK, S
  <2>2. bus' \in [Iso!Pairs -> Seq(S)]
        BY <1>1, <2>1
  <2> QED BY <1>3, <2>2 DEF SeqOK
<1>5. /\ 1 \in DOMAIN bus[x] /\ Head(bus[x]) = bus[x][1] /\ bus[x][1] \in S
      /\ \A i \in DOMAIN bus'[x] :
           i \in Nat \ {0} /\ i + 1 \in DOMAIN bus[x] /\ bus'[x][i] = bus[x][i + 1]
  <2>1. PICK s \in Seq(S) : s = bus[x] /\ s # <<>>
        BY <1>1
  <2>2. /\ 1 \in DOMAIN s /\ Head(s) = s[1] /\ Head(s) \in S
        /\ \A i \in DOMAIN Tail(s) :
             i \in Nat \ {0} /\ i + 1 \in DOMAIN s /\ Tail(s)[i] = s[i + 1]
        BY <2>1, Tailed
  <2> QED BY <1>2, <2>1, <2>2
<1>6. \A y \in Iso!Pairs : Moves(y, TRUE) /\ Moves(y, FALSE)
      BY <1>2, Moving
<1> QED BY <1>2, <1>4, <1>5, <1>6 DEF S

LEMMA SendFirstKept ==
  ASSUME IsoInv, NEW n \in Nodes, Iso!SendFirst(n)
  PROVE  IsoInv' /\ IsoKept
<1>1. PICK id : id = starting[n]
      OBVIOUS
<1>2. PICK x : x = msgs[id].pair
      OBVIOUS
<1>3. PICK f : f = IF Long(id) THEN Iso!Frame("first", id, msgs[id].len % Iso!LenMod)
                               ELSE Iso!Frame("single", id, msgs[id].len)
      OBVIOUS
<1>4. /\ id # 0 /\ bus' = [bus EXCEPT ![x] = Append(@, f)]
      /\ starting' = [starting EXCEPT ![n] = 0]
      /\ UNCHANGED <<msgs, txq, rxq, burst, got>>
      BY <1>1, <1>2, <1>3 DEF Iso!SendFirst, Iso!Put, Long
<1>5. /\ IsoTypes /\ (\A m \in Nodes : NodeOK(m)) /\ (\A y \in Iso!Pairs : PairOK(y))
      BY DEF IsoInv
<1>6. /\ id \in DOMAIN msgs /\ x \in Iso!Pairs /\ x[1] = n /\ id \in Nat \ {0}
      /\ msgs[id].len \in 1..(Iso!LenMod - 1)
      BY <1>1, <1>2, <1>4, <1>5, IsoIds DEF NodeOK
<1>7. Starts(x) /\ PairOK(x) /\ IsoKept
      BY <1>1, <1>2, <1>4, <1>5, <1>6 DEF Starts, IsoKept
<1>8. /\ f = [kind |-> IF Long(id) THEN "first" ELSE "single", id |-> id, n |-> msgs[id].len]
      /\ f \in IsoFrame /\ f.id = id /\ ~IsFlow(f) /\ f # Iso!FlowControl /\ f.kind # "consecutive"
  <2>1. msgs[id].len % Iso!LenMod = msgs[id].len /\ msgs[id].len \in Nat
        BY <1>6, IsoLength
  <2>2. f = [kind |-> IF Long(id) THEN "first" ELSE "single", id |-> id, n |-> msgs[id].len]
        BY <1>3, <2>1 DEF Iso!Frame
  <2> QED BY <1>6, <2>1, <2>2 DEF IsoFrame, IsFlow, Iso!FlowControl
<1>9. FrameOK(x, f)
  <2>1. Long(id) => txq[x] = id
        BY <1>1, <1>6, <1>7 DEF PairOK, StartOK, Long
  <2>2. Of(f.id, x)
        BY <1>2, <1>6, <1>8 DEF Of
  <2> QED BY <1>8, <2>1, <2>2 DEF FrameOK
<1>10. IsoTypes'
       BY <1>4, <1>5, <1>6, <1>8, BusPut DEF IsoTypes
<1>11. ASSUME NEW m \in Nodes PROVE NodeOK(m)'
       BY <1>4, <1>5, <1>11 DEF NodeOK, Of, Long, BlocksOf, IsoTypes
<1>12. ASSUME NEW y \in Iso!Pairs, y # x PROVE PairOK(y)'
  <2>1. starting'[y[1]] = starting[y[1]] \/ starting'[y[1]] = 0
        BY <1>4, <1>5 DEF IsoTypes
  <2>2. Moves(y, TRUE) /\ Moves(Iso!Back(y), FALSE)
        BY <1>4, <1>5, <1>6, <1>8, <1>12, IsoPairs, BusPut
  <2> QED BY <1>4, <1>7, <2>1, <2>2, OthersMoved
<1>13. PairOK(x)'
  <2>1. /\ ~Bursts(x) /\ (\A i : ~Carries(x, i) /\ ~Answers(x, i)) /\ GotBelow(x, id)
        BY <1>1, <1>6, <1>7 DEF PairOK, StagesOK, StartOK
  <2>2. PICK m \in Nat \ {0} : LastIs(x, f, m)
    <3>1. IsoTypes /\ x \in Iso!Pairs /\ f \in IsoFrame /\ bus' = [bus EXCEPT ![x] = Append(@, f)]
          BY <1>4, <1>5, <1>6, <1>8
    <3> QED BY <3>1, LastPut, Zenon
  <2>3. /\ \A i : Carries(x, i)' => i = m
        /\ \A i : ~IsData(x, i)'
        BY <1>8, <2>1, <2>2 DEF LastIs, Carries, IsData, IsFlow
  <2>4. ~Starts(x)' /\ ~Bursts(x)' /\ \A i : ~Answers(x, i)'
    <3>1. bus'[Iso!Back(x)] = bus[Iso!Back(x)]
          BY <1>4, <1>5, <1>6, <1>8, IsoPairs, BusPut
    <3>2. starting'[x[1]] = 0
          BY <1>4, <1>5, <1>6 DEF IsoTypes
    <3> QED BY <1>4, <2>1, <3>1, <3>2 DEF Starts, Bursts, Answers
  <2>5. TxqOK(x)' /\ StartOK(x)'
        BY <1>4, <1>7, <2>4 DEF PairOK, TxqOK, StartOK, Of, Long
  <2>6. FramesOK(x)'
    <3> SUFFICES ASSUME NEW i, NEW g, Carries(x, i)', g = bus'[x][i]
                 PROVE  FrameOK(x, g)' /\ GotBelow(x, g.id)'
        BY DEF FramesOK
    <3>1. g = f
          BY <2>2, <2>3 DEF LastIs
    <3>2. FrameOK(x, f)'
          BY <1>4, <1>9 DEF FrameOK, Of, Long, BlocksOf
    <3> QED BY <1>4, <1>8, <2>1, <3>1, <3>2 DEF GotBelow
  <2>7. StagesOK(x)'
        BY <2>3, <2>4 DEF StagesOK
  <2>8. RebuildOK(x)'
    <3> SUFFICES ASSUME NEW r, r = rxq'[x], r # Iso!None PROVE Rebuilds(x, r)'
        BY DEF RebuildOK
    <3>1. Rebuilds(x, r)
          BY <1>4, <1>7 DEF PairOK, RebuildOK
    <3> QED BY <1>4, <2>3, <2>4, <3>1 DEF Rebuilds, Of, Long
  <2>9. GotOK(x)'
        BY <1>4, <1>7, MessageKept DEF PairOK, GotOK
  <2> QED BY <2>5, <2>6, <2>7, <2>8, <2>9 DEF PairOK
<1> QED BY <1>7, <1>10, <1>11, <1>12, <1>13 DEF IsoInv

(* What a step that leaves the messages, and those passed up, alone does not change. *)
LEMMA StillOK ==
  ASSUME NEW x \in Iso!Pairs, UNCHANGED <<msgs, got>>
  PROVE  /\ IsoKept
         /\ \A m : GotBelow(x, m)' <=> GotBelow(x, m)
         /\ GotOK(x) => GotOK(x)'
         /\ \A r : /\ Of(r, x)' <=> Of(r, x)
                   /\ Long(r)' <=> Long(r)
                   /\ BlocksOf(r)' = BlocksOf(r)
<1>1. IsoKept
      BY DEF IsoKept
<1>2. GotOK(x) => GotOK(x)'
      BY <1>1, MessageKept DEF GotOK
<1> QED BY <1>1, <1>2 DEF GotBelow, Of, Long, BlocksOf

LEMMA SendConsecutiveKept ==
  ASSUME Priority = 1, IsoInv, NEW n \in Nodes, Iso!SendConsecutive(n)
  PROVE  IsoInv'
<1>1. PICK u : u = burst[n]
      OBVIOUS
<1>2. PICK x : x = <<n, u.to>>
      OBVIOUS
<1>3. PICK f : f = Iso!Frame("consecutive", u.id, u.n)
      OBVIOUS
<1>4. /\ u # Iso!NoBurst /\ u.n <= BlocksOf(u.id) /\ bus' = [bus EXCEPT ![x] = Append(@, f)]
      /\ burst' = [burst EXCEPT ![n].n = @ + 1]
      /\ UNCHANGED <<msgs, starting, txq, rxq, got>>
  <2>1. Iso!AnswersLeave
        BY DEF Iso!AnswersLeave
  <2>2. Iso!Put(<<n, burst[n].to>>, Iso!Frame("consecutive", burst[n].id, burst[n].n))
        BY <2>1, Zenon DEF Iso!SendConsecutive
  <2> QED BY <1>1, <1>2, <1>3, <2>2 DEF Iso!SendConsecutive, Iso!Put, BlocksOf
<1>5. /\ IsoTypes /\ (\A m \in Nodes : NodeOK(m)) /\ (\A y \in Iso!Pairs : PairOK(y))
      BY DEF IsoInv
<1>6. /\ u = [id |-> u.id, to |-> u.to, n |-> u.n] /\ Of(u.id, x) /\ Long(u.id)
      /\ u.n \in 1..(BlocksOf(u.id) + 1)
      BY <1>1, <1>2, <1>4, <1>5 DEF NodeOK
<1>7. /\ x \in Iso!Pairs /\ x[1] = n /\ x[2] = u.to /\ PairOK(x) /\ Bursts(x)
  <2>1. x \in Iso!Pairs
        BY <1>5, <1>6, IsoIds DEF Of
  <2>2. x[1] = n /\ x[2] = u.to
        BY <1>2
  <2> QED BY <1>1, <1>4, <1>5, <2>1, <2>2 DEF Bursts
<1>8. /\ BlocksOf(u.id) \in Nat /\ u.n \in 1..BlocksOf(u.id) /\ u.id \in Nat /\ u.n \in Nat
  <2>1. msgs[u.id].len \in 1..(Iso!LenMod - 1) /\ u.id \in Nat
        BY <1>5, <1>6, IsoIds DEF Of
  <2>2. BlocksOf(u.id) \in Nat
        BY <2>1, IsoLength DEF BlocksOf
  <2> QED BY <1>4, <1>6, <2>1, <2>2
<1>9. /\ f = [kind |-> "consecutive", id |-> u.id, n |-> u.n]
      /\ f \in IsoFrame /\ ~IsFlow(f) /\ f # Iso!FlowControl
      BY <1>3, <1>8 DEF Iso!Frame, IsoFrame, IsFlow, Iso!FlowControl
<1>10. /\ burst'[n] = [id |-> u.id, to |-> u.to, n |-> u.n + 1] /\ burst'[n] # Iso!NoBurst
       /\ DOMAIN burst' = Nodes /\ \A m \in Nodes : m # n => burst'[m] = burst[m]
  <2>1. burst'[n] = [u EXCEPT !.n = @ + 1] /\ DOMAIN burst' = Nodes
        BY <1>1, <1>4, <1>5 DEF IsoTypes
  <2>2. burst'[n] = [id |-> u.id, to |-> u.to, n |-> u.n + 1]
        BY <1>6, <2>1
  <2>3. burst'[n] # Iso!NoBurst
        BY <1>8, <2>2 DEF Iso!NoBurst
  <2> QED BY <1>4, <1>5, <2>1, <2>2, <2>3 DEF IsoTypes
<1>11. IsoTypes'
       BY <1>4, <1>5, <1>7, <1>9, <1>10, BusPut DEF IsoTypes
<1>12. ASSUME NEW m \in Nodes PROVE NodeOK(m)'
  <2>1. CASE m # n
        BY <1>4, <1>5, <1>10, <2>1 DEF NodeOK, Of, Long, BlocksOf
  <2>2. CASE m = n
    <3>1. Of(u.id, x)' /\ Long(u.id)' /\ BlocksOf(u.id)' = BlocksOf(u.id)
          BY <1>4, <1>6 DEF Of, Long, BlocksOf
    <3>2. u.n + 1 \in 1..(BlocksOf(u.id) + 1)
          BY <1>8
    <3>3. starting'[m] # 0 => starting'[m] \in DOMAIN msgs' /\ msgs'[starting'[m]].pair[1] = m
          BY <1>4, <1>5, <2>2 DEF NodeOK
    <3> QED BY <1>2, <1>10, <2>2, <3>1, <3>2, <3>3 DEF NodeOK
  <2> QED BY <2>1, <2>2
<1>13. ASSUME NEW y \in Iso!Pairs, y # x PROVE PairOK(y)'
  <2>1. burst'[y[1]] = burst[y[1]] \/ ~Bursts(y)'
        BY <1>7, <1>10, <1>13, IsoPairs DEF Bursts
  <2>2. Moves(y, TRUE) /\ Moves(Iso!Back(y), FALSE)
        BY <1>4, <1>5, <1>7, <1>9, <1>13, IsoPairs, BusPut
  <2> QED BY <1>4, <2>1, <2>2, OthersMoved, StillOK
<1>14. PairOK(x)'
  <2>1. PICK m \in Nat \ {0} : LastIs(x, f, m)
    <3>1. IsoTypes /\ x \in Iso!Pairs /\ f \in IsoFrame /\ bus' = [bus EXCEPT ![x] = Append(@, f)]
          BY <1>4, <1>5, <1>7, <1>9
    <3> QED BY <3>1, LastPut, Zenon
  <2>2. /\ ~Starts(x) /\ (\A i : Carries(x, i) => IsData(x, i)) /\ \A i : ~Answers(x, i)
        /\ \A i, j : IsData(x, i) /\ IsData(x, j) /\ i < j => bus[x][i].n < bus[x][j].n
        /\ \A i : IsData(x, i) => bus[x][i].n < u.n
        BY <1>1, <1>7 DEF PairOK, StagesOK
  <2>3. ~Starts(x)' /\ \A i : ~Answers(x, i)'
    <3>1. bus'[Iso!Back(x)] = bus[Iso!Back(x)]
          BY <1>4, <1>5, <1>7, <1>9, IsoPairs, BusPut
    <3> QED BY <1>4, <2>2, <3>1 DEF Starts, Answers
  <2>4. \A i : Carries(x, i)' =>
          /\ IsData(x, i)' /\ i \in 1..m
          /\ \/ i = m /\ bus'[x][i] = f
             \/ i < m /\ IsData(x, i) /\ bus'[x][i] = bus[x][i]
        BY <1>9, <2>1, <2>2 DEF LastIs, Carries, IsData
  <2>5. \A i : IsData(x, i)' => Carries(x, i)'
        BY DEF Carries, IsData, IsFlow
  <2>6. TxqOK(x)' /\ StartOK(x)' /\ GotOK(x)'
        BY <1>4, <1>7, <2>3, StillOK DEF PairOK, TxqOK, StartOK
  <2>7. FramesOK(x)'
    <3> SUFFICES ASSUME NEW i, NEW g, Carries(x, i)', g = bus'[x][i]
                 PROVE  FrameOK(x, g)' /\ (g.kind # "consecutive" => GotBelow(x, g.id)')
        BY DEF FramesOK
    <3>1. FrameOK(x, g) /\ g.kind = "consecutive"
      <4>1. CASE g = f
            BY <1>6, <1>8, <1>9, <4>1 DEF FrameOK
      <4>2. CASE IsData(x, i) /\ g = bus[x][i]
            BY <1>7, <4>2 DEF PairOK, FramesOK, IsData, Carries, IsFlow
      <4> QED BY <2>4, <4>1, <4>2
    <3> QED BY <1>4, <3>1 DEF FrameOK, Of, Long, BlocksOf
  <2>8. StagesOK(x)'
    <3>1. ASSUME NEW i, NEW j, IsData(x, i)', IsData(x, j)', i < j PROVE bus'[x][i].n < bus'[x][j].n
      <4>1. i \in 1..m /\ j \in 1..m /\ i # m
            BY <2>4, <2>5, <3>1
      <4>2. IsData(x, i) /\ bus'[x][i] = bus[x][i]
            BY <2>4, <2>5, <3>1, <4>1
      <4> QED BY <1>9, <2>2, <2>4, <2>5, <3>1, <4>2
    <3>2. ASSUME NEW i, IsData(x, i)' PROVE bus'[x][i].n < burst'[x[1]].n
      <4>1. bus'[x][i] = f \/ (IsData(x, i) /\ bus'[x][i] = bus[x][i])
            BY <2>4, <2>5, <3>2
      <4>2. burst'[x[1]].n = u.n + 1
            BY <1>7, <1>10
      <4>3. CASE bus'[x][i] = f
            BY <1>8, <1>9, <4>2, <4>3
      <4>4. CASE IsData(x, i) /\ bus'[x][i] = bus[x][i]
        <5>1. bus[x][i].n < u.n /\ bus[x][i].n \in Nat
              BY <1>5, <1>7, <2>2, <4>4 DEF PairOK, FramesOK, FrameOK, IsData, Carries, IsFlow
        <5> QED BY <1>8, <4>2, <4>4, <5>1
      <4> QED BY <4>1, <4>3, <4>4
    <3> QED BY <2>3, <2>4, <3>1, <3>2 DEF StagesOK
  <2>9. RebuildOK(x)'
    <3> SUFFICES ASSUME NEW r, r = rxq'[x], r # Iso!None PROVE Rebuilds(x, r)'
        BY DEF RebuildOK
    <3>1. Rebuilds(x, r)
          BY <1>4, <1>7 DEF PairOK, RebuildOK
    <3>2. u.id = r.first /\ Ready(r, u.n) /\ GotBelow(x, r.first)
          BY <1>1, <1>7, <3>1 DEF Rebuilds
    <3>3. Ready(r, u.n + 1)
      <4>1. /\ r.slots \in Seq(Nat \X Nat) /\ u.n \in Nat /\ u.n + 1 \in Nat
            /\ u.n <= u.n + 1 /\ u.n # 0
            BY <1>8, <3>1 DEF Rebuilds
      <4> QED BY ONLY <3>2, <4>1, ReadyLater
    <3>4. burst'[x[1]].id = r.first /\ burst'[x[1]].n = u.n + 1
          BY <1>7, <1>10, <3>2
    <3>5. \A m0 : m0 = burst'[x[1]].n => Ready(r, m0)
          BY <3>3, <3>4
    <3>6. GotBelow(x, r.first)'
          BY <1>4, <3>2 DEF GotBelow
    <3>7. \A i : IsData(x, i)' => bus'[x][i].id = r.first /\ Ready(r, bus'[x][i].n)
      <4> SUFFICES ASSUME NEW i, IsData(x, i)' PROVE bus'[x][i].id = r.first /\ Ready(r, bus'[x][i].n)
          OBVIOUS
      <4>1. bus'[x][i] = f \/ (IsData(x, i) /\ bus'[x][i] = bus[x][i])
            BY <2>4, <2>5
      <4> QED BY <1>9, <3>1, <3>2, <4>1 DEF Rebuilds
    <3> QED BY <1>4, <2>3, <3>1, <3>4, <3>5, <3>6, <3>7 DEF Rebuilds, Of, Long
  <2> QED BY <2>6, <2>7, <2>8, <2>9 DEF PairOK
<1> QED BY <1>11, <1>12, <1>13, <1>14 DEF IsoInv

LEMMA SendDoneKept ==
  ASSUME IsoInv, NEW n \in Nodes, Iso!SendDone(n)
  PROVE  IsoInv'
<1>1. PICK u : u = burst[n]
      OBVIOUS
<1>2. PICK x : x = <<n, u.to>>
      OBVIOUS
<1>4. /\ u # Iso!NoBurst /\ txq' = [txq EXCEPT ![x] = 0]
      /\ burst' = [burst EXCEPT ![n] = Iso!NoBurst]
      /\ UNCHANGED <<msgs, bus, starting, rxq, got>>
      BY <1>1, <1>2 DEF Iso!SendDone
<1>5. /\ IsoTypes /\ (\A m \in Nodes : NodeOK(m)) /\ (\A y \in Iso!Pairs : PairOK(y))
      BY DEF IsoInv
<1>6. Of(u.id, x)
      BY <1>1, <1>2, <1>4, <1>5 DEF NodeOK
<1>7. /\ x \in Iso!Pairs /\ x[1] = n /\ x[2] = u.to /\ PairOK(x) /\ Bursts(x)
  <2>1. x \in Iso!Pairs
        BY <1>5, <1>6, IsoIds DEF Of
  <2>2. x[1] = n /\ x[2] = u.to
        BY <1>2
  <2> QED BY <1>1, <1>4, <1>5, <2>1, <2>2 DEF Bursts
<1>8. /\ burst'[n] = Iso!NoBurst /\ DOMAIN burst' = Nodes
      /\ \A m \in Nodes : m # n => burst'[m] = burst[m]
      /\ txq'[x] = 0 /\ \A y \in Iso!Pairs : y # x => txq'[y] = txq[y]
      BY <1>4, <1>5, <1>7 DEF IsoTypes
<1>9. IsoTypes'
      BY <1>4, <1>5, <1>8 DEF IsoTypes
<1>10. ASSUME NEW m \in Nodes PROVE NodeOK(m)'
       BY <1>4, <1>5, <1>8 DEF NodeOK, Of, Long, BlocksOf
<1>11. ASSUME NEW y \in Iso!Pairs, y # x PROVE PairOK(y)'
  <2>1. burst'[y[1]] = burst[y[1]] \/ ~Bursts(y)'
        BY <1>8, IsoPairs DEF Bursts
  <2>2. Moves(y, TRUE) /\ Moves(Iso!Back(y), FALSE)
        BY <1>4, <1>5, IsoPairs, Moving
  <2> QED BY <1>4, <1>8, <1>11, <2>1, <2>2, OthersMoved, StillOK
<1>12. PairOK(x)'
  <2>1. /\ ~Starts(x) /\ (\A i : Carries(x, i) => IsData(x, i)) /\ \A i : ~Answers(x, i)
        /\ \A i, j : IsData(x, i) /\ IsData(x, j) /\ i < j => bus[x][i].n < bus[x][j].n
        BY <1>7 DEF PairOK, StagesOK
  <2>2. /\ ~Starts(x)' /\ ~Bursts(x)' /\ \A i : ~Answers(x, i)'
        /\ \A i : (Carries(x, i)' <=> Carries(x, i)) /\ (IsData(x, i)' <=> IsData(x, i))
        BY <1>4, <1>7, <1>8, <2>1 DEF Starts, Bursts, Answers, Carries, IsData
  <2>3. TxqOK(x)' /\ StartOK(x)' /\ GotOK(x)'
        BY <1>4, <1>7, <1>8, <2>2, StillOK DEF PairOK, TxqOK, StartOK
  <2>4. FramesOK(x)'
    <3> SUFFICES ASSUME NEW i, NEW g, Carries(x, i)', g = bus'[x][i]
                 PROVE  FrameOK(x, g)' /\ (g.kind # "consecutive" => GotBelow(x, g.id)')
        BY DEF FramesOK
    <3>1. FrameOK(x, g) /\ g.kind = "consecutive"
          BY <1>4, <1>7, <2>1, <2>2 DEF PairOK, FramesOK, IsData
    <3> QED BY <1>4, <3>1 DEF FrameOK, Of, Long, BlocksOf
  <2>5. StagesOK(x)'
        BY <1>4, <2>1, <2>2 DEF StagesOK
  <2>6. RebuildOK(x)'
    <3> SUFFICES ASSUME NEW r, r = rxq'[x], r # Iso!None PROVE Rebuilds(x, r)'
        BY DEF RebuildOK
    <3>1. Rebuilds(x, r)
          BY <1>4, <1>7 DEF PairOK, RebuildOK
    <3>2. \A i : IsData(x, i)' =>
            bus'[x][i].id = r.first /\ Ready(r, bus'[x][i].n) /\ GotBelow(x, r.first)'
          BY <1>4, <2>2, <3>1 DEF Rebuilds, GotBelow
    <3> QED BY <1>4, <2>2, <3>1, <3>2 DEF Rebuilds, Of, Long
  <2> QED BY <2>3, <2>4, <2>5, <2>6 DEF PairOK
<1> QED BY <1>9, <1>10, <1>11, <1>12 DEF IsoInv

LEMMA LoseKept ==
  ASSUME IsoInv, NEW x \in Iso!Pairs, Iso!Lose(x)
  PROVE  IsoInv'
<1>1. /\ bus[x] # <<>> /\ bus' = [bus EXCEPT ![x] = Tail(@)]
      /\ UNCHANGED <<msgs, starting, txq, rxq, burst, got>>
      BY DEF Iso!Lose
<1>2. IsoTypes /\ \A m \in Nodes : NodeOK(m)
      BY DEF IsoInv
<1>3. IsoTypes'
      BY <1>1, <1>2, BusTail DEF IsoTypes
<1>4. \A m \in Nodes : NodeOK(m)'
      BY <1>1, <1>2 DEF NodeOK, Of, Long, BlocksOf
<1>5. ASSUME NEW y \in Iso!Pairs PROVE PairOK(y)'
  <2>1. Moves(y, TRUE) /\ Moves(Iso!Back(y), FALSE)
        BY <1>1, <1>2, IsoPairs, BusTail
  <2> QED BY <1>1, <2>1, OthersMoved, StillOK
<1> QED BY <1>3, <1>4, <1>5 DEF IsoInv

LEMMA ReceiveFlowKept ==
  ASSUME IsoInv, NEW x \in Iso!Pairs, Iso!ReceiveFlow(x)
  PROVE  IsoInv'
<1>1. PICK y : y = Iso!Back(x)
      OBVIOUS
<1>2. /\ burst[x[2]] = Iso!NoBurst /\ bus[x] # <<>> /\ Head(bus[x]).kind = "flow"
      /\ burst' = IF txq[y] = 0 THEN burst
                  ELSE [burst EXCEPT ![x[2]] = [id |-> txq[y], to |-> x[1], n |-> 1]]
      /\ bus' = [bus EXCEPT ![x] = Tail(@)]
      /\ UNCHANGED <<msgs, starting, txq, rxq, got>>
      BY <1>1 DEF Iso!ReceiveFlow, Iso!Incoming
<1>3. /\ IsoTypes /\ (\A m \in Nodes : NodeOK(m)) /\ PairOK(y)
      /\ y \in Iso!Pairs /\ Iso!Back(y) = x /\ y[1] = x[2] /\ y[2] = x[1] /\ y # x
      /\ x[1] \in Nodes /\ x[2] \in Nodes /\ y = <<x[2], x[1]>>
      BY <1>1, IsoPairs DEF IsoInv, Iso!Back
<1>4. /\ 1 \in DOMAIN bus[x] /\ Head(bus[x]) = bus[x][1]
      /\ \A i \in DOMAIN bus'[x] : i \in Nat \ {0} /\ i + 1 \in DOMAIN bus[x] /\ bus'[x][i] = bus[x][i + 1]
      /\ \A z \in Iso!Pairs \ {x} : bus'[z] = bus[z]
      /\ \A z \in Iso!Pairs : Moves(z, TRUE) /\ Moves(z, FALSE)
      BY <1>2, <1>3, BusTail
<1>5. DOMAIN burst' = Nodes /\ \A m \in Nodes : m # x[2] => burst'[m] = burst[m]
      BY <1>2, <1>3 DEF IsoTypes
<1>6. IsoTypes'
  <2>1. /\ bus' \in [Iso!Pairs -> Seq(IsoFrame)]
        /\ \A z \in Iso!Pairs : \A i \in DOMAIN bus'[z] : IsFlow(bus'[z][i]) <=> bus'[z][i] = Iso!FlowControl
        BY <1>2, <1>3, BusTail
  <2> QED BY <1>2, <1>3, <1>5, <2>1 DEF IsoTypes
<1>7. CASE txq[y] = 0
  <2>1. UNCHANGED burst
        BY <1>2, <1>7
  <2>2. \A m \in Nodes : NodeOK(m)'
        BY <1>2, <1>3, <2>1 DEF NodeOK, Of, Long, BlocksOf
  <2>3. ASSUME NEW z \in Iso!Pairs PROVE PairOK(z)'
        BY <1>2, <1>4, <2>1, OthersMoved, StillOK, IsoPairs
  <2> QED BY <1>6, <2>2, <2>3 DEF IsoInv
<1>8. CASE txq[y] # 0
  <2>1. burst'[x[2]] = [id |-> txq[y], to |-> x[1], n |-> 1] /\ Of(txq[y], y) /\ Long(txq[y])
        BY <1>2, <1>3, <1>8 DEF IsoTypes, PairOK, TxqOK
  <2>2. BlocksOf(txq[y]) \in Nat
        BY <1>3, <2>1, IsoIds, IsoLength DEF Of, BlocksOf
  <2>3. ASSUME NEW m \in Nodes PROVE NodeOK(m)'
    <3>1. CASE m # x[2]
          BY <1>2, <1>3, <1>5, <3>1 DEF NodeOK, Of, Long, BlocksOf
    <3>2. CASE m = x[2]
      <4>1. Of(txq[y], y)' /\ Long(txq[y])' /\ 1 \in 1..(BlocksOf(txq[y])' + 1)
            BY <1>2, <2>1, <2>2 DEF Of, Long, BlocksOf
      <4>2. starting'[m] # 0 => starting'[m] \in DOMAIN msgs' /\ msgs'[starting'[m]].pair[1] = m
            BY <1>2, <1>3 DEF NodeOK
      <4> QED BY <1>2, <1>3, <2>1, <3>2, <4>1, <4>2 DEF NodeOK
    <3> QED BY <3>1, <3>2
  <2>4. ASSUME NEW z \in Iso!Pairs, z # y PROVE PairOK(z)'
    <3>1. burst'[z[1]] = burst[z[1]] \/ ~Bursts(z)'
          BY <1>3, <1>5, <2>1, <2>4, IsoPairs DEF Bursts
    <3> QED BY <1>2, <1>4, <3>1, OthersMoved, StillOK, IsoPairs
  <2>5. PairOK(y)'
    <3>1. Answers(y, 1)
          BY <1>2, <1>3, <1>4 DEF Answers, IsFlow
    <3>2. /\ ~Starts(y) /\ (\A i : ~Carries(y, i)) /\ \A i : Answers(y, i) => i = 1
          BY <1>3, <3>1 DEF PairOK, StagesOK
    <3>3. /\ ~Starts(y)' /\ (\A i : ~Carries(y, i)' /\ ~IsData(y, i)') /\ \A i : ~Answers(y, i)'
      <4>1. ~Starts(y)' /\ \A i : ~Carries(y, i)' /\ ~IsData(y, i)'
            BY <1>2, <1>3, <1>4, <3>2 DEF Starts, Carries, IsData, IsFlow
      <4>2. \A i : Answers(y, i)' => i \in Nat \ {0} /\ Answers(y, i + 1)
            BY <1>3, <1>4 DEF Answers
      <4>3. \A i \in Nat \ {0} : i + 1 # 1
            OBVIOUS
      <4> QED BY <3>2, <4>1, <4>2, <4>3
    <3>4. TxqOK(y)' /\ StartOK(y)' /\ FramesOK(y)' /\ StagesOK(y)' /\ GotOK(y)'
          BY <1>2, <1>3, <3>3, StillOK DEF PairOK, TxqOK, StartOK, FramesOK, StagesOK
    <3>5. RebuildOK(y)'
      <4> SUFFICES ASSUME NEW r, r = rxq'[y], r # Iso!None PROVE Rebuilds(y, r)'
          BY DEF RebuildOK
      <4>1. Rebuilds(y, r)
            BY <1>2, <1>3 DEF PairOK, RebuildOK
      <4>2. txq[y] = r.first /\ Ready(r, 1) /\ GotBelow(y, r.first)
            BY <3>1, <4>1 DEF Rebuilds
      <4>3. burst'[y[1]].id = r.first /\ burst'[y[1]].n = 1
            BY <1>3, <2>1, <4>2
      <4>4. \A m : m = burst'[y[1]].n => Ready(r, m)
            BY <4>2, <4>3
      <4>5. GotBelow(y, r.first)'
            BY <1>2, <4>2 DEF GotBelow
      <4> QED BY <1>2, <3>3, <4>1, <4>3, <4>4, <4>5 DEF Rebuilds, Of, Long
    <3> QED BY <3>4, <3>5 DEF PairOK
  <2> QED BY <1>6, <2>3, <2>4, <2>5 DEF IsoInv
<1> QED BY <1>7, <1>8

(* A message passed up. *)
LEMMA GotOne ==
  ASSUME IsoTypes, NEW x \in Iso!Pairs, GotOK(x), UNCHANGED msgs,
         NEW g \in [len : Nat, parts : Seq(Nat \X Nat)], Iso!IsMessage(x, g, IdIn(g)),
         got' = [got EXCEPT ![x] = Append(@, g)]
  PROVE  /\ got' \in [Iso!Pairs -> Seq([len : Nat, parts : Seq(Nat \X Nat)])]
         /\ \A y \in Iso!Pairs \ {x} : got'[y] = got[y]
         /\ got'[x] = Append(got[x], g) /\ GotOK(x)'
<1> DEFINE S == [len : Nat, parts : Seq(Nat \X Nat)]
<1>1. got \in [Iso!Pairs -> Seq(S)] /\ g \in S
      BY DEF IsoTypes
<1> HIDE DEF S
<1>2. got'[x] = Append(got[x], g) /\ \A y \in Iso!Pairs \ {x} : got'[y] = got[y]
      BY <1>1
<1>3. got' \in [Iso!Pairs -> Seq(S)]
      BY <1>1
<1>4. \A i \in DOMAIN got'[x] : got'[x][i] = g \/ (i \in DOMAIN got[x] /\ got'[x][i] = got[x][i])
  <2>1. PICK t \in Seq(S) : t = got[x]
        BY <1>1
  <2>2. \A i \in DOMAIN Append(t, g) :
          Append(t, g)[i] = g \/ (i \in DOMAIN t /\ Append(t, g)[i] = t[i])
    <3>1. /\ Len(t) \in Nat /\ DOMAIN t = 1..Len(t) /\ DOMAIN Append(t, g) = 1..(Len(t) + 1)
          /\ Append(t, g)[Len(t) + 1] = g /\ \A i \in DOMAIN t : Append(t, g)[i] = t[i]
          BY <1>1, Appended
    <3>2. \A i \in 1..(Len(t) + 1) : i = Len(t) + 1 \/ i \in 1..Len(t)
          BY <3>1
    <3> QED BY <3>1, <3>2
  <2> QED BY <1>2, <2>1, <2>2
<1>5. \A h : Iso!IsMessage(x, h, IdIn(h)) => Iso!IsMessage(x, h, IdIn(h))'
      BY MessageKept DEF IsoKept, IdIn
<1>6. GotOK(x)'
      BY <1>4, <1>5 DEF GotOK
<1> QED BY <1>2, <1>3, <1>6 DEF S

LEMMA ReceiveSingleKept ==
  ASSUME IsoInv, NEW x \in Iso!Pairs, Iso!ReceiveSingle(x)
  PROVE  /\ IsoInv'
         /\ \E id \in DOMAIN msgs : \E g :
              /\ got' = [got EXCEPT ![x] = Append(@, g)] /\ Iso!IsMessage(x, g, id)
              /\ IdIn(g) = id /\ GotBelow(x, id)
<1>1. PICK f : f = Head(bus[x])
      OBVIOUS
<1>2. PICK g : g = [len |-> f.n, parts |-> <<Iso!Part(f.id, 0)>>]
      OBVIOUS
<1>3. /\ bus[x] # <<>> /\ f.kind = "single"
      /\ got' = [got EXCEPT ![x] = Append(@, g)] /\ bus' = [bus EXCEPT ![x] = Tail(@)]
      /\ UNCHANGED <<msgs, starting, txq, rxq, burst>>
      BY <1>1, <1>2 DEF Iso!ReceiveSingle, Iso!Incoming, Iso!PassUp
<1>4. IsoTypes /\ (\A m \in Nodes : NodeOK(m)) /\ PairOK(x)
      BY DEF IsoInv
<1>5. /\ 1 \in DOMAIN bus[x] /\ f = bus[x][1]
      /\ \A i \in DOMAIN bus'[x] : i \in Nat \ {0} /\ i + 1 \in DOMAIN bus[x] /\ bus'[x][i] = bus[x][i + 1]
      /\ \A z \in Iso!Pairs \ {x} : bus'[z] = bus[z]
      /\ \A z \in Iso!Pairs : Moves(z, TRUE) /\ Moves(z, FALSE)
      BY <1>1, <1>3, <1>4, BusTail
<1>6. Carries(x, 1) /\ ~IsData(x, 1)
      BY <1>3, <1>5 DEF Carries, IsData, IsFlow
<1>7. FrameOK(x, f) /\ GotBelow(x, f.id)
      BY <1>3, <1>4, <1>5, <1>6 DEF PairOK, FramesOK
<1>8. /\ f.id \in DOMAIN msgs /\ msgs[f.id].pair = x /\ f.n = msgs[f.id].len /\ ~Long(f.id)
      /\ f.id \in Nat /\ f.n \in Nat
      BY <1>3, <1>4, <1>7, IsoIds DEF FrameOK, Of
<1>9. /\ Iso!IsMessage(x, g, f.id) /\ IdIn(g) = f.id /\ g \in [len : Nat, parts : Seq(Nat \X Nat)]
  <2>1. g.len = msgs[f.id].len /\ g.parts = Iso!PartsOf(f.id)
        BY <1>2, <1>8 DEF Iso!PartsOf, Long
  <2>2. Iso!Part(f.id, 0) \in Nat \X Nat /\ Iso!Part(f.id, 0)[1] = f.id
        BY <1>8 DEF Iso!Part
  <2>3. IdIn(g) = f.id /\ <<Iso!Part(f.id, 0)>> \in Seq(Nat \X Nat)
        BY <1>2, <2>2 DEF IdIn
  <2> QED BY <1>2, <1>8, <2>1, <2>3 DEF Iso!IsMessage
<1>10. IsoTypes'
  <2>1. /\ bus' \in [Iso!Pairs -> Seq(IsoFrame)]
        /\ \A z \in Iso!Pairs : \A i \in DOMAIN bus'[z] : IsFlow(bus'[z][i]) <=> bus'[z][i] = Iso!FlowControl
        BY <1>3, <1>4, BusTail
  <2>2. got' \in [Iso!Pairs -> Seq([len : Nat, parts : Seq(Nat \X Nat)])]
        BY <1>3, <1>4, <1>9, GotOne DEF PairOK
  <2> QED BY <1>3, <1>4, <2>1, <2>2 DEF IsoTypes
<1>11. \A m \in Nodes : NodeOK(m)'
       BY <1>3, <1>4 DEF NodeOK, Of, Long, BlocksOf
<1>12. ASSUME NEW z \in Iso!Pairs, z # x PROVE PairOK(z)'
  <2>1. got'[z] = got[z] /\ IsoKept
        BY <1>3, <1>4, <1>12 DEF IsoTypes, IsoKept
  <2> QED BY <1>3, <1>5, <2>1, OthersMoved, IsoPairs
<1>13. PairOK(x)'
  <2>1. /\ ~Starts(x) /\ ~Bursts(x) /\ (\A i : ~Answers(x, i)) /\ \A i : Carries(x, i) => i = 1
        BY <1>4, <1>6 DEF PairOK, StagesOK
  <2>2. \A i : ~Carries(x, i)' /\ ~IsData(x, i)'
    <3>1. \A i : Carries(x, i)' => i \in Nat \ {0} /\ Carries(x, i + 1)
          BY <1>5 DEF Carries
    <3>2. \A i \in Nat \ {0} : i + 1 # 1
          OBVIOUS
    <3>3. \A i : ~Carries(x, i)'
          BY <2>1, <3>1, <3>2
    <3> QED BY <3>3 DEF Carries, IsData, IsFlow
  <2>3. ~Starts(x)' /\ ~Bursts(x)' /\ \A i : ~Answers(x, i)'
        BY <1>3, <1>5, <2>1, IsoPairs DEF Starts, Bursts, Answers
  <2>4. TxqOK(x)' /\ StartOK(x)' /\ FramesOK(x)' /\ StagesOK(x)'
        BY <1>3, <1>4, <2>2, <2>3 DEF PairOK, TxqOK, StartOK, FramesOK, StagesOK, Of, Long
  <2>5. RebuildOK(x)'
    <3> SUFFICES ASSUME NEW r, r = rxq'[x], r # Iso!None PROVE Rebuilds(x, r)'
        BY DEF RebuildOK
    <3>1. Rebuilds(x, r)
          BY <1>3, <1>4 DEF PairOK, RebuildOK
    <3> QED BY <1>3, <2>2, <2>3, <3>1 DEF Rebuilds, Of, Long
  <2>6. GotOK(x)'
    <3>1. GotOK(x) /\ Iso!IsMessage(x, g, IdIn(g))
          BY <1>4, <1>9 DEF PairOK
    <3> QED BY <1>3, <1>4, <1>9, <3>1, GotOne
  <2> QED BY <2>4, <2>5, <2>6 DEF PairOK
<1> QED BY <1>3, <1>7, <1>8, <1>9, <1>10, <1>11, <1>12, <1>13 DEF IsoInv

LEMMA ReceiveFirstKept ==
  ASSUME Priority = 1, IsoInv, NEW x \in Iso!Pairs, Iso!ReceiveFirst(x)
  PROVE  IsoInv'
<1>1. PICK f : f = Head(bus[x])
      OBVIOUS
<1>2. PICK y : y = Iso!Back(x)
      OBVIOUS
<1>3. PICK q : q = [first |-> f.id, len |-> f.n, slots |-> [i \in 1..Iso!Blocks(f.n) |-> Iso!Hole]]
      OBVIOUS
<1>4. /\ bus[x] # <<>> /\ f.kind = "first" /\ UNCHANGED <<msgs, starting, txq, burst, got>>
      /\ \/ /\ rxq' = [rxq EXCEPT ![x] = q]
            /\ bus' = [bus EXCEPT ![x] = Tail(@), ![y] = Append(@, Iso!FlowControl)]
         \/ bus' = [bus EXCEPT ![x] = Tail(@)] /\ UNCHANGED rxq
      BY <1>1, <1>2, <1>3 DEF Iso!ReceiveFirst, Iso!AnswersLeave, Iso!Incoming
<1>5. /\ IsoTypes /\ (\A m \in Nodes : NodeOK(m)) /\ (\A z \in Iso!Pairs : PairOK(z))
      BY DEF IsoInv
<1>6. y \in Iso!Pairs /\ y # x /\ Iso!Back(y) = x /\ \A z \in Iso!Pairs : z # x => Iso!Back(z) # y
      BY <1>2, IsoPairs
<1>7. \A m \in Nodes : NodeOK(m)'
      BY <1>4, <1>5 DEF NodeOK, Of, Long, BlocksOf
<1>8. CASE bus' = [bus EXCEPT ![x] = Tail(@)] /\ UNCHANGED rxq
  <2>1. IsoTypes'
        BY <1>4, <1>5, <1>8, BusTail DEF IsoTypes
  <2>2. ASSUME NEW z \in Iso!Pairs PROVE PairOK(z)'
    <3>1. Moves(z, TRUE) /\ Moves(Iso!Back(z), FALSE)
          BY <1>4, <1>5, <1>8, IsoPairs, BusTail
    <3> QED BY <1>4, <1>8, <3>1, OthersMoved, StillOK
  <2> QED BY <1>7, <2>1, <2>2 DEF IsoInv
<1>9. CASE /\ rxq' = [rxq EXCEPT ![x] = q]
           /\ bus' = [bus EXCEPT ![x] = Tail(@), ![y] = Append(@, Iso!FlowControl)]
  <2>1. /\ DOMAIN bus = Iso!Pairs /\ DOMAIN bus' = Iso!Pairs
        /\ bus'[x] = Tail(bus[x]) /\ bus'[y] = Append(bus[y], Iso!FlowControl)
        /\ \A z \in Iso!Pairs : z # x /\ z # y => bus'[z] = bus[z]
        BY <1>5, <1>6, <1>9 DEF IsoTypes
  <2>2. \A z \in Iso!Pairs : SeqOK(bus[z])
        BY <1>5 DEF IsoTypes, SeqOK
  <2>3. Iso!FlowControl \in IsoFrame /\ IsFlow(Iso!FlowControl)
        BY DEF IsoFrame, IsFlow, Iso!FlowControl
  <2>4. \A z \in Iso!Pairs : \A s : s = bus'[z] => SeqOK(s)
    <3>1. SeqOK(Tail(bus[x])) /\ SeqOK(Append(bus[y], Iso!FlowControl))
          BY <1>4, <1>6, <2>2, <2>3, SeqKept, <1>1
    <3> QED BY <2>1, <2>2, <3>1
  <2>5. /\ bus' \in [Iso!Pairs -> Seq(IsoFrame)]
        /\ \A z \in Iso!Pairs : \A i \in DOMAIN bus'[z] : IsFlow(bus'[z][i]) <=> bus'[z][i] = Iso!FlowControl
    <3> DEFINE S == IsoFrame
    <3>1. \A z \in Iso!Pairs : bus'[z] \in Seq(S)
          BY <2>4 DEF SeqOK
    <3> HIDE DEF S
    <3>2. bus' \in [Iso!Pairs -> Seq(S)]
          BY <1>9, <2>1, <3>1
    <3>3. \A z \in Iso!Pairs : \A i \in DOMAIN bus'[z] : IsFlow(bus'[z][i]) <=> bus'[z][i] = Iso!FlowControl
          BY <2>4 DEF SeqOK
    <3> QED BY <3>2, <3>3 DEF S
  <2>6. IsoTypes'
        BY <1>4, <1>5, <1>9, <2>5 DEF IsoTypes
  <2>7. /\ 1 \in DOMAIN bus[x] /\ f = bus[x][1]
        /\ \A i \in DOMAIN bus'[x] : i \in Nat \ {0} /\ i + 1 \in DOMAIN bus[x] /\ bus'[x][i] = bus[x][i + 1]
    <3> DEFINE S == IsoFrame
    <3>1. PICK s \in Seq(S) : s = bus[x] /\ s # <<>>
          BY <1>4, <1>5 DEF IsoTypes
    <3> HIDE DEF S
    <3>2. /\ 1 \in DOMAIN s /\ Head(s) = s[1]
          /\ \A i \in DOMAIN Tail(s) : i \in Nat \ {0} /\ i + 1 \in DOMAIN s /\ Tail(s)[i] = s[i + 1]
          BY <3>1, Tailed
    <3> QED BY <1>1, <2>1, <3>1, <3>2
  <2>8. ASSUME NEW z \in Iso!Pairs, z # x PROVE PairOK(z)'
    <3>1. Moves(z, TRUE)
      <4>1. CASE z = y
            BY <1>5, <2>1, <2>3, <4>1, Moving
      <4>2. CASE z # y
            BY <1>5, <2>1, <2>8, <4>2, Moving
      <4> QED BY <4>1, <4>2
    <3>2. Moves(Iso!Back(z), FALSE)
          BY <1>4, <1>5, <1>6, <2>1, <2>8, IsoPairs, Moving
    <3>3. rxq'[z] = rxq[z]
          BY <1>5, <1>9, <2>8 DEF IsoTypes
    <3> QED BY <1>4, <3>1, <3>2, <3>3, OthersMoved, StillOK
  <2>9. PairOK(x)'
    <3>1. Carries(x, 1) /\ ~IsData(x, 1)
          BY <1>4, <2>7 DEF Carries, IsData, IsFlow
    <3>2. /\ ~Starts(x) /\ ~Bursts(x) /\ (\A i : ~Answers(x, i)) /\ \A i : Carries(x, i) => i = 1
          BY <1>5, <3>1 DEF PairOK, StagesOK
    <3>3. FrameOK(x, f) /\ GotBelow(x, f.id)
          BY <1>4, <1>5, <2>7, <3>1 DEF PairOK, FramesOK
    <3>4. /\ f.id \in DOMAIN msgs /\ msgs[f.id].pair = x /\ f.n = msgs[f.id].len /\ Long(f.id)
          /\ txq[x] = f.id /\ Iso!Blocks(f.n) \in Nat
          BY <1>4, <1>5, <3>3, IsoIds, IsoLength DEF FrameOK, Of
    <3>5. \A i : ~Carries(x, i)' /\ ~IsData(x, i)'
      <4>1. \A i : Carries(x, i)' => i \in Nat \ {0} /\ Carries(x, i + 1)
            BY <2>7 DEF Carries
      <4>2. \A i \in Nat \ {0} : i + 1 # 1
            OBVIOUS
      <4>3. \A i : ~Carries(x, i)'
            BY <3>2, <4>1, <4>2
      <4> QED BY <4>3 DEF Carries, IsData, IsFlow
    <3>6. ~Starts(x)' /\ ~Bursts(x)'
          BY <1>4, <3>2 DEF Starts, Bursts
    <3>7. PICK m : \A i : Answers(x, i)' => i = m
      <4> DEFINE S == IsoFrame
      <4>1. bus[y] \in Seq(S) /\ Iso!FlowControl \in S
            BY <1>5, <1>6, <2>3 DEF IsoTypes
      <4> HIDE DEF S
      <4>2. \A i \in DOMAIN bus'[y] : i = Len(bus[y]) + 1 \/ (i \in DOMAIN bus[y] /\ bus'[y][i] = bus[y][i])
            BY <2>1, <4>1, Appended
      <4>3. \A i : Answers(x, i)' => i = Len(bus[y]) + 1
            BY <1>2, <3>2, <4>2 DEF Answers
      <4> QED BY <4>3
    <3>8. StagesOK(x)'
          BY <3>5, <3>6, <3>7 DEF StagesOK
    <3>9. TxqOK(x)' /\ StartOK(x)' /\ FramesOK(x)' /\ GotOK(x)'
          BY <1>4, <1>5, <3>5, <3>6, StillOK DEF PairOK, TxqOK, StartOK, FramesOK
    <3>10. RebuildOK(x)'
      <4>1. rxq'[x] = q
            BY <1>5, <1>9 DEF IsoTypes
      <4>2. /\ q.first = f.id /\ q.len = f.n /\ DOMAIN q.slots = 1..Iso!Blocks(f.n)
            /\ \A i \in DOMAIN q.slots : q.slots[i] = Iso!Hole
            /\ q = [first |-> q.first, len |-> q.len, slots |-> q.slots]
            BY <1>3
      <4>3. q.slots \in Seq(Nat \X Nat) /\ Len(q.slots) = Iso!Blocks(f.n)
        <5>1. Iso!Hole \in Nat \X Nat
              BY DEF Iso!Hole
        <5>2. \A k \in Nat : [i \in 1..k |-> Iso!Hole] \in Seq(Nat \X Nat) /\ Len([i \in 1..k |-> Iso!Hole]) = k
              BY <5>1
        <5> QED BY <1>3, <3>4, <5>2
      <4>4. Ready(q, 1)
            BY <3>4, <4>2 DEF Ready
      <4>5. txq'[x] = q.first /\ GotBelow(x, q.first)'
            BY <1>4, <3>3, <3>4, <4>2 DEF GotBelow
      <4>6. Of(q.first, x)' /\ Long(q.first)' /\ q.len = msgs'[q.first].len
            BY <1>4, <3>4, <4>2 DEF Of, Long
      <4>7. Rebuilds(x, q)'
            BY <3>5, <3>6, <4>2, <4>3, <4>4, <4>5, <4>6 DEF Rebuilds
      <4> QED BY <4>1, <4>7 DEF RebuildOK
    <3> QED BY <3>8, <3>9, <3>10 DEF PairOK
  <2> QED BY <1>7, <2>6, <2>8, <2>9 DEF IsoInv
<1> QED BY <1>4, <1>8, <1>9

(* What the frames behind a consecutive frame f, which is read, and the reassembly r agree on. *)
DataAfter(x, f, r) ==
  /\ Of(r.first, x) /\ f.id = r.first /\ Ready(r, f.n) /\ GotBelow(x, r.first)
  /\ Long(r.first) /\ r.len = msgs[r.first].len /\ f.n \in 1..Len(r.slots) /\ f.n \in Nat
  /\ r.slots \in Seq(Nat \X Nat) /\ Len(r.slots) = BlocksOf(r.first)
  /\ r = [first |-> r.first, len |-> r.len, slots |-> r.slots]
  /\ ~Starts(x)' /\ \A i : ~Answers(x, i)'
  /\ \A i : Carries(x, i)' => IsData(x, i)'
  /\ Bursts(x)' => burst'[x[1]].id = r.first /\ burst'[x[1]].n > f.n /\ burst'[x[1]].n \in Nat
  /\ \A i : IsData(x, i)' =>
       /\ bus'[x][i].id = r.first /\ bus'[x][i].n > f.n /\ bus'[x][i].n \in Nat
  /\ TxqOK(x)' /\ StartOK(x)' /\ FramesOK(x)' /\ StagesOK(x)'

LEMMA DataRead ==
  ASSUME IsoInv, NEW x \in Iso!Pairs, bus[x] # <<>>, NEW f, f = Head(bus[x]), f.kind = "consecutive",
         bus' = [bus EXCEPT ![x] = Tail(@)], UNCHANGED <<msgs, starting, txq, burst>>,
         NEW r, r = rxq[x], r # Iso!None
  PROVE  DataAfter(x, f, r)
<1>1. IsoTypes /\ PairOK(x) /\ NodeOK(x[1])
      BY IsoPairs DEF IsoInv
<1>2. /\ 1 \in DOMAIN bus[x] /\ f = bus[x][1]
      /\ \A i \in DOMAIN bus'[x] : i \in Nat \ {0} /\ i + 1 \in DOMAIN bus[x] /\ bus'[x][i] = bus[x][i + 1]
      /\ \A z \in Iso!Pairs \ {x} : bus'[z] = bus[z]
      BY <1>1, BusTail
<1>3. IsData(x, 1) /\ Carries(x, 1)
      BY <1>2 DEF IsData, Carries, IsFlow
<1>4. /\ ~Starts(x) /\ (\A i : ~Answers(x, i)) /\ \A i : Carries(x, i) => IsData(x, i)
      BY <1>1, <1>3 DEF PairOK, StagesOK
<1>5. /\ \A i : IsData(x, i)' => /\ i \in Nat \ {0} /\ IsData(x, i + 1) /\ bus'[x][i] = bus[x][i + 1]
                                 /\ 1 < i + 1
      /\ \A i : Carries(x, i)' => i \in Nat \ {0} /\ Carries(x, i + 1) /\ bus'[x][i] = bus[x][i + 1]
      BY <1>2 DEF IsData, Carries, IsFlow
<1>6. /\ \A i, j : IsData(x, i) /\ IsData(x, j) /\ i < j => bus[x][i].n < bus[x][j].n
      /\ \A i : IsData(x, i) /\ Bursts(x) => bus[x][i].n < burst[x[1]].n
      BY <1>1 DEF PairOK, StagesOK
<1>7. Rebuilds(x, r)
      BY <1>1 DEF PairOK, RebuildOK
<1>8. /\ Of(r.first, x) /\ f.id = r.first /\ Ready(r, f.n) /\ GotBelow(x, r.first)
      /\ Long(r.first) /\ r.len = msgs[r.first].len
      /\ r.slots \in Seq(Nat \X Nat) /\ Len(r.slots) = BlocksOf(r.first)
      /\ r = [first |-> r.first, len |-> r.len, slots |-> r.slots]
      BY <1>2, <1>3, <1>7 DEF Rebuilds, BlocksOf
<1>9. \A i : IsData(x, i) => bus[x][i].n \in 1..BlocksOf(bus[x][i].id) /\ bus[x][i].n \in Nat
  <2> SUFFICES ASSUME NEW i, IsData(x, i)
               PROVE  bus[x][i].n \in 1..BlocksOf(bus[x][i].id) /\ bus[x][i].n \in Nat
      OBVIOUS
  <2>1. PICK g : g = bus[x][i]
        OBVIOUS
  <2>2. FrameOK(x, g) /\ g.kind = "consecutive"
        BY <1>1, <2>1 DEF PairOK, FramesOK, IsData, Carries, IsFlow
  <2>3. msgs[g.id].len \in 1..(Iso!LenMod - 1)
        BY <1>1, <2>2, IsoIds DEF FrameOK, Of
  <2>4. BlocksOf(g.id) \in Nat /\ g.n \in 1..BlocksOf(g.id)
        BY <2>2, <2>3, IsoLength DEF FrameOK, BlocksOf
  <2> QED BY <2>1, <2>4
<1>10. f.n \in 1..Len(r.slots) /\ f.n \in Nat
       BY <1>2, <1>3, <1>8, <1>9
<1>11. ~Starts(x)' /\ \A i : ~Answers(x, i)'
       BY <1>2, <1>4, IsoPairs DEF Starts, Answers
<1>12. \A i : Carries(x, i)' => IsData(x, i)'
       BY <1>4, <1>5 DEF Carries, IsData
<1>13. Bursts(x)' => burst'[x[1]].id = r.first /\ burst'[x[1]].n > f.n /\ burst'[x[1]].n \in Nat
  <2> SUFFICES ASSUME Bursts(x)'
               PROVE  burst'[x[1]].id = r.first /\ burst'[x[1]].n > f.n /\ burst'[x[1]].n \in Nat
      OBVIOUS
  <2>1. Bursts(x) /\ burst'[x[1]] = burst[x[1]]
        BY DEF Bursts
  <2>2. f.n < burst[x[1]].n /\ burst[x[1]].id = r.first
        BY <1>2, <1>3, <1>6, <1>7, <2>1 DEF Rebuilds
  <2>3. PICK u : u = burst[x[1]]
        OBVIOUS
  <2>4. u.n \in 1..(BlocksOf(u.id) + 1) /\ Of(u.id, x)
        BY <1>1, <2>1, <2>3, IsoPairs DEF NodeOK, Bursts
  <2>5. BlocksOf(u.id) \in Nat
        BY <1>1, <2>4, IsoIds, IsoLength DEF Of, BlocksOf
  <2>6. u.n \in Nat
        BY <2>4, <2>5
  <2> QED BY <1>10, <2>1, <2>2, <2>3, <2>6
<1>14. \A i : IsData(x, i)' =>
         /\ bus'[x][i].id = r.first /\ bus'[x][i].n > f.n /\ bus'[x][i].n \in Nat
  <2> SUFFICES ASSUME NEW i, IsData(x, i)'
               PROVE  bus'[x][i].id = r.first /\ bus'[x][i].n > f.n /\ bus'[x][i].n \in Nat
      OBVIOUS
  <2>1. IsData(x, i + 1) /\ bus'[x][i] = bus[x][i + 1] /\ 1 < i + 1
        BY <1>5
  <2>2. bus[x][1].n < bus[x][i + 1].n
        BY <1>3, <1>6, <2>1
  <2>3. bus[x][i + 1].id = r.first /\ bus[x][i + 1].n \in Nat
        BY <1>7, <1>9, <2>1 DEF Rebuilds
  <2> QED BY <1>2, <1>10, <2>1, <2>2, <2>3
<1>15. TxqOK(x)' /\ StartOK(x)'
       BY <1>1, <1>11 DEF PairOK, TxqOK, StartOK, Of, Long
<1>16. FramesOK(x)'
  <2> SUFFICES ASSUME NEW i, NEW g, Carries(x, i)', g = bus'[x][i]
               PROVE  FrameOK(x, g)' /\ (g.kind # "consecutive" => GotBelow(x, g.id)')
      BY DEF FramesOK
  <2>1. FrameOK(x, g) /\ g.kind = "consecutive"
        BY <1>1, <1>4, <1>5 DEF PairOK, FramesOK, IsData
  <2> QED BY <2>1 DEF FrameOK, Of, Long, BlocksOf
<1>17. StagesOK(x)'
  <2>1. ASSUME NEW i, NEW j, IsData(x, i)', IsData(x, j)', i < j PROVE bus'[x][i].n < bus'[x][j].n
    <3>1. /\ IsData(x, i + 1) /\ IsData(x, j + 1) /\ i \in Nat /\ j \in Nat
          /\ bus'[x][i] = bus[x][i + 1] /\ bus'[x][j] = bus[x][j + 1]
          BY <1>5, <2>1
    <3>2. i + 1 < j + 1
          BY <2>1, <3>1
    <3> QED BY <1>6, <3>1, <3>2
  <2>2. ASSUME NEW i, IsData(x, i)', Bursts(x)' PROVE bus'[x][i].n < burst'[x[1]].n
    <3>1. IsData(x, i + 1) /\ bus'[x][i] = bus[x][i + 1] /\ Bursts(x)
          BY <1>5, <2>2 DEF Bursts
    <3> QED BY <1>6, <3>1
  <2> QED BY <1>11, <1>12, <2>1, <2>2 DEF StagesOK
<1> QED BY <1>8, <1>10, <1>11, <1>12, <1>13, <1>14, <1>15, <1>16, <1>17 DEF DataAfter

LEMMA ReceiveConsecutiveKept ==
  ASSUME IsoInv, NEW x \in Iso!Pairs, Iso!ReceiveConsecutive(x)
  PROVE  /\ IsoInv'
         /\ UNCHANGED got \/
              \E id \in DOMAIN msgs : \E g :
                /\ got' = [got EXCEPT ![x] = Append(@, g)] /\ Iso!IsMessage(x, g, id)
                /\ IdIn(g) = id /\ GotBelow(x, id)
<1>1. PICK f : f = Head(bus[x])
      OBVIOUS
<1>2. PICK r : r = rxq[x]
      OBVIOUS
<1>3. PICK s : s = Iso!Place(r.slots, f.n, Iso!Part(f.id, f.n))
      OBVIOUS
<1>4. PICK g : g = [len |-> r.len, parts |-> <<Iso!Part(r.first, 0)>> \o s]
      OBVIOUS
<1>5. /\ bus[x] # <<>> /\ f.kind = "consecutive" /\ bus' = [bus EXCEPT ![x] = Tail(@)]
      /\ UNCHANGED <<msgs, starting, txq, burst>>
      /\ \/ UNCHANGED <<rxq, got>>
         \/ /\ r # Iso!None /\ Iso!IsFull(s)
            /\ got' = [got EXCEPT ![x] = Append(@, g)] /\ rxq' = [rxq EXCEPT ![x] = Iso!None]
         \/ /\ r # Iso!None /\ UNCHANGED got
            /\ rxq' = [rxq EXCEPT ![x].slots = s]
      BY <1>1, <1>2, <1>3, <1>4, Zenon DEF Iso!ReceiveConsecutive, Iso!Incoming, Iso!PassUp
<1>6. /\ IsoTypes /\ (\A m \in Nodes : NodeOK(m)) /\ (\A z \in Iso!Pairs : PairOK(z)) /\ IsoKept
      BY <1>5 DEF IsoInv, IsoKept
<1>7. \A m \in Nodes : NodeOK(m)'
      BY <1>5, <1>6 DEF NodeOK, Of, Long, BlocksOf
<1>8. \A z \in Iso!Pairs : Moves(z, TRUE) /\ Moves(Iso!Back(z), FALSE)
      BY <1>5, <1>6, IsoPairs, BusTail
<1>9. ASSUME NEW z \in Iso!Pairs, rxq'[z] = rxq[z], got'[z] = got[z] PROVE PairOK(z)'
      BY <1>5, <1>6, <1>8, <1>9, OthersMoved
<1>10. CASE UNCHANGED <<rxq, got>>
  <2>1. IsoTypes'
        BY <1>5, <1>6, <1>10, BusTail DEF IsoTypes
  <2> QED BY <1>7, <1>9, <1>10, <2>1 DEF IsoInv
<1>11. ASSUME r # Iso!None PROVE DataAfter(x, f, r)
       BY <1>1, <1>2, <1>5, <1>11, DataRead
<1>12. ASSUME r # Iso!None, NEW q, q = [first |-> r.first, len |-> r.len, slots |-> s]
       PROVE  /\ s \in Seq(Nat \X Nat) /\ Len(s) = BlocksOf(r.first) /\ Ready(q, f.n + 1)
              /\ f.n + 1 \in Nat /\ r.first \in Nat
  <2>1. /\ r.slots \in Seq(Nat \X Nat) /\ f.n \in 1..Len(r.slots) /\ Ready(r, f.n)
        /\ f.id = r.first /\ Len(r.slots) = BlocksOf(r.first) /\ r.first \in DOMAIN msgs
        /\ f.n \in Nat
        BY <1>11, <1>12 DEF Of, DataAfter
  <2>2. r.first \in Nat \ {0}
        BY <1>6, <2>1, IsoIds
  <2>3. q.first = r.first /\ q.slots = s /\ s = Iso!Place(r.slots, f.n, Iso!Part(r.first, f.n))
        BY <1>3, <1>12, <2>1
  <2>4. s \in Seq(Nat \X Nat) /\ Len(s) = Len(r.slots) /\ Ready(q, f.n + 1)
        BY <2>1, <2>2, <2>3, BlockPlaced
  <2>5. f.n + 1 \in Nat
        BY <2>1
  <2> QED BY <2>1, <2>2, <2>4, <2>5
<1>13. CASE /\ r # Iso!None /\ Iso!IsFull(s)
            /\ got' = [got EXCEPT ![x] = Append(@, g)] /\ rxq' = [rxq EXCEPT ![x] = Iso!None]
  <2>1. PICK q : q = [first |-> r.first, len |-> r.len, slots |-> s]
        OBVIOUS
  <2>2. /\ s \in Seq(Nat \X Nat) /\ Len(s) = BlocksOf(r.first) /\ Ready(q, f.n + 1)
        /\ f.n + 1 \in Nat /\ r.first \in Nat
        BY <1>12, <1>13, <2>1
  <2>3. q.first = r.first /\ q.slots = s
        BY <2>1
  <2>4. /\ r.first \in DOMAIN msgs /\ msgs[r.first].pair = x /\ Long(r.first)
        /\ r.len = msgs[r.first].len
        BY <1>11, <1>13 DEF Of, DataAfter
  <2>5. /\ <<Iso!Part(r.first, 0)>> \o s = Iso!Whole(r.first)
        /\ Iso!Whole(r.first) \in Seq(Nat \X Nat) /\ Iso!Whole(r.first)[1][1] = r.first
        BY <1>6, <1>13, <2>2, <2>3, <2>4, FullIsWhole
  <2>6. r.len \in Nat
    <3>1. \A k \in Nat : \A l \in 1..(k - 1) : l \in Nat
          OBVIOUS
    <3>2. Iso!LenMod \in Nat
          BY DEF Iso!LenMod
    <3> QED BY <1>6, <2>4, <3>1, <3>2, IsoIds
  <2>7. /\ g = [len |-> r.len, parts |-> Iso!Whole(r.first)]
        /\ Iso!IsMessage(x, g, r.first) /\ IdIn(g) = r.first /\ g \in [len : Nat, parts : Seq(Nat \X Nat)]
    <3>1. g = [len |-> r.len, parts |-> Iso!Whole(r.first)]
          BY <1>4, <2>5
    <3> QED BY <2>4, <2>5, <2>6, <3>1 DEF IdIn, Iso!IsMessage, Iso!PartsOf, Long
  <2>8. /\ got' \in [Iso!Pairs -> Seq([len : Nat, parts : Seq(Nat \X Nat)])]
        /\ (\A y \in Iso!Pairs \ {x} : got'[y] = got[y]) /\ GotOK(x)'
    <3>1. /\ IsoTypes /\ GotOK(x) /\ UNCHANGED msgs /\ got' = [got EXCEPT ![x] = Append(@, g)]
          /\ g \in [len : Nat, parts : Seq(Nat \X Nat)] /\ Iso!IsMessage(x, g, IdIn(g))
          BY <1>5, <1>6, <1>13, <2>7 DEF PairOK
    <3> QED BY <3>1, GotOne, Zenon
  <2>9. IsoTypes'
        BY <1>5, <1>6, <1>13, <2>8, BusTail DEF IsoTypes
  <2>10. \A z \in Iso!Pairs \ {x} : PairOK(z)'
         BY <1>6, <1>9, <1>13, <2>8 DEF IsoTypes
  <2>11. RebuildOK(x)'
         BY <1>6, <1>13 DEF RebuildOK, IsoTypes
  <2>12. PairOK(x)'
         BY <1>11, <1>13, <2>8, <2>11 DEF PairOK, DataAfter
  <2>13. GotBelow(x, r.first)
         BY <1>11, <1>13 DEF DataAfter
  <2> QED BY <1>7, <1>13, <2>4, <2>7, <2>9, <2>10, <2>12, <2>13 DEF IsoInv
<1>14. CASE /\ r # Iso!None /\ UNCHANGED got
            /\ rxq' = [rxq EXCEPT ![x].slots = s]
  <2>1. PICK q : q = [first |-> r.first, len |-> r.len, slots |-> s]
        OBVIOUS
  <2>2. rxq'[x] = q /\ \A z \in Iso!Pairs \ {x} : rxq'[z] = rxq[z]
    <3>1. rxq'[x] = [r EXCEPT !.slots = s] /\ \A z \in Iso!Pairs \ {x} : rxq'[z] = rxq[z]
          BY <1>2, <1>6, <1>14 DEF IsoTypes
    <3> QED BY <1>11, <1>14, <2>1, <3>1 DEF DataAfter
  <2>3. /\ s \in Seq(Nat \X Nat) /\ Len(s) = BlocksOf(r.first) /\ Ready(q, f.n + 1)
        /\ f.n + 1 \in Nat
        BY <1>12, <1>14, <2>1
  <2>4. /\ q.first = r.first /\ q.len = r.len /\ q.slots = s
        /\ q = [first |-> q.first, len |-> q.len, slots |-> q.slots]
        BY <2>1
  <2>5. IsoTypes'
    <3>1. /\ bus' \in [Iso!Pairs -> Seq(IsoFrame)]
          /\ \A z \in Iso!Pairs : \A i \in DOMAIN bus'[z] : IsFlow(bus'[z][i]) <=> bus'[z][i] = Iso!FlowControl
          BY <1>5, <1>6, BusTail
    <3> QED BY <1>5, <1>6, <1>14, <3>1 DEF IsoTypes
  <2>6. \A z \in Iso!Pairs \ {x} : PairOK(z)'
        BY <1>9, <1>14, <2>2
  <2>7. f.n \in Nat /\ f.n + 1 # 0
        BY <1>11, <1>14 DEF DataAfter
  <2>8. \A k \in Nat : k > f.n => Ready(q, k)
    <3> SUFFICES ASSUME NEW k \in Nat, k > f.n PROVE Ready(q, k)
        OBVIOUS
    <3>1. f.n + 1 <= k
          BY <2>7
    <3> QED BY <2>3, <2>4, <2>7, <3>1, ReadyLater
  <2>9. Rebuilds(x, q)'
    <3>1. Of(q.first, x)' /\ Long(q.first)' /\ q.len = msgs'[q.first].len /\ GotBelow(x, q.first)'
          BY <1>5, <1>11, <1>14, <2>4 DEF Of, Long, GotBelow, DataAfter
    <3>2. q.slots \in Seq(Nat \X Nat) /\ Len(q.slots) = Iso!Blocks(q.len)
          BY <1>11, <1>14, <2>3, <2>4 DEF BlocksOf, DataAfter
    <3>3. Bursts(x)' => burst'[x[1]].id = q.first /\ Ready(q, burst'[x[1]].n)
          BY <1>11, <1>14, <2>4, <2>8 DEF DataAfter
    <3>4. \A i : IsData(x, i)' => bus'[x][i].id = q.first /\ Ready(q, bus'[x][i].n)
          BY <1>11, <1>14, <2>4, <2>8 DEF DataAfter
    <3>5. \A i : ~Answers(x, i)'
          BY <1>11, <1>14 DEF DataAfter
    <3> QED BY <2>4, <3>1, <3>2, <3>3, <3>4, <3>5 DEF Rebuilds
  <2>10. GotOK(x)'
         BY <1>5, <1>6, <1>14, StillOK DEF PairOK
  <2>11. PairOK(x)'
         BY <1>11, <1>14, <2>2, <2>9, <2>10 DEF PairOK, RebuildOK, DataAfter
  <2> QED BY <1>7, <1>14, <2>5, <2>6, <2>11 DEF IsoInv
<1> QED BY <1>5, <1>10, <1>13, <1>14

LEMMA IsoKeeps ==
  ASSUME ~Overlap, IsoShort, Priority = 1, IsoInv, [Next]_vars
  PROVE  IsoInv'
<1>1. CASE UNCHANGED IsoVars
  <2>1. UNCHANGED <<msgs, bus, starting, txq, rxq, burst, got>>
        BY <1>1 DEF IsoVars
  <2>2. IsoTypes /\ (\A n \in Nodes : NodeOK(n)) /\ (\A x \in Iso!Pairs : PairOK(x))
        BY DEF IsoInv
  <2>3. IsoTypes' /\ \A n \in Nodes : NodeOK(n)'
    <3>1. IsoTypes'
          BY <2>1, <2>2 DEF IsoTypes
    <3>2. \A n \in Nodes : NodeOK(n)'
          BY <2>1, <2>2 DEF NodeOK, Of, Long, BlocksOf
    <3> QED BY <3>1, <3>2
  <2>4. ASSUME NEW x \in Iso!Pairs PROVE PairOK(x)'
        BY <2>1, <2>2, OthersMoved, StillOK, Moving, IsoPairs
  <2> QED BY <2>3, <2>4 DEF IsoInv
<1>2. CASE Iso!Next
      BY <1>2, SendMessageKept, SendFirstKept, SendConsecutiveKept, SendDoneKept, ReceiveSingleKept,
         ReceiveFirstKept, ReceiveConsecutiveKept, ReceiveFlowKept, LoseKept
         DEF Iso!Next, Iso!Receive, Iso!Send
<1> QED BY <1>1, <1>2, PartSteps

(* The number of a message that was passed up is the one its parts have. *)
LEMMA GotIdsAre ==
  IsoInv => \A x \in Iso!Pairs : Iso!GotIds(x) = [i \in DOMAIN got[x] |-> IdIn(got[x][i])]
<1> SUFFICES ASSUME IsoInv, NEW x \in Iso!Pairs
             PROVE  Iso!GotIds(x) = [i \in DOMAIN got[x] |-> IdIn(got[x][i])]
    OBVIOUS
<1>1. IsoTypes /\ GotOK(x)
      BY DEF IsoInv, PairOK
<1>2. ASSUME NEW id, NEW g, Iso!IsMessage(x, g, id) PROVE IdIn(g) = id
  <2>1. id \in DOMAIN msgs /\ g.parts = Iso!PartsOf(id) /\ Iso!Blocks(msgs[id].len) \in Nat
        BY <1>1, <1>2, IsoIds, IsoLength DEF Iso!IsMessage
  <2>2. 1 \in 1..(Iso!Blocks(msgs[id].len) + 1)
        BY <2>1
  <2>3. g.parts[1] = Iso!Part(id, 0)
        BY <2>1, <2>2 DEF Iso!PartsOf, Iso!Whole
  <2> QED BY <2>3 DEF IdIn, Iso!Part
<1>3. ASSUME NEW i \in DOMAIN got[x] PROVE Iso!IdOf(x, got[x][i]) = IdIn(got[x][i])
  <2>1. PICK g : g = got[x][i]
        OBVIOUS
  <2>2. Iso!IsMessage(x, g, IdIn(g)) /\ IdIn(g) \in DOMAIN msgs
        BY <1>1, <2>1 DEF GotOK, Iso!IsMessage
  <2>3. Iso!IdOf(x, g) = IdIn(g)
        BY <1>2, <2>2 DEF Iso!IdOf
  <2> QED BY <2>1, <2>3
<1> QED BY <1>3 DEF Iso!GotIds

LEMMA IsoStepTransfers ==
  ASSUME ~Overlap, IsoShort, Priority = 1, IsoInv, [Next]_vars
  PROVE  [Iso!Abstract!Next]_(Iso!Abstract!transferVars)
<1>1. IsoInv' /\ IsoTypes
      BY IsoKeeps DEF IsoInv
<1>2. Iso!Abstract!Pairs = Iso!Pairs
      BY DEF Iso!Abstract!Pairs, Iso!Pairs
<1>3. ASSUME UNCHANGED <<msgs, got>> PROVE UNCHANGED Iso!Abstract!transferVars
      BY <1>3 DEF Iso!Abstract!transferVars, Iso!IdsOf, Iso!GotIds, Iso!IdOf, Iso!IsMessage, Iso!PartsOf,
                  Iso!Whole
<1>4. \A x \in Iso!Pairs : Iso!GotIds(x) = [i \in DOMAIN got[x] |-> IdIn(got[x][i])]
      BY GotIdsAre
<1>5. \A x \in Iso!Pairs : Iso!GotIds(x)' = [i \in DOMAIN got'[x] |-> IdIn(got'[x][i])]
  <2>1. IsoInv' => (\A x \in Iso!Pairs : Iso!GotIds(x) = [i \in DOMAIN got[x] |-> IdIn(got[x][i])])'
        BY GotIdsAre, PTL
  <2> QED BY <1>1, <2>1 DEF IdIn
<1>6. ASSUME NEW x \in Iso!Pairs, NEW len \in Lengths[x[1]], Iso!SendMessage(x, len)
      PROVE  Iso!Abstract!Next
  <2>1. PICK id : id = Len(msgs) + 1
        OBVIOUS
  <2>2. msgs' = Append(msgs, [pair |-> x, len |-> len]) /\ UNCHANGED got /\ Len(msgs) < MaxSends
        BY <1>6 DEF Iso!SendMessage
  <2>3. IsoKept /\ IsoTypes'
        BY <1>1, <1>6, SendMessageKept DEF IsoInv
  <2>4. /\ DOMAIN msgs' = DOMAIN msgs \cup {id} /\ msgs'[id].pair = x /\ id \in 1..MaxSends
        /\ \A k \in DOMAIN msgs : k < id /\ msgs'[k] = msgs[k]
    <3>1. /\ Len(msgs) \in Nat /\ MaxSends \in Nat /\ DOMAIN msgs = 1..Len(msgs)
          BY <1>1, IsoIds, IsoAssumption DEF Iso!IsoConstants
    <3>2. /\ DOMAIN msgs' = 1..(Len(msgs) + 1) /\ msgs'[Len(msgs) + 1] = [pair |-> x, len |-> len]
          /\ \A k \in DOMAIN msgs : msgs'[k] = msgs[k]
      <4> DEFINE S == [pair : Iso!Pairs, len : 1..(Iso!LenMod - 1)]
                 e == [pair |-> x, len |-> len]
      <4>1. msgs \in Seq(S) /\ msgs' \in Seq(S)
            BY <1>1, <2>3 DEF IsoTypes
      <4> HIDE DEF S, e
      <4>2. msgs' = Append(msgs, e)
            BY <2>2 DEF e
      <4>3. /\ DOMAIN msgs' = 1..(Len(msgs) + 1) /\ msgs'[Len(msgs) + 1] = e
            /\ \A k \in DOMAIN msgs : msgs'[k] = msgs[k]
            BY <4>1, <4>2
      <4> QED BY <4>3 DEF e
    <3>3. msgs'[Len(msgs) + 1].pair = x
          BY <3>2
    <3> QED BY <2>1, <2>2, <3>1, <3>2, <3>3
  <2>5. \A y : /\ Iso!IdsOf(y)' = IF y = x THEN Iso!IdsOf(y) \cup {id} ELSE Iso!IdsOf(y)
               /\ \A k \in Iso!IdsOf(y) : k < id
        BY <2>4 DEF Iso!IdsOf
  <2>6. \A y \in Iso!Pairs : Iso!GotIds(y)' = Iso!GotIds(y)
        BY <1>4, <1>5, <2>2
  <2>7. Iso!Abstract!Send(x[1], {x[2]}, id)
        BY <1>2, <2>5, <2>6, IsoPairs DEF Iso!Abstract!Send
  <2>8. x[1] \in Nodes /\ {x[2]} \in SUBSET Nodes /\ id \in Iso!Ids
        BY <2>4, IsoPairs DEF Iso!Ids
  <2> QED BY <2>7, <2>8 DEF Iso!Abstract!Next
<1>7. ASSUME NEW x \in Iso!Pairs, NEW id \in DOMAIN msgs, NEW g, UNCHANGED msgs,
             got' = [got EXCEPT ![x] = Append(@, g)], Iso!IsMessage(x, g, id),
             IdIn(g) = id, GotBelow(x, id)
      PROVE  Iso!Abstract!Next
  <2>1. \A y : Iso!IdsOf(y)' = Iso!IdsOf(y)
        BY <1>7 DEF Iso!IdsOf
  <2>2. \A y \in Iso!Pairs : y # x => Iso!GotIds(y)' = Iso!GotIds(y)
    <3>1. DOMAIN got = Iso!Pairs
          BY <1>1 DEF IsoTypes
    <3> SUFFICES ASSUME NEW y \in Iso!Pairs, y # x PROVE Iso!GotIds(y)' = Iso!GotIds(y)
        OBVIOUS
    <3>2. got'[y] = got[y]
          BY <1>7, <3>1
    <3>3. Iso!GotIds(y)' = [i \in DOMAIN got'[y] |-> IdIn(got'[y][i])]
          BY <1>5
    <3>4. Iso!GotIds(y) = [i \in DOMAIN got[y] |-> IdIn(got[y][i])]
          BY <1>4
    <3> QED BY <3>2, <3>3, <3>4, Zenon
  <2>3. Iso!GotIds(x)' = Append(Iso!GotIds(x), id)
    <3> DEFINE S == [len : Nat, parts : Seq(Nat \X Nat)]
    <3>5. got \in [Iso!Pairs -> Seq(S)]
          BY <1>1 DEF IsoTypes
    <3> HIDE DEF S
    <3>1. got[x] \in Seq(S) /\ got'[x] = Append(got[x], g) /\ DOMAIN got[x] = 1..Len(got[x])
          /\ Len(got[x]) \in Nat
          BY <1>7, <3>5
    <3>2. PICK n \in Nat : n = Len(got[x]) /\ DOMAIN got[x] = 1..n
          BY <3>1
    <3>3. DOMAIN got'[x] = 1..(n + 1) /\ got'[x][n + 1] = g /\ \A i \in 1..n : got'[x][i] = got[x][i]
          BY <3>1, <3>2
    <3>4. Iso!GotIds(x)' = [i \in 1..(n + 1) |-> IF i = n + 1 THEN id ELSE IdIn(got[x][i])]
      <4>1. \A i \in 1..(n + 1) : i = n + 1 \/ i \in 1..n
            OBVIOUS
      <4> QED BY <1>5, <1>7, <3>3, <4>1
    <3>6. Iso!GotIds(x) = [i \in 1..n |-> IdIn(got[x][i])]
          BY <1>4, <3>2
    <3> QED BY <3>4, <3>6
  <2>4. id \in Iso!IdsOf(x) /\ \A i \in DOMAIN Iso!GotIds(x) : Iso!GotIds(x)[i] < id
        BY <1>4, <1>7 DEF Iso!IdsOf, Iso!IsMessage, GotBelow
  <2>5. Iso!Abstract!Receive(x, id)
        BY <1>2, <2>1, <2>2, <2>3, <2>4 DEF Iso!Abstract!Receive
  <2>6. id \in [y \in Iso!Pairs |-> Iso!IdsOf(y)][x]
        BY <2>4
  <2> QED BY <1>2, <2>5, <2>6 DEF Iso!Abstract!Next
<1>8. CASE UNCHANGED IsoVars
      BY <1>3, <1>8 DEF IsoVars
<1>9. CASE Iso!Next
  <2>1. ASSUME NEW x \in Iso!Pairs, Iso!ReceiveSingle(x) PROVE Iso!Abstract!Next
        BY <1>7, <2>1, ReceiveSingleKept DEF Iso!ReceiveSingle
  <2>2. ASSUME NEW x \in Iso!Pairs, Iso!ReceiveConsecutive(x)
        PROVE  [Iso!Abstract!Next]_(Iso!Abstract!transferVars)
    <3>1. UNCHANGED msgs
          BY <2>2 DEF Iso!ReceiveConsecutive
    <3> QED BY <1>3, <1>7, <2>2, <3>1, ReceiveConsecutiveKept
  <2>3. ASSUME NEW x \in Iso!Pairs, Iso!ReceiveFirst(x) \/ Iso!ReceiveFlow(x) \/ Iso!Lose(x)
        PROVE  UNCHANGED <<msgs, got>>
        BY <2>3 DEF Iso!ReceiveFirst, Iso!ReceiveFlow, Iso!Lose
  <2>4. ASSUME NEW n \in Nodes, Iso!Send(n) PROVE UNCHANGED <<msgs, got>>
        BY <2>4 DEF Iso!Send, Iso!SendFirst, Iso!SendConsecutive, Iso!SendDone
  <2> QED BY <1>3, <1>6, <1>9, <2>1, <2>2, <2>3, <2>4 DEF Iso!Next, Iso!Receive
<1> QED BY <1>8, <1>9, PartSteps

(* What IsoTp passes up are the messages that were sent, whole, in order and once, although  *)
(* frames are lost, for any nodes, bounds and lengths below 4096, over links of priority 1,  *)
(* as long as a node sends a peer one message at a time (ISOTransportQueue.add_message,     *)
(* ISO.process_frame).                                                                    *)
THEOREM MessageTransferHolds ==
  ASSUME ~Overlap, IsoShort, Priority = 1 PROVE Spec => MessageTransfer
<1>1. Init => Iso!Abstract!Init
  <2>1. Init => msgs = <<>> /\ got = [x \in Iso!Pairs |-> <<>>]
        BY DEF Init, Iso!Init
  <2>2. msgs = <<>> /\ got = [x \in Iso!Pairs |-> <<>>] =>
          \A x \in Iso!Pairs : Iso!IdsOf(x) = {} /\ Iso!GotIds(x) = <<>>
        BY DEF Iso!IdsOf, Iso!GotIds
  <2> QED BY <2>1, <2>2 DEF Iso!Abstract!Init, Iso!Abstract!Pairs, Iso!Pairs
<1>2. IsoInv /\ [Next]_vars => [Iso!Abstract!Next]_(Iso!Abstract!transferVars)
      BY IsoStepTransfers
<1>3. IsoInv /\ [Next]_vars => IsoInv'
      BY IsoKeeps
<1> QED BY <1>1, <1>2, <1>3, IsoInitially, PTL
        DEF Spec, MessageTransfer, Iso!ImplementsTransfer, Iso!Abstract!Spec

-----------------------------------------------------------------------------
(* IbpTransport, for two nodes, if an event waits for what is under way, no request is         *)
(* repeated while its answer is, and the last request is not lost: of what goes on between a    *)
(* sender and its receiver one packet at most is on its way, and what that is follows from     *)
(* what both of them hold.                                                               *)
TwoNodes == \E m, n : m # n /\ IbpNodes = {m, n}
Restful == TwoNodes /\ ~Overlaps /\ ~Premature /\ "final" \notin Lossy

Chunk == (Nat \ {0}) \X (Nat \ {0})
AirPacket == [addr : IbpNodes, ack : BOOLEAN, fin : BOOLEAN, seq : Nat, chunk : Nat \X Nat]
Turned(x) == <<x[2], x[1]>>

(* The packets about the events of node s. *)
Token(s, y, i) == i \in DOMAIN air[y] /\ air[y][i].addr = s
OneToken(s) ==
  \A y, z \in Transport!IbpPairs : \A i, j : Token(s, y, i) /\ Token(s, z, j) => y = z /\ i = j

(* What the receiver has asked for last, and what it has: the beginning of the sender's chunks. *)
Asking(x) == x[1] \in DOMAIN chReq[x[2]]
Asked(x) == chReq[x[2]][x[1]] + 1
Collected(x, k) ==
  /\ DOMAIN Transport!BufferOf(x[2], x[1]) = 0..(k - 1)
  /\ \A j \in 0..(k - 1) : Transport!BufferOf(x[2], x[1])[j] = chSend[x[1]][j + 1]

(* Event id is what the sender has for the receiver: its chunks come first (those of later *)
(* events may follow, if their announcement got lost), and the receiver has not had it yet. *)
Serves(x, id) ==
  /\ id \in Transport!SentEvents(x[1]) /\ ibpEvents[id].size <= Len(chSend[x[1]])
  /\ \A i \in 1..ibpEvents[id].size : chSend[x[1]][i] = <<id, i>>
  /\ \A i \in DOMAIN heard[x] : heard[x][i] < id
Serving(x) == \E id : Serves(x, id)

AskOK(x) ==
  /\ DOMAIN chReq[x[2]] \subseteq {x[1]}
  /\ Asking(x) => /\ Serving(x) /\ Asked(x) \in 0..(Len(chSend[x[1]]) - 1)
                  /\ Collected(x, Asked(x))
  /\ ~Asking(x) => x[1] \notin DOMAIN chRecv[x[2]]

TokenOK(x, y, p) ==
  /\ y = IF p.ack THEN Turned(x) ELSE x
  /\ ~p.ack /\ p.chunk = Transport!Nothing => ~p.fin /\ ~Asking(x) /\ Serving(x)
  /\ ~p.ack /\ p.chunk # Transport!Nothing =>
       /\ Asking(x) /\ p.seq = Asked(x) /\ p.chunk = chSend[x[1]][p.seq + 1]
       /\ p.fin <=> p.seq = Len(chSend[x[1]]) - 1
  /\ p.ack /\ ~p.fin => Asking(x) /\ p.seq = Asked(x)
  /\ p.ack /\ p.fin => ~Asking(x)

TokensOK(x) == \A y \in Transport!IbpPairs : \A i : Token(x[1], y, i) => TokenOK(x, y, air[y][i])
PendingOK(x) == chSend[x[1]] # <<>> => Transport!OnAir(x[1]) \/ Serving(x)
HeardOK(x) == \A i \in DOMAIN heard[x] : heard[x][i] \in DOMAIN ibpEvents
ChannelOK(x) == OneToken(x[1]) /\ TokensOK(x) /\ AskOK(x) /\ PendingOK(x) /\ HeardOK(x)

TransportTypes ==
  /\ ibpEvents \in Seq([by : IbpNodes, size : Nat \ {0}])
  /\ chSend \in [IbpNodes -> Seq(Chunk)]
  /\ DOMAIN chRecv = IbpNodes /\ DOMAIN chReq = IbpNodes
  /\ air \in [Transport!IbpPairs -> Seq(AirPacket)]
  /\ heard \in [Transport!IbpPairs -> Seq(Nat)]

TransportInv == TransportTypes /\ \A x \in Transport!IbpPairs : ChannelOK(x)

LEMMA TransportPairs ==
  ASSUME TwoNodes, NEW x \in Transport!IbpPairs
  PROVE  /\ x = <<x[1], x[2]>> /\ x[1] \in IbpNodes /\ x[2] \in IbpNodes /\ x[1] # x[2]
         /\ Turned(x) \in Transport!IbpPairs /\ Turned(Turned(x)) = x /\ Turned(x) # x
         /\ Turned(x)[1] = x[2] /\ Turned(x)[2] = x[1]
         /\ \A n \in IbpNodes : n = x[1] \/ n = x[2]
         /\ \A y \in Transport!IbpPairs : y = x \/ y = Turned(x)
         /\ x # <<>>
<1>1. /\ x = <<x[1], x[2]>> /\ x[1] \in IbpNodes /\ x[2] \in IbpNodes /\ x[1] # x[2] /\ x # <<>>
      BY DEF Transport!IbpPairs
<1>2. /\ Turned(x) \in Transport!IbpPairs /\ Turned(x)[1] = x[2] /\ Turned(x)[2] = x[1]
      /\ Turned(Turned(x)) = x /\ Turned(x) # x
      BY <1>1 DEF Turned, Transport!IbpPairs
<1>3. \A n \in IbpNodes : n = x[1] \/ n = x[2]
      BY <1>1 DEF TwoNodes
<1>4. ASSUME NEW y \in Transport!IbpPairs PROVE y = x \/ y = Turned(x)
  <2>1. y = <<y[1], y[2]>> /\ y[1] \in IbpNodes /\ y[2] \in IbpNodes /\ y[1] # y[2]
        BY DEF Transport!IbpPairs
  <2>2. (y[1] = x[1] /\ y[2] = x[2]) \/ (y[1] = x[2] /\ y[2] = x[1])
        BY <1>3, <2>1
  <2> QED BY <1>1, <2>1, <2>2 DEF Turned
<1> QED BY <1>1, <1>2, <1>3, <1>4

(* A queue that has lost its first d packets and got new ones. *)
Shift(s, u, d, new) ==
  /\ \A i \in DOMAIN u : /\ i \in Nat \ {0}
                         /\ \/ i + d \in DOMAIN s /\ u[i] = s[i + d]
                            \/ new # <<>> /\ i = Len(u) /\ u[i] = new[1]
  /\ \A i \in DOMAIN s : i > d => i - d \in DOMAIN u /\ u[i - d] = s[i]
  /\ new # <<>> => Len(u) \in DOMAIN u /\ u[Len(u)] = new[1]

LEMMA Requeued ==
  ASSUME NEW S, NEW s \in Seq(S), NEW d \in {0, 1}, NEW t \in Seq(S), Len(t) + d = Len(s),
         \A i \in DOMAIN t : t[i] = s[i + d]
  PROVE  /\ t \o <<>> \in Seq(S) /\ Shift(s, t \o <<>>, d, <<>>)
         /\ \A q \in S : t \o <<q>> \in Seq(S) /\ Shift(s, t \o <<q>>, d, <<q>>)
<1>1. /\ DOMAIN t = 1..Len(t) /\ Len(t) \in Nat /\ DOMAIN s = 1..Len(s) /\ Len(s) \in Nat
      /\ t \o <<>> = t
      OBVIOUS
<1>2. /\ \A i \in DOMAIN t : i \in Nat \ {0} /\ i + d \in DOMAIN s
      /\ \A i \in DOMAIN s : i > d => i - d \in DOMAIN t /\ (i - d) + d = i
      BY <1>1
<1>3. t \in Seq(S) /\ Shift(s, t, d, <<>>)
      BY <1>2 DEF Shift
<1>4. ASSUME NEW q \in S PROVE t \o <<q>> \in Seq(S) /\ Shift(s, t \o <<q>>, d, <<q>>)
  <2>1. PICK u : u = t \o <<q>>
        OBVIOUS
  <2>2. /\ u \in Seq(S) /\ Len(u) = Len(t) + 1 /\ DOMAIN u = 1..(Len(t) + 1)
        /\ u[Len(t) + 1] = q /\ \A i \in DOMAIN t : u[i] = t[i]
        BY <2>1
  <2>3. PICK new : new = <<q>>
        OBVIOUS
  <2>4. new # <<>> /\ new[1] = q
        BY <2>3
  <2>5. /\ \A i \in DOMAIN u : i \in Nat \ {0} /\ (i \in DOMAIN t \/ i = Len(u))
        /\ \A i \in DOMAIN t : i \in DOMAIN u
        /\ Len(u) \in DOMAIN u /\ u[Len(u)] = q
        BY <1>1, <2>2
  <2>6. Shift(s, u, d, new)
        BY <1>2, <2>2, <2>4, <2>5 DEF Shift
  <2> QED BY <2>1, <2>2, <2>3, <2>6
<1> QED BY <1>1, <1>3, <1>4

LEMMA AirPut ==
  ASSUME TransportTypes, NEW n, NEW x, x \in Transport!IbpPairs => air[x] # <<>>,
         NEW new, new = <<>> \/ \E q \in AirPacket : new = <<q>>, Transport!Put(n, x, new)
  PROVE  /\ air' \in [Transport!IbpPairs -> Seq(AirPacket)]
         /\ \A y \in Transport!IbpPairs :
              Shift(air[y], air'[y], IF y = x THEN 1 ELSE 0, IF y[1] = n THEN new ELSE <<>>)
<1> DEFINE S == AirPacket
<1>1. air \in [Transport!IbpPairs -> Seq(S)] /\ (new = <<>> \/ \E q \in S : new = <<q>>)
      BY DEF TransportTypes
<1> HIDE DEF S
<1>2. ASSUME NEW y \in Transport!IbpPairs
      PROVE  /\ air'[y] \in Seq(S)
             /\ Shift(air[y], air'[y], IF y = x THEN 1 ELSE 0, IF y[1] = n THEN new ELSE <<>>)
  <2>1. PICK d \in {0, 1} : d = IF y = x THEN 1 ELSE 0
        OBVIOUS
  <2>2. PICK e : e = IF y[1] = n THEN new ELSE <<>>
        OBVIOUS
  <2>3. PICK t : t = IF d = 1 THEN Tail(air[y]) ELSE air[y]
        OBVIOUS
  <2>4. air'[y] = t \o e
    <3>1. air'[y] = (IF y = x THEN Tail(air[y]) ELSE air[y]) \o (IF y[1] = n THEN new ELSE <<>>)
          BY Zenon DEF Transport!Put
    <3>2. t = IF y = x THEN Tail(air[y]) ELSE air[y]
          BY <2>1, <2>3
    <3> QED BY <2>2, <3>1, <3>2, Zenon
  <2>5. air[y] \in Seq(S) /\ (d = 1 => air[y] # <<>>) /\ (e = <<>> \/ \E q \in S : e = <<q>>)
        BY <1>1, <2>1, <2>2
  <2>6. t \in Seq(S) /\ Len(t) + d = Len(air[y]) /\ \A i \in DOMAIN t : t[i] = air[y][i + d]
    <3>1. CASE d = 0
          BY <2>3, <2>5, <3>1
    <3>2. CASE d = 1
      <4>1. PICK s \in Seq(S) : s = air[y]
            BY <2>5
      <4> QED BY <2>3, <2>5, <3>2, <4>1, Tailed
    <3> QED BY <3>1, <3>2
  <2>7. air'[y] \in Seq(S) /\ Shift(air[y], air'[y], d, e)
    <3>1. /\ t \o <<>> \in Seq(S) /\ Shift(air[y], t \o <<>>, d, <<>>)
          /\ \A q \in S : t \o <<q>> \in Seq(S) /\ Shift(air[y], t \o <<q>>, d, <<q>>)
          BY <2>5, <2>6, Requeued
    <3> QED BY <2>4, <2>5, <3>1
  <2> QED BY <2>1, <2>2, <2>7
<1>3. air' = [y \in Transport!IbpPairs |-> air'[y]]
      BY DEF Transport!Put
<1> QED BY <1>2, <1>3 DEF S

(* What a step does to the packets about the events of s that it does not handle: nothing, ... *)
TokensStay(s) ==
  /\ OneToken(s)'
  /\ \A y \in Transport!IbpPairs : \A i : Token(s, y, i)' =>
       \E j : Token(s, y, j) /\ air'[y][i] = air[y][j]
  /\ Transport!OnAir(s) => Transport!OnAir(s)'

(* ... and to the one that it handles: there is at most the one that it sends. *)
TokensNew(s, n, new) ==
  /\ OneToken(s)'
  /\ \A y \in Transport!IbpPairs : \A i : Token(s, y, i)' =>
       y[1] = n /\ new # <<>> /\ air'[y][i] = new[1]
  /\ \A y \in Transport!IbpPairs :
       y[1] = n /\ new # <<>> /\ new[1].addr = s => Transport!OnAir(s)'

Handled(x, s) == x \in Transport!IbpPairs /\ Token(s, x, 1)

LEMMA AirStep ==
  ASSUME TransportTypes, TwoNodes, NEW n, NEW x, x \in Transport!IbpPairs => air[x] # <<>>,
         NEW new, new = <<>> \/ \E q \in AirPacket : new = <<q>>, Transport!Put(n, x, new),
         NEW s, OneToken(s)
  PROVE  /\ ~Handled(x, s) /\ (new # <<>> => new[1].addr # s) => TokensStay(s)
         /\ Handled(x, s) \/ ~Transport!OnAir(s) => TokensNew(s, n, new)
<1> DEFINE D(y) == IF y = x THEN 1 ELSE 0
           E(y) == IF y[1] = n THEN new ELSE <<>>
<1>1. \A y \in Transport!IbpPairs : Shift(air[y], air'[y], D(y), E(y))
      BY AirPut
<1>2. /\ \A y \in Transport!IbpPairs : D(y) \in {0, 1} /\ DOMAIN air[y] \subseteq Nat \ {0}
      /\ \A y \in Transport!IbpPairs : D(y) = 1 => y = x
      /\ \A y \in Transport!IbpPairs : E(y) # <<>> => y[1] = n /\ E(y) = new
      /\ \A y \in Transport!IbpPairs : y[1] = n => E(y) = new
      /\ \A y, z \in Transport!IbpPairs : y[1] = n /\ z[1] = n => y = z
      /\ x \in Transport!IbpPairs => D(x) = 1
  <2>1. \A y \in Transport!IbpPairs : DOMAIN air[y] \subseteq Nat \ {0}
    <3> DEFINE S == AirPacket
    <3>1. air \in [Transport!IbpPairs -> Seq(S)]
          BY DEF TransportTypes
    <3> HIDE DEF S
    <3> QED BY <3>1
  <2>2. \A y, z \in Transport!IbpPairs : y[1] = n /\ z[1] = n => y = z
        BY TransportPairs
  <2> QED BY <2>1, <2>2
<1> HIDE DEF D, E
<1>3. ASSUME NEW y \in Transport!IbpPairs, NEW i, Token(s, y, i)'
      PROVE  /\ i \in Nat \ {0}
             /\ \/ Token(s, y, i + D(y)) /\ air'[y][i] = air[y][i + D(y)]
                \/ E(y) # <<>> /\ i = Len(air'[y]) /\ air'[y][i] = new[1] /\ new[1].addr = s
      BY <1>1, <1>2, <1>3 DEF Shift, Token
<1>4. ASSUME ~Handled(x, s), new # <<>> => new[1].addr # s PROVE TokensStay(s)
  <2>1. \A y \in Transport!IbpPairs : \A i : Token(s, y, i)' =>
          i \in Nat \ {0} /\ Token(s, y, i + D(y)) /\ air'[y][i] = air[y][i + D(y)]
        BY <1>2, <1>3, <1>4
  <2>2. OneToken(s)'
    <3> SUFFICES ASSUME NEW y \in Transport!IbpPairs, NEW z \in Transport!IbpPairs, NEW i, NEW j,
                        Token(s, y, i)', Token(s, z, j)'
                 PROVE  y = z /\ i = j
        BY DEF OneToken
    <3>1. y = z /\ i + D(y) = j + D(z) /\ i \in Nat /\ j \in Nat
          BY <2>1 DEF OneToken
    <3> QED BY <1>2, <3>1
  <2>3. ASSUME Transport!OnAir(s) PROVE Transport!OnAir(s)'
    <3>1. PICK y \in Transport!IbpPairs : \E j : Token(s, y, j)
          BY <2>3 DEF Transport!OnAir, Token
    <3>4. PICK j : Token(s, y, j)
          BY <3>1
    <3>2. j \in Nat /\ j > D(y)
      <4>1. CASE D(y) = 0
            BY <1>2, <3>4, <4>1 DEF Token
      <4>2. CASE D(y) = 1
        <5>1. j # 1
              BY <1>2, <1>4, <3>4, <4>2 DEF Handled
        <5> QED BY <1>2, <3>4, <4>2, <5>1 DEF Token
      <4> QED BY <1>2, <4>1, <4>2
    <3>3. j - D(y) \in DOMAIN air'[y] /\ air'[y][j - D(y)].addr = s
          BY <1>1, <3>4, <3>2 DEF Shift, Token
    <3> QED BY <3>3 DEF Transport!OnAir
  <2> QED BY <2>1, <2>2, <2>3 DEF TokensStay
<1>5. ASSUME Handled(x, s) \/ ~Transport!OnAir(s) PROVE TokensNew(s, n, new)
  <2>1. \A y \in Transport!IbpPairs : \A j : Token(s, y, j) => y = x /\ j = 1
        BY <1>5 DEF Handled, OneToken, Transport!OnAir, Token
  <2>2. \A y \in Transport!IbpPairs : \A i : Token(s, y, i)' =>
          /\ E(y) # <<>> /\ i = Len(air'[y]) /\ air'[y][i] = new[1]
          /\ y[1] = n /\ new # <<>>
    <3> SUFFICES ASSUME NEW y \in Transport!IbpPairs, NEW i, Token(s, y, i)'
                 PROVE  E(y) # <<>> /\ i = Len(air'[y]) /\ air'[y][i] = new[1]
        BY <1>2
    <3>1. i \in Nat \ {0} /\ ~Token(s, y, i + D(y))
      <4>1. i \in Nat \ {0}
            BY <1>3
      <4>2. CASE y = x
            BY <1>2, <2>1, <4>1, <4>2
      <4>3. CASE y # x
            BY <2>1, <4>1, <4>3
      <4> QED BY <4>1, <4>2, <4>3
    <3> QED BY <1>3, <3>1
  <2>3. OneToken(s)'
        BY <1>2, <2>2 DEF OneToken
  <2>4. ASSUME NEW y \in Transport!IbpPairs, y[1] = n, new # <<>>, new[1].addr = s
        PROVE  Transport!OnAir(s)'
    <3>1. Len(air'[y]) \in DOMAIN air'[y] /\ air'[y][Len(air'[y])] = new[1]
          BY <1>1, <1>2, <2>4 DEF Shift
    <3> QED BY <2>4, <3>1 DEF Transport!OnAir
  <2> QED BY <2>2, <2>3, <2>4 DEF TokensNew
<1> QED BY <1>4, <1>5

LEMMA IbpIds ==
  ASSUME TransportTypes
  PROVE  /\ Len(ibpEvents) \in Nat /\ DOMAIN ibpEvents = 1..Len(ibpEvents)
         /\ \A id \in DOMAIN ibpEvents : /\ id \in Nat \ {0} /\ ibpEvents[id].by \in IbpNodes
                                         /\ ibpEvents[id].size \in Nat \ {0}
<1> DEFINE S == [by : IbpNodes, size : Nat \ {0}]
<1>1. ibpEvents \in Seq(S)
      BY DEF TransportTypes
<1> HIDE DEF S
<1>2. /\ Len(ibpEvents) \in Nat /\ DOMAIN ibpEvents = 1..Len(ibpEvents)
      /\ \A id \in DOMAIN ibpEvents : id \in Nat \ {0} /\ ibpEvents[id] \in S
      BY <1>1
<1> QED BY <1>2 DEF S

LEMMA ServesWhat ==
  ASSUME TransportTypes, NEW x \in Transport!IbpPairs, x[1] \in IbpNodes, NEW id, Serves(x, id)
  PROVE  /\ id \in DOMAIN ibpEvents /\ ibpEvents[id].by = x[1] /\ id \in Nat \ {0}
         /\ ibpEvents[id].size \in Nat \ {0} /\ ibpEvents[id].size <= Len(chSend[x[1]])
         /\ Len(chSend[x[1]]) \in Nat \ {0} /\ chSend[x[1]] # <<>>
         /\ \A i \in 1..ibpEvents[id].size : chSend[x[1]][i] = <<id, i>>
<1>1. /\ id \in DOMAIN ibpEvents /\ ibpEvents[id].by = x[1] /\ id \in Nat \ {0}
      /\ ibpEvents[id].size \in Nat \ {0}
      BY IbpIds DEF Serves, Transport!SentEvents
<1>2. PICK n \in Nat \ {0} : n = ibpEvents[id].size
      BY <1>1
<1>3. PICK c : c = chSend[x[1]] /\ n <= Len(c) /\ c \in Seq(Chunk)
      BY <1>2 DEF Serves, TransportTypes
<1>4. Len(c) \in Nat \ {0} /\ c # <<>>
      BY <1>3
<1> QED BY <1>1, <1>2, <1>3, <1>4 DEF Serves

LEMMA ChunksAre ==
  ASSUME TransportTypes, NEW n \in IbpNodes
  PROVE  /\ Len(chSend[n]) \in Nat /\ DOMAIN chSend[n] = 1..Len(chSend[n])
         /\ \A i \in 1..Len(chSend[n]) : chSend[n][i] \in Chunk
<1>1. chSend[n] \in Seq(Chunk)
      BY DEF TransportTypes
<1> HIDE DEF Chunk
<1> QED BY <1>1

(* A step that does not touch what x[1] and x[2] hold for the events of x[1]. *)
LEMMA ChannelKept ==
  ASSUME TransportTypes, TwoNodes, NEW x \in Transport!IbpPairs, ChannelOK(x),
         \A id \in DOMAIN ibpEvents : id \in DOMAIN ibpEvents' /\ ibpEvents'[id] = ibpEvents[id],
         Transport!SentEvents(x[1])' = Transport!SentEvents(x[1]),
         chSend'[x[1]] = chSend[x[1]], chReq'[x[2]] = chReq[x[2]], chRecv'[x[2]] = chRecv[x[2]],
         heard'[x] = heard[x], TokensStay(x[1])
  PROVE  ChannelOK(x)'
<1>1. Serving(x) => Serving(x)'
      BY DEF Serving, Serves, Transport!SentEvents
<1>2. (Asking(x)' <=> Asking(x)) /\ Asked(x)' = Asked(x)
      BY DEF Asking, Asked
<1>3. \A k : Collected(x, k) => Collected(x, k)'
      BY DEF Collected, Transport!BufferOf
<1>4. AskOK(x)'
      BY <1>1, <1>2, <1>3 DEF ChannelOK, AskOK
<1>5. TokensOK(x)'
  <2> SUFFICES ASSUME NEW y \in Transport!IbpPairs, NEW i, Token(x[1], y, i)'
               PROVE  TokenOK(x, y, air[y][i])'
      BY DEF TokensOK
  <2>1. PICK p : p = air'[y][i]
        OBVIOUS
  <2>2. TokenOK(x, y, p)
        BY <2>1 DEF TokensStay, ChannelOK, TokensOK
  <2>3. TokenOK(x, y, p)'
        BY <1>1, <1>2, <2>2 DEF TokenOK
  <2> QED BY <2>1, <2>3
<1>6. PendingOK(x)'
      BY <1>1 DEF ChannelOK, PendingOK, TokensStay
<1>7. HeardOK(x)'
      BY DEF ChannelOK, HeardOK
<1> QED BY <1>4, <1>5, <1>6, <1>7 DEF ChannelOK, TokensStay

LEMMA Concatenated ==
  ASSUME NEW S, NEW s \in Seq(S), NEW t \in Seq(S)
  PROVE  /\ s \o t \in Seq(S) /\ Len(s) \in Nat /\ Len(s \o t) = Len(s) + Len(t)
         /\ \A i \in 1..Len(s) : (s \o t)[i] = s[i]
         /\ s = <<>> => s \o t = t
<1>1. s \o t \in Seq(S) /\ Len(s) \in Nat /\ Len(s \o t) = Len(s) + Len(t)
      OBVIOUS
<1>2. \A i \in 1..Len(s) : (s \o t)[i] = s[i]
      OBVIOUS
<1>3. s = <<>> => s \o t = t
      OBVIOUS
<1> QED BY <1>1, <1>2, <1>3

LEMMA SendDataKept ==
  ASSUME Restful, TransportInv, NEW n \in IbpNodes, NEW size \in EventSizes, Transport!SendData(n, size)
  PROVE  /\ TransportInv'
         /\ \A k \in DOMAIN ibpEvents : k < Len(ibpEvents) + 1
         /\ \A m \in IbpNodes : Transport!SentEvents(m)' =
              IF m = n THEN Transport!SentEvents(m) \cup {Len(ibpEvents) + 1} ELSE Transport!SentEvents(m)
<1>1. PICK id : id = Len(ibpEvents) + 1
      OBVIOUS
<1>2. PICK q : q = Transport!Data(n, 0, Transport!Nothing, FALSE)
      OBVIOUS
<1>3. /\ TransportTypes /\ TwoNodes /\ size \in Nat \ {0} /\ ~Transport!UnderWay(n)
      /\ ibpEvents' = Append(ibpEvents, [by |-> n, size |-> size])
      /\ chSend' = [chSend EXCEPT ![n] = @ \o [i \in 1..size |-> <<id, i>>]]
      /\ Transport!Put(n, <<>>, <<q>>) /\ UNCHANGED <<chRecv, chReq, heard>>
      BY <1>1, <1>2, TransportAssumption DEF Restful, TransportInv, Transport!SendData
<1>4. /\ Len(ibpEvents) \in Nat /\ DOMAIN ibpEvents = 1..Len(ibpEvents) /\ id \in Nat \ {0}
      /\ \A k \in DOMAIN ibpEvents : k \in Nat \ {0} /\ k < id
      BY <1>1, <1>3, IbpIds
<1>5. /\ ibpEvents' \in Seq([by : IbpNodes, size : Nat \ {0}])
      /\ DOMAIN ibpEvents' = DOMAIN ibpEvents \cup {id}
      /\ ibpEvents'[id] = [by |-> n, size |-> size]
      /\ \A k \in DOMAIN ibpEvents : k \in DOMAIN ibpEvents' /\ ibpEvents'[k] = ibpEvents[k]
  <2> DEFINE S == [by : IbpNodes, size : Nat \ {0}]
             e == [by |-> n, size |-> size]
  <2>1. ibpEvents \in Seq(S) /\ e \in S
        BY <1>3 DEF TransportTypes
  <2>2. ibpEvents' = Append(ibpEvents, e)
        BY <1>3
  <2> HIDE DEF S, e
  <2>3. /\ ibpEvents' \in Seq(S) /\ DOMAIN ibpEvents' = 1..(Len(ibpEvents) + 1)
        /\ ibpEvents'[Len(ibpEvents) + 1] = e /\ \A k \in DOMAIN ibpEvents : ibpEvents'[k] = ibpEvents[k]
        BY <2>1, <2>2, Appended
  <2>4. DOMAIN ibpEvents' = DOMAIN ibpEvents \cup {id}
        BY <1>1, <1>4, <2>3
  <2> QED BY <1>1, <2>3, <2>4 DEF S, e
<1>6. \A m \in IbpNodes : Transport!SentEvents(m)' =
        IF m = n THEN Transport!SentEvents(m) \cup {id} ELSE Transport!SentEvents(m)
      BY <1>5 DEF Transport!SentEvents
<1>7. PICK x \in Transport!IbpPairs : x[1] = n
  <2>1. \E m \in IbpNodes : m # n
        BY <1>3 DEF TwoNodes
  <2>2. PICK m \in IbpNodes : m # n
        BY <2>1
  <2>3. <<n, m>> \in Transport!IbpPairs /\ <<n, m>>[1] = n
        BY <2>2 DEF Transport!IbpPairs
  <2> QED BY <2>3
<1>8. /\ ChannelOK(x) /\ ~Transport!OnAir(n) /\ ~Asking(x)
      /\ chSend[n] # <<>> => Serving(x)
      BY <1>3, <1>7, TransportPairs DEF TransportInv, Transport!UnderWay, Asking, ChannelOK, PendingOK
<1>9. q = [addr |-> n, ack |-> FALSE, fin |-> FALSE, seq |-> 0, chunk |-> Transport!Nothing] /\ q \in AirPacket
      BY <1>2 DEF Transport!Data, AirPacket, Transport!Nothing
<1>10. TokensNew(n, n, <<q>>)
  <2>1. <<>> \notin Transport!IbpPairs /\ <<q>> # <<>> /\ OneToken(n)
        BY <1>7, <1>8 DEF ChannelOK, Transport!IbpPairs
  <2>2. PICK new : new = <<q>> /\ \E e \in AirPacket : new = <<e>>
        BY <1>9, Zenon
  <2> QED BY <1>3, <1>8, <2>1, <2>2, AirStep
<1>11. /\ chSend' \in [IbpNodes -> Seq(Chunk)] /\ \A m \in IbpNodes : m # n => chSend'[m] = chSend[m]
       /\ Len(chSend[n]) \in Nat /\ Len(chSend'[n]) = Len(chSend[n]) + size
       /\ \A i \in 1..Len(chSend[n]) : chSend'[n][i] = chSend[n][i]
       /\ chSend[n] = <<>> => \A i \in 1..size : chSend'[n][i] = <<id, i>>
  <2>1. PICK c : c = [i \in 1..size |-> <<id, i>>]
        OBVIOUS
  <2>2. c \in Seq(Chunk) /\ Len(c) = size /\ \A i \in 1..size : c[i] = <<id, i>>
        BY <1>3, <1>4, <2>1 DEF Chunk
  <2>3. chSend' = [chSend EXCEPT ![n] = @ \o c]
        BY <1>3, <2>1
  <2>4. chSend \in [IbpNodes -> Seq(Chunk)]
        BY <1>3 DEF TransportTypes
  <2> HIDE DEF Chunk
  <2>5. PICK d \in Seq(Chunk) : d = chSend[n]
        BY <2>4
  <2>6. PICK e : e = d \o c
        OBVIOUS
  <2>7. /\ e \in Seq(Chunk) /\ Len(d) \in Nat /\ Len(e) = Len(d) + size
        /\ \A i \in 1..Len(d) : e[i] = d[i]
        /\ d = <<>> => e = c
        BY <2>2, <2>5, <2>6, Concatenated
  <2>8. chSend' = [chSend EXCEPT ![n] = e]
        BY <2>3, <2>5, <2>6
  <2> QED BY <2>2, <2>4, <2>5, <2>7, <2>8
<1>12. TransportTypes'
  <2>1. <<>> \notin Transport!IbpPairs
        BY DEF Transport!IbpPairs
  <2>2. PICK new : new = <<q>> /\ \E e \in AirPacket : new = <<e>>
        BY <1>9, Zenon
  <2>3. air' \in [Transport!IbpPairs -> Seq(AirPacket)]
        BY <1>3, <2>1, <2>2, AirPut
  <2> QED BY <1>3, <1>5, <1>11, <2>3 DEF TransportTypes
<1>13. ChannelOK(x)'
  <2>1. Serving(x)'
    <3>1. CASE chSend[n] = <<>>
      <4>1. id \in Transport!SentEvents(n)' /\ ibpEvents'[id].size = size
            BY <1>5, <1>6
      <4>2. \A i \in DOMAIN heard'[x] : heard'[x][i] < id
            BY <1>3, <1>4, <1>8 DEF ChannelOK, HeardOK
      <4>3. size <= Len(chSend'[n]) /\ \A i \in 1..size : chSend'[n][i] = <<id, i>>
            BY <1>3, <1>11, <3>1
      <4>4. Serves(x, id)'
            BY <1>7, <4>1, <4>2, <4>3 DEF Serves
      <4> QED BY <4>4 DEF Serving
    <3>2. CASE chSend[n] # <<>>
      <4>1. PICK k : Serves(x, k)
            BY <1>8, <3>2 DEF Serving
      <4>2. PICK c \in Nat : c = ibpEvents[k].size
            BY <1>3, <1>7, <4>1, ServesWhat
      <4>3. /\ k \in DOMAIN ibpEvents /\ ibpEvents[k].by = n /\ c <= Len(chSend[n])
            /\ \A i \in 1..c : chSend[n][i] = <<k, i>>
            /\ \A i \in DOMAIN heard[x] : heard[x][i] < k
            BY <1>7, <4>1, <4>2 DEF Serves, Transport!SentEvents
      <4>4. c <= Len(chSend'[n]) /\ \A i \in 1..c : chSend'[n][i] = <<k, i>>
            BY <1>3, <1>11, <4>3
      <4>5. ibpEvents'[k] = ibpEvents[k] /\ k \in Transport!SentEvents(n)'
            BY <1>5, <1>6, <4>3 DEF Transport!SentEvents
      <4>6. Serves(x, k)'
            BY <1>3, <1>7, <4>2, <4>3, <4>4, <4>5 DEF Serves
      <4> QED BY <4>6 DEF Serving
    <3> QED BY <3>1, <3>2
  <2>2. ~Asking(x)' /\ AskOK(x)'
        BY <1>3, <1>8 DEF Asking, ChannelOK, AskOK
  <2>3. TokenOK(x, x, q)'
        BY <1>9, <2>1, <2>2 DEF TokenOK
  <2>4. TokensOK(x)'
    <3> SUFFICES ASSUME NEW y \in Transport!IbpPairs, NEW i, Token(x[1], y, i)'
                 PROVE  TokenOK(x, y, air[y][i])'
        BY DEF TokensOK
    <3>1. y[1] = n /\ air'[y][i] = q
          BY <1>7, <1>10 DEF TokensNew
    <3>2. y = x
          BY <1>3, <1>7, <3>1, TransportPairs
    <3> QED BY <2>3, <3>1, <3>2
  <2>5. Transport!OnAir(n)'
        BY <1>7, <1>9, <1>10 DEF TokensNew
  <2>6. HeardOK(x)'
        BY <1>3, <1>5, <1>8 DEF ChannelOK, HeardOK
  <2> QED BY <1>7, <1>10, <2>2, <2>4, <2>5, <2>6 DEF ChannelOK, PendingOK, TokensNew
<1>14. ASSUME NEW z \in Transport!IbpPairs, z # x PROVE ChannelOK(z)'
  <2>1. ChannelOK(z) /\ z[1] # n /\ z[1] \in IbpNodes
        BY <1>3, <1>7, <1>14, TransportPairs DEF TransportInv
  <2>2. TokensStay(z[1])
    <3>1. <<>> \notin Transport!IbpPairs /\ OneToken(z[1]) /\ q.addr # z[1]
          BY <1>9, <2>1 DEF Transport!IbpPairs, ChannelOK
    <3>2. PICK new : new = <<q>> /\ \E e \in AirPacket : new = <<e>>
          BY <1>9, Zenon
    <3> QED BY <1>3, <3>1, <3>2, AirStep DEF Handled
  <2> QED BY <1>3, <1>5, <1>6, <1>11, <2>1, <2>2, ChannelKept
<1> QED BY <1>1, <1>4, <1>6, <1>12, <1>13, <1>14 DEF TransportInv

(* The packet at the head of a queue: what it is, and whose. *)
LEMMA HeadToken ==
  ASSUME TransportInv, TwoNodes, NEW y \in Transport!IbpPairs, air[y] # <<>>, NEW p, p = Head(air[y])
  PROVE  /\ p \in AirPacket
         /\ \E x \in Transport!IbpPairs :
              /\ x[1] = p.addr /\ TokenOK(x, y, p) /\ Handled(y, x[1]) /\ ~Handled(y, x[2])
              /\ (IF p.ack THEN y = Turned(x) ELSE y = x)
<1> DEFINE S == AirPacket
<1>1. air[y] \in Seq(S)
      BY DEF TransportInv, TransportTypes
<1> HIDE DEF S
<1>2. 1 \in DOMAIN air[y] /\ p = air[y][1] /\ p \in S
      BY <1>1, Tailed
<1>3. p.addr \in IbpNodes
      BY <1>2 DEF S, AirPacket
<1>4. PICK x \in Transport!IbpPairs : x[1] = p.addr
      BY <1>3, TransportPairs
<1>5. Token(x[1], y, 1) /\ ~Token(x[2], y, 1)
      BY <1>2, <1>4, TransportPairs DEF Token
<1>6. TokenOK(x, y, p)
      BY <1>2, <1>5 DEF TransportInv, ChannelOK, TokensOK
<1>7. Handled(y, x[1]) /\ ~Handled(y, x[2]) /\ (IF p.ack THEN y = Turned(x) ELSE y = x)
      BY <1>5, <1>6 DEF Handled, TokenOK
<1> QED BY <1>2, <1>4, <1>6, <1>7 DEF S

(* A step that handles a packet about the events of x[1], sends another, or none, and leaves *)
(* the other direction alone.                                                          *)
LEMMA StepKeeps ==
  ASSUME TransportInv, TwoNodes, NEW x \in Transport!IbpPairs, UNCHANGED ibpEvents,
         NEW n, NEW y, y \in Transport!IbpPairs => air[y] # <<>>,
         NEW new, new = <<>> \/ \E q \in AirPacket : new = <<q>> /\ q.addr = x[1], Transport!Put(n, y, new),
         Handled(y, x[1]) \/ (y \notin Transport!IbpPairs /\ ~Transport!OnAir(x[1])), ~Handled(y, x[2]),
         \A m \in IbpNodes : m # x[1] => chSend'[m] = chSend[m],
         \A m \in IbpNodes : m # x[2] => chReq'[m] = chReq[m] /\ chRecv'[m] = chRecv[m],
         \A z \in Transport!IbpPairs : z # x => heard'[z] = heard[z]
  PROVE  /\ air' \in [Transport!IbpPairs -> Seq(AirPacket)]
         /\ TokensNew(x[1], n, new)
         /\ \A z \in Transport!IbpPairs : z # x => ChannelOK(z)'
<1>1. TransportTypes /\ \A z \in Transport!IbpPairs : ChannelOK(z)
      BY DEF TransportInv
<1>2. new = <<>> \/ \E q \in AirPacket : new = <<q>>
      OBVIOUS
<1>3. air' \in [Transport!IbpPairs -> Seq(AirPacket)]
      BY <1>1, <1>2, AirPut
<1>4. TokensNew(x[1], n, new)
      BY <1>1, <1>2, AirStep DEF ChannelOK
<1>5. ASSUME NEW z \in Transport!IbpPairs, z # x PROVE ChannelOK(z)'
  <2>1. z[1] = x[2] /\ z[2] = x[1] /\ x[1] # x[2] /\ x[1] \in IbpNodes /\ x[2] \in IbpNodes
        BY <1>5, TransportPairs
  <2>2. new # <<>> => new[1].addr # z[1]
        BY <2>1
  <2>3. TokensStay(z[1])
    <3>1. PICK s : s = z[1]
          OBVIOUS
    <3>2. OneToken(s) /\ ~Handled(y, s) /\ (new # <<>> => new[1].addr # s)
          BY <1>1, <2>1, <2>2, <3>1 DEF ChannelOK
    <3>3. TokensStay(s)
          BY <1>1, <1>2, <3>2, AirStep
    <3> QED BY <3>1, <3>3
  <2>4. Transport!SentEvents(z[1])' = Transport!SentEvents(z[1])
        BY DEF Transport!SentEvents
  <2> QED BY <1>1, <1>5, <2>1, <2>3, <2>4, ChannelKept
<1> QED BY <1>3, <1>4, <1>5

(* and what is left to show for x itself. *)
LEMMA NewToken ==
  ASSUME TwoNodes, NEW x \in Transport!IbpPairs, NEW n, NEW new, TokensNew(x[1], n, new),
         NEW z \in Transport!IbpPairs, z[1] = n, new # <<>> => TokenOK(x, z, new[1])',
         AskOK(x)', HeardOK(x)', chSend'[x[1]] # <<>> => (new # <<>> /\ new[1].addr = x[1]) \/ Serving(x)'
  PROVE  ChannelOK(x)'
<1>1. TokensOK(x)'
  <2> SUFFICES ASSUME NEW y \in Transport!IbpPairs, NEW i, Token(x[1], y, i)'
               PROVE  TokenOK(x, y, air[y][i])'
      BY DEF TokensOK
  <2>1. y[1] = n /\ new # <<>> /\ air'[y][i] = new[1]
        BY DEF TokensNew
  <2>2. y = z
        BY <2>1, TransportPairs
  <2>3. PICK q : q = new[1]
        OBVIOUS
  <2>4. TokenOK(x, z, q)'
        BY <2>1, <2>3
  <2> QED BY <2>1, <2>2, <2>3, <2>4
<1>2. PendingOK(x)'
      BY DEF PendingOK, TokensNew
<1> QED BY <1>1, <1>2 DEF ChannelOK, TokensNew

(* What the receiver's side says does not change when nothing of it does. *)
LEMMA AskSame ==
  ASSUME NEW x \in Transport!IbpPairs, UNCHANGED <<ibpEvents, chReq, chRecv, heard>>,
         chSend'[x[1]] = chSend[x[1]], AskOK(x)
  PROVE  AskOK(x)' /\ (Asking(x)' <=> Asking(x)) /\ Asked(x)' = Asked(x) /\ (Serving(x) => Serving(x)')
<1>1. Serving(x) => Serving(x)'
      BY DEF Serving, Serves, Transport!SentEvents
<1>2. (Asking(x)' <=> Asking(x)) /\ Asked(x)' = Asked(x)
      BY DEF Asking, Asked
<1>3. \A k : Collected(x, k) => Collected(x, k)'
      BY DEF Collected, Transport!BufferOf
<1> QED BY <1>1, <1>2, <1>3 DEF AskOK

LEMMA ReceiveAckKept ==
  ASSUME Restful, TransportInv, NEW y \in Transport!IbpPairs, Transport!ReceiveAck(y)
  PROVE  TransportInv'
<1>1. PICK p : p = Head(air[y])
      OBVIOUS
<1>2. /\ TransportTypes /\ TwoNodes /\ air[y] # <<>> /\ p.ack /\ p.addr = y[2]
      /\ UNCHANGED <<ibpEvents, chRecv, chReq, heard>>
      BY <1>1 DEF Restful, TransportInv, Transport!ReceiveAck, Transport!IsMine
<1>3. p \in AirPacket
      BY <1>1, <1>2, HeadToken
<1>4. PICK x \in Transport!IbpPairs :
        /\ x[1] = p.addr /\ TokenOK(x, y, p) /\ Handled(y, x[1]) /\ ~Handled(y, x[2]) /\ y = Turned(x)
      BY <1>1, <1>2, HeadToken
<1>5. ChannelOK(x) /\ x[1] = y[2] /\ x[1] \in IbpNodes /\ DOMAIN chSend = IbpNodes
      BY <1>2, <1>4, TransportPairs DEF TransportInv, TransportTypes
<1>6. CASE p.fin
  <2>1. /\ chSend' = [chSend EXCEPT ![x[1]] = <<>>] /\ Transport!Put(x[1], y, <<>>)
        BY <1>1, <1>5, <1>6 DEF Transport!ReceiveAck
  <2>2. ~Asking(x)
        BY <1>2, <1>4, <1>6 DEF TokenOK
  <2>3. PICK new : new = <<>>
        OBVIOUS
  <2>4. /\ air' \in [Transport!IbpPairs -> Seq(AirPacket)] /\ TokensNew(x[1], x[1], new)
        /\ \A z \in Transport!IbpPairs : z # x => ChannelOK(z)'
        BY <1>2, <1>4, <1>5, <2>1, <2>3, StepKeeps
  <2>5. chSend'[x[1]] = <<>> /\ chSend' \in [IbpNodes -> Seq(Chunk)]
        BY <1>2, <1>5, <2>1 DEF TransportTypes
  <2>6. AskOK(x)'
        BY <1>2, <1>5, <2>2 DEF ChannelOK, AskOK, Asking
  <2>7. HeardOK(x)'
        BY <1>2, <1>5 DEF ChannelOK, HeardOK
  <2>8. ChannelOK(x)'
        BY <1>2, <2>3, <2>4, <2>5, <2>6, <2>7, NewToken
  <2> QED BY <1>2, <2>4, <2>5, <2>8 DEF TransportInv, TransportTypes
<1>7. CASE ~p.fin
  <2>1. Asking(x) /\ p.seq = Asked(x)
        BY <1>2, <1>4, <1>7 DEF TokenOK
  <2>2. Asked(x) \in 0..(Len(chSend[x[1]]) - 1)
        BY <1>5, <2>1 DEF ChannelOK, AskOK
  <2>3. PICK k \in Nat : k = p.seq
        BY <1>3 DEF AirPacket
  <2>4. PICK len \in Nat : len = Len(chSend[x[1]])
        BY <1>2, <1>5, ChunksAre
  <2>5. /\ k < len /\ chSend[x[1]][k + 1] \in Chunk
    <3>1. k < len /\ k + 1 \in 1..len
          BY <2>1, <2>2, <2>3, <2>4
    <3> QED BY <1>2, <1>5, <2>4, <3>1, ChunksAre
  <2>18. PICK c \in Chunk : c = chSend[x[1]][k + 1]
         BY <2>5
  <2>16. PICK fin \in BOOLEAN : fin <=> k = len - 1
         OBVIOUS
  <2>6. PICK q : q = Transport!Data(x[1], k, c, fin)
        OBVIOUS
  <2>7. chSend' = chSend /\ Transport!Put(x[1], y, <<q>>)
    <3>1. chSend' = chSend
          BY <1>1, <1>2, <1>5, <1>7 DEF Transport!ReceiveAck, TransportTypes
    <3>2. Transport!Put(x[1], y, IF p.fin \/ k >= len THEN <<>>
                                ELSE <<Transport!Data(x[1], k, chSend[x[1]][k + 1], k = len - 1)>>)
          BY <1>1, <1>5, <2>3, <2>4, Zenon DEF Transport!ReceiveAck
    <3>3. ~(p.fin \/ k >= len) /\ fin = (k = len - 1)
          BY <1>7, <2>5, <2>16
    <3> QED BY <2>6, <2>18, <3>1, <3>2, <3>3, Zenon
  <2>8. /\ q.addr = x[1] /\ ~q.ack /\ q.fin = fin /\ q.seq = k /\ q.chunk = c
        /\ q.chunk # Transport!Nothing /\ q \in AirPacket
        BY <1>5, <2>6 DEF Transport!Data, AirPacket, Transport!Nothing, Chunk
  <2>17. PICK new : new = <<q>>
         OBVIOUS
  <2>9. new = <<q>> /\ new # <<>> /\ new[1] = q
        BY <2>17
  <2>10. new = <<>> \/ \E e \in AirPacket : new = <<e>> /\ e.addr = x[1]
         BY <2>8, <2>9
  <2>11. /\ air' \in [Transport!IbpPairs -> Seq(AirPacket)] /\ TokensNew(x[1], x[1], new)
         /\ \A z \in Transport!IbpPairs : z # x => ChannelOK(z)'
         BY <1>2, <1>4, <2>7, <2>9, <2>10, StepKeeps
  <2>12. AskOK(x)' /\ Asking(x)' /\ Asked(x)' = k
         BY <1>2, <1>5, <2>1, <2>3, <2>7, AskSame DEF ChannelOK
  <2>13. TokenOK(x, x, q)'
    <3>1. q.seq = Asked(x)' /\ q.chunk = chSend'[x[1]][q.seq + 1]
          BY <2>7, <2>8, <2>12, <2>18
    <3>2. q.fin <=> q.seq = Len(chSend'[x[1]]) - 1
          BY <2>4, <2>7, <2>8, <2>16
    <3>3. ~q.ack /\ q.chunk # Transport!Nothing /\ Asking(x)'
          BY <2>8, <2>12
    <3> QED BY <3>1, <3>2, <3>3 DEF TokenOK
  <2>14. HeardOK(x)'
         BY <1>2, <1>5 DEF ChannelOK, HeardOK
  <2>15. ChannelOK(x)'
    <3>1. new[1].addr = x[1] /\ TokenOK(x, x, new[1])'
          BY <2>8, <2>9, <2>13 DEF TokenOK
    <3> QED BY <1>2, <2>9, <2>11, <2>12, <2>14, <3>1, NewToken
  <2> QED BY <1>2, <2>7, <2>11, <2>15 DEF TransportInv, TransportTypes
<1> QED BY <1>6, <1>7

LEMMA AirCounts == \A S : Transport!Cardinality(S) = Cardinality(S)
BY DEF Transport!Cardinality, Cardinality

LEMMA FlushedWhole ==
  ASSUME NEW id, NEW n \in Nat \ {0}, ibpEvents[id].size = n, NEW m \in Nat, n <= m,
         NEW buf, DOMAIN buf = 0..(m - 1), \A j \in 0..(n - 1) : buf[j] = <<id, j + 1>>
  PROVE  Transport!Flushed(buf) = <<id>>
<1>1. \A k \in 0..m : Cardinality(0..(k - 1)) = k
  <2> TAKE k \in 0..m
  <2>1. 0 \in Int /\ k - 1 \in Int
        OBVIOUS
  <2>2. Cardinality(0..(k - 1)) = IF 0 > k - 1 THEN 0 ELSE (k - 1) - 0 + 1
        BY <2>1, FS_Interval
  <2> QED BY <2>2
<1>2. Transport!Cardinality(DOMAIN buf) = m
      BY <1>1, AirCounts
<1>3. \A k \in DOMAIN buf : Transport!Place(buf, k) = k + 1
  <2> SUFFICES ASSUME NEW k \in 0..(m - 1) PROVE Transport!Place(buf, k) = k + 1
      OBVIOUS
  <2>1. {j \in DOMAIN buf : j < k} = 0..(k - 1)
        OBVIOUS
  <2>2. k \in 0..m
        OBVIOUS
  <2> QED BY <1>1, <2>1, <2>2, AirCounts DEF Transport!Place
<1>4. \A k \in DOMAIN buf : Transport!Place(buf, k) <= n => buf[k] = <<id, Transport!Place(buf, k)>>
  <2> SUFFICES ASSUME NEW k \in DOMAIN buf, k + 1 <= n PROVE buf[k] = <<id, k + 1>>
      BY <1>3
  <2>1. k \in 0..(n - 1)
        OBVIOUS
  <2> QED BY <2>1
<1>5. 0 \in DOMAIN buf /\ 0 \in 0..(n - 1) /\ buf # <<>>
      OBVIOUS
<1>6. Transport!First(buf) = 0
  <2>1. ASSUME NEW k \in DOMAIN buf, \A j \in DOMAIN buf : k <= j PROVE k = 0
    <3>1. k <= 0 /\ k \in 0..(m - 1)
          BY <1>5, <2>1
    <3> QED BY <3>1
  <2>2. \A j \in DOMAIN buf : 0 <= j
        OBVIOUS
  <2> QED BY <1>5, <2>1, <2>2 DEF Transport!First
<1>7. buf[0][1] = id /\ buf[0][2] = 1
      BY <1>5
<1>8. ~(m < n)
      OBVIOUS
<1> QED BY <1>2, <1>4, <1>5, <1>6, <1>7, <1>8 DEF Transport!Flushed

(* A packet of the sender is answered by a request. *)
LEMMA Replied ==
  ASSUME TransportInv, TwoNodes, NEW x \in Transport!IbpPairs, UNCHANGED <<ibpEvents, chSend>>,
         NEW y, y \in Transport!IbpPairs => air[y] # <<>>,
         Handled(y, x[1]) \/ (y \notin Transport!IbpPairs /\ ~Transport!OnAir(x[1])), ~Handled(y, x[2]),
         NEW k \in Nat, NEW fin \in BOOLEAN,
         Transport!Put(x[2], y, <<Transport!AckOf(x[1], k, fin)>>),
         \A m \in IbpNodes : m # x[2] => chReq'[m] = chReq[m] /\ chRecv'[m] = chRecv[m],
         DOMAIN chReq' = IbpNodes, DOMAIN chRecv' = IbpNodes,
         \A z \in Transport!IbpPairs : z # x => heard'[z] = heard[z],
         heard' \in [Transport!IbpPairs -> Seq(Nat)],
         AskOK(x)', HeardOK(x)', IF fin THEN ~Asking(x)' ELSE Asking(x)' /\ Asked(x)' = k
  PROVE  TransportInv'
<1>1. PICK q : q = Transport!AckOf(x[1], k, fin)
      OBVIOUS
<1>2. x[1] \in IbpNodes /\ TransportTypes /\ ChannelOK(x)
      BY TransportPairs DEF TransportInv
<1>3. q.addr = x[1] /\ q.ack /\ q.fin = fin /\ q.seq = k /\ q \in AirPacket
      BY <1>1, <1>2 DEF Transport!AckOf, AirPacket, Transport!Nothing
<1>4. PICK new : new = <<q>>
      OBVIOUS
<1>5. new # <<>> /\ new[1] = q /\ Transport!Put(x[2], y, new)
      BY <1>1, <1>4
<1>6. new = <<>> \/ \E e \in AirPacket : new = <<e>> /\ e.addr = x[1]
      BY <1>3, <1>4
<1>7. /\ air' \in [Transport!IbpPairs -> Seq(AirPacket)] /\ TokensNew(x[1], x[2], new)
      /\ \A z \in Transport!IbpPairs : z # x => ChannelOK(z)'
      BY <1>2, <1>5, <1>6, StepKeeps
<1>8. Turned(x) \in Transport!IbpPairs /\ Turned(x)[1] = x[2]
      BY TransportPairs
<1>9. TokenOK(x, Turned(x), q)'
      BY <1>3 DEF TokenOK, Turned
<1>10. PICK z \in Transport!IbpPairs : z[1] = x[2] /\ TokenOK(x, z, q)'
       BY <1>8, <1>9 DEF Turned
<1>11. ChannelOK(x)'
       BY <1>3, <1>5, <1>7, <1>10, NewToken
<1> QED BY <1>2, <1>7, <1>11 DEF TransportInv, TransportTypes

LEMMA ReceiveDataIs ==
  ASSUME Restful, TransportInv, NEW x \in Transport!IbpPairs, Transport!ReceiveData(x),
         NEW p, p = Head(air[x])
  PROVE  /\ TransportTypes /\ TwoNodes /\ ChannelOK(x) /\ air[x] # <<>>
         /\ x = <<x[1], x[2]>> /\ x[1] \in IbpNodes /\ x[2] \in IbpNodes
         /\ p \in AirPacket /\ ~p.ack /\ p.addr = x[1] /\ TokenOK(x, x, p)
         /\ Handled(x, x[1]) /\ ~Handled(x, x[2])
<1>1. /\ TransportTypes /\ TwoNodes /\ air[x] # <<>> /\ ~(p.ack /\ p.addr = x[2]) /\ ChannelOK(x)
      BY DEF Restful, TransportInv, Transport!ReceiveData, Transport!IsMine
<1>2. p \in AirPacket
      BY <1>1, HeadToken
<1>3. PICK y \in Transport!IbpPairs :
        /\ y[1] = p.addr /\ TokenOK(y, x, p) /\ Handled(x, y[1]) /\ ~Handled(x, y[2])
        /\ IF p.ack THEN x = Turned(y) ELSE x = y
      BY <1>1, HeadToken
<1>4. ~p.ack
      BY <1>1, <1>3, TransportPairs
<1> QED BY <1>1, <1>2, <1>3, <1>4, TransportPairs

LEMMA HandshakeKept ==
  ASSUME Restful, TransportInv, NEW x \in Transport!IbpPairs, Transport!ReceiveData(x),
         NEW p, p = Head(air[x]), p.chunk = Transport!Nothing
  PROVE  TransportInv' /\ UNCHANGED heard
<1>1. /\ TransportTypes /\ TwoNodes /\ ChannelOK(x) /\ air[x] # <<>>
      /\ x = <<x[1], x[2]>> /\ x[1] \in IbpNodes /\ x[2] \in IbpNodes
      /\ p \in AirPacket /\ ~p.ack /\ p.addr = x[1] /\ TokenOK(x, x, p)
      /\ Handled(x, x[1]) /\ ~Handled(x, x[2])
      BY ReceiveDataIs
<1>2. ~p.fin /\ ~Asking(x) /\ Serving(x)
      BY <1>1 DEF TokenOK
<1>3. /\ UNCHANGED <<ibpEvents, chSend, chRecv, heard>>
      /\ chReq' = [chReq EXCEPT ![x[2]] = Transport!With(@, x[1], -1)]
      /\ Transport!Put(x[2], x, <<Transport!AckOf(x[1], 0, p.fin)>>)
  <2>1. PICK seq : seq = -1
        OBVIOUS
  <2>2. seq = IF p.chunk = Transport!Nothing THEN -1 ELSE p.seq
        BY <2>1
  <2>3. Transport!Put(x[2], x, <<Transport!AckOf(p.addr, seq + 1, p.fin)>>)
        BY <2>2, Zenon DEF Transport!ReceiveData
  <2>4. seq + 1 = 0
        BY <2>1
  <2>5. Transport!Put(x[2], x, <<Transport!AckOf(x[1], 0, p.fin)>>)
        BY <1>1, <2>3, <2>4, Zenon
  <2>6. /\ UNCHANGED <<ibpEvents, chSend, chRecv, heard>>
        /\ chReq' = [chReq EXCEPT ![x[2]] = Transport!With(@, p.addr, -1)]
        BY <1>1, <1>2 DEF Transport!ReceiveData
  <2> QED BY <1>1, <2>5, <2>6
<1>4. /\ DOMAIN chReq' = IbpNodes /\ \A m \in IbpNodes : m # x[2] => chReq'[m] = chReq[m]
      /\ DOMAIN chReq'[x[2]] = {x[1]} /\ chReq'[x[2]][x[1]] = -1
  <2>1. chReq'[x[2]] = Transport!With(chReq[x[2]], x[1], -1)
        BY <1>1, <1>3 DEF TransportTypes
  <2>2. DOMAIN chReq[x[2]] \subseteq {x[1]}
        BY <1>1 DEF ChannelOK, AskOK
  <2>3. DOMAIN chReq'[x[2]] = DOMAIN chReq[x[2]] \cup {x[1]} /\ chReq'[x[2]][x[1]] = -1
    <3>1. PICK f, g : f = chReq[x[2]] /\ g = chReq'[x[2]]
          OBVIOUS
    <3>2. g = Transport!With(f, x[1], -1)
          BY <2>1, <3>1
    <3>3. DOMAIN g = DOMAIN f \cup {x[1]} /\ g[x[1]] = -1
          BY <3>2 DEF Transport!With
    <3> QED BY <3>1, <3>3
  <2> QED BY <1>1, <1>3, <2>2, <2>3 DEF TransportTypes
<1>5. PICK id : Serves(x, id)
      BY <1>2 DEF Serving
<1>6. Serving(x)'
      BY <1>3, <1>5 DEF Serving, Serves, Transport!SentEvents
<1>7. Asking(x)' /\ Asked(x)' = 0
      BY <1>4 DEF Asking, Asked
<1>8. AskOK(x)'
  <2>1. 0 \in 0..(Len(chSend'[x[1]]) - 1)
        BY <1>1, <1>3, <1>5, ServesWhat
  <2>2. x[1] \notin DOMAIN chRecv'[x[2]]
        BY <1>1, <1>2, <1>3 DEF ChannelOK, AskOK
  <2>3. \A k : k = 0 => Collected(x, k)'
        BY <2>2 DEF Collected, Transport!BufferOf
  <2>4. Collected(x, Asked(x))'
    <3>1. PICK k : k = Asked(x)'
          OBVIOUS
    <3>2. Collected(x, k)'
          BY <1>7, <2>3, <3>1
    <3> QED BY <3>1, <3>2 DEF Collected
  <2> QED BY <1>4, <1>6, <1>7, <2>1, <2>4 DEF AskOK
<1>9. HeardOK(x)'
      BY <1>1, <1>3 DEF ChannelOK, HeardOK
<1>10. PICK fin \in BOOLEAN : fin = p.fin
       BY <1>1 DEF AirPacket
<1>11. TransportInv'
  <2>1. DOMAIN chRecv' = IbpNodes /\ heard' \in [Transport!IbpPairs -> Seq(Nat)]
        BY <1>1, <1>3 DEF TransportTypes
  <2>2. PICK k \in Nat : k = 0
        OBVIOUS
  <2> QED BY <1>1, <1>2, <1>3, <1>4, <1>7, <1>8, <1>9, <1>10, <2>1, <2>2, Replied
<1> QED BY <1>3, <1>11

LEMMA ChunkKept ==
  ASSUME Restful, TransportInv, NEW x \in Transport!IbpPairs, Transport!ReceiveData(x),
         NEW p, p = Head(air[x]), p.chunk # Transport!Nothing
  PROVE  /\ TransportInv'
         /\ \/ UNCHANGED heard
            \/ \E id : Serves(x, id) /\ heard' = [heard EXCEPT ![x] = Append(@, id)]
<1>1. /\ TransportTypes /\ TwoNodes /\ ChannelOK(x) /\ air[x] # <<>>
      /\ x = <<x[1], x[2]>> /\ x[1] \in IbpNodes /\ x[2] \in IbpNodes
      /\ p \in AirPacket /\ ~p.ack /\ p.addr = x[1] /\ TokenOK(x, x, p)
      /\ Handled(x, x[1]) /\ ~Handled(x, x[2])
      BY ReceiveDataIs
<1>2. /\ Asking(x) /\ p.seq = Asked(x) /\ p.chunk = chSend[x[1]][p.seq + 1]
      /\ p.fin <=> p.seq = Len(chSend[x[1]]) - 1
      BY <1>1 DEF TokenOK
<1>3. Serving(x) /\ Asked(x) \in 0..(Len(chSend[x[1]]) - 1) /\ Collected(x, Asked(x))
      BY <1>1, <1>2 DEF ChannelOK, AskOK
<1>4. PICK k \in Nat : k = p.seq
      BY <1>1 DEF AirPacket
<1>5. PICK n \in Nat, c \in Nat \X Nat : n = Len(chSend[x[1]]) /\ c = p.chunk
      BY <1>1, ChunksAre DEF AirPacket
<1>6. k \in 0..(n - 1) /\ c = chSend[x[1]][k + 1] /\ (p.fin <=> k = n - 1) /\ Collected(x, k)
      BY <1>2, <1>3, <1>4, <1>5
<1>7. PICK buf : buf = Transport!With(Transport!BufferOf(x[2], x[1]), k, c)
      OBVIOUS
<1>8. DOMAIN buf = 0..k /\ \A j \in 0..k : buf[j] = chSend[x[1]][j + 1]
  <2>1. PICK f : f = Transport!BufferOf(x[2], x[1])
        OBVIOUS
  <2>2. DOMAIN f = 0..(k - 1) /\ \A j \in 0..(k - 1) : f[j] = chSend[x[1]][j + 1]
        BY <1>6, <2>1 DEF Collected
  <2>4. buf = Transport!With(f, k, c)
        BY <1>7, <2>1
  <2>5. DOMAIN buf = DOMAIN f \cup {k} /\ buf[k] = c /\ \A j \in DOMAIN f : j # k => buf[j] = f[j]
        BY <2>4 DEF Transport!With
  <2>6. (0..(k - 1)) \cup {k} = 0..k /\ \A j \in 0..k : j = k \/ (j \in 0..(k - 1) /\ j # k)
        OBVIOUS
  <2> QED BY <1>6, <2>2, <2>5, <2>6
<1>16. PICK id : Serves(x, id)
       BY <1>3 DEF Serving
<1>9. PICK fin \in BOOLEAN : fin = p.fin
      BY <1>1 DEF AirPacket
<1>10. /\ UNCHANGED <<ibpEvents, chSend>> /\ Transport!Put(x[2], x, <<Transport!AckOf(x[1], k + 1, fin)>>)
       /\ fin => /\ heard' = [heard EXCEPT ![x] = @ \o Transport!Flushed(buf)]
                 /\ chRecv' = [chRecv EXCEPT ![x[2]] = Transport!Without(@, x[1])]
                 /\ chReq' = [chReq EXCEPT ![x[2]] = Transport!Without(@, x[1])]
       /\ ~fin => /\ UNCHANGED heard
                  /\ chRecv' = [chRecv EXCEPT ![x[2]] = Transport!With(@, x[1], buf)]
                  /\ chReq' = [chReq EXCEPT ![x[2]] = Transport!With(@, x[1], k)]
  <2>1. /\ k = IF p.chunk = Transport!Nothing THEN -1 ELSE p.seq
        /\ buf = IF p.chunk = Transport!Nothing THEN Transport!BufferOf(x[2], p.addr)
                 ELSE Transport!With(Transport!BufferOf(x[2], p.addr), k, p.chunk)
        BY <1>1, <1>4, <1>5, <1>7
  <2>2. /\ UNCHANGED <<ibpEvents, chSend>>
        /\ Transport!Put(x[2], x, <<Transport!AckOf(p.addr, k + 1, p.fin)>>)
        /\ IF p.fin
           THEN /\ heard' = [heard EXCEPT ![<<x[1], x[2]>>] = @ \o Transport!Flushed(buf)]
                /\ chRecv' = [chRecv EXCEPT ![x[2]] = Transport!Without(@, p.addr)]
                /\ chReq' = [chReq EXCEPT ![x[2]] = Transport!Without(@, p.addr)]
           ELSE /\ UNCHANGED heard
                /\ chRecv' = IF p.chunk = Transport!Nothing THEN chRecv
                             ELSE [chRecv EXCEPT ![x[2]] = Transport!With(@, p.addr, buf)]
                /\ chReq' = [chReq EXCEPT ![x[2]] = Transport!With(@, p.addr, k)]
        BY <2>1, Zenon DEF Transport!ReceiveData
  <2> QED BY <1>1, <1>9, <2>2, Zenon
<1>11. /\ DOMAIN chReq' = IbpNodes /\ DOMAIN chRecv' = IbpNodes
       /\ \A m \in IbpNodes : m # x[2] => chReq'[m] = chReq[m] /\ chRecv'[m] = chRecv[m]
       BY <1>1, <1>10 DEF TransportTypes
<1>12. DOMAIN chReq[x[2]] \subseteq {x[1]}
       BY <1>1 DEF ChannelOK, AskOK
<1>13. k + 1 \in Nat
       OBVIOUS
<1>14. CASE fin
  <2>1. Transport!Flushed(buf) = <<id>>
    <3>1. k = n - 1
          BY <1>6, <1>9, <1>14
    <3>2. PICK size \in Nat \ {0} : size = ibpEvents[id].size
          BY <1>1, <1>16, ServesWhat
    <3>3. size <= n /\ \A i \in 1..size : chSend[x[1]][i] = <<id, i>>
          BY <1>1, <1>5, <1>16, <3>2, ServesWhat
    <3>4. \A j \in 0..(size - 1) : j \in 0..k /\ j + 1 \in 1..size
          BY <3>1, <3>3
    <3>5. DOMAIN buf = 0..(n - 1)
          BY <1>8, <3>1
    <3>6. \A j \in 0..(size - 1) : buf[j] = <<id, j + 1>>
      <4> TAKE j \in 0..(size - 1)
      <4>1. j \in 0..k /\ j + 1 \in 1..size
            BY <3>4
      <4>2. buf[j] = chSend[x[1]][j + 1]
            BY <1>8, <4>1, Zenon
      <4>3. chSend[x[1]][j + 1] = <<id, j + 1>>
            BY <3>3, <4>1, Zenon
      <4> QED BY <4>2, <4>3
    <3> QED BY <3>2, <3>3, <3>5, <3>6, FlushedWhole, SMTT(20)
  <2>2. heard' = [heard EXCEPT ![x] = Append(@, id)]
    <3>1. PICK s \in Seq(Nat) : s = heard[x]
          BY <1>1 DEF TransportTypes
    <3>2. s \o <<id>> = Append(s, id)
          BY <3>1
    <3>3. heard' = [heard EXCEPT ![x] = heard[x] \o Transport!Flushed(buf)]
          BY <1>10, <1>14
    <3> QED BY <2>1, <3>1, <3>2, <3>3
  <2>3. /\ heard' \in [Transport!IbpPairs -> Seq(Nat)]
        /\ \A z \in Transport!IbpPairs : z # x => heard'[z] = heard[z]
        /\ heard'[x] = Append(heard[x], id)
    <3>1. id \in Nat
          BY <1>1, <1>16, ServesWhat
    <3> QED BY <1>1, <2>2, <3>1 DEF TransportTypes
  <2>4. /\ chReq'[x[2]] = Transport!Without(chReq[x[2]], x[1])
        /\ chRecv'[x[2]] = Transport!Without(chRecv[x[2]], x[1])
        BY <1>1, <1>10, <1>14 DEF TransportTypes
  <2>5. DOMAIN chReq'[x[2]] = DOMAIN chReq[x[2]] \ {x[1]} /\ DOMAIN chRecv'[x[2]] = DOMAIN chRecv[x[2]] \ {x[1]}
    <3>1. PICK f, g, r, u : f = chReq[x[2]] /\ g = chReq'[x[2]] /\ r = chRecv[x[2]] /\ u = chRecv'[x[2]]
          OBVIOUS
    <3>2. g = Transport!Without(f, x[1]) /\ u = Transport!Without(r, x[1])
          BY <2>4, <3>1
    <3>3. DOMAIN g = DOMAIN f \ {x[1]}
          BY <3>2 DEF Transport!Without
    <3>4. DOMAIN u = DOMAIN r \ {x[1]}
          BY <3>2 DEF Transport!Without
    <3> QED BY <3>1, <3>3, <3>4
  <2>6. AskOK(x)' /\ ~Asking(x)'
        BY <1>12, <2>5 DEF AskOK, Asking
  <2>7. HeardOK(x)'
    <3>1. PICK s \in Seq(Nat) : s = heard[x]
          BY <1>1 DEF TransportTypes
    <3>2. id \in Nat /\ id \in DOMAIN ibpEvents
          BY <1>1, <1>16, ServesWhat
    <3>3. \A i \in DOMAIN Append(s, id) : Append(s, id)[i] = id \/ (i \in DOMAIN s /\ Append(s, id)[i] = s[i])
      <4>1. /\ Len(s) \in Nat /\ DOMAIN s = 1..Len(s) /\ DOMAIN Append(s, id) = 1..(Len(s) + 1)
            /\ Append(s, id)[Len(s) + 1] = id /\ \A i \in DOMAIN s : Append(s, id)[i] = s[i]
            BY <3>2, Appended
      <4>2. \A i \in 1..(Len(s) + 1) : i = Len(s) + 1 \/ i \in 1..Len(s)
            BY <4>1
      <4> QED BY <4>1, <4>2
    <3>4. heard'[x] = Append(s, id) /\ ibpEvents' = ibpEvents
          BY <1>10, <2>3, <3>1
    <3>5. \A i \in DOMAIN s : s[i] \in DOMAIN ibpEvents
          BY <1>1, <3>1 DEF ChannelOK, HeardOK
    <3>6. PICK u : u = Append(s, id)
          OBVIOUS
    <3>7. \A i \in DOMAIN u : u[i] \in DOMAIN ibpEvents
          BY <3>2, <3>3, <3>5, <3>6
    <3> QED BY <3>4, <3>6, <3>7 DEF HeardOK
  <2>8. TransportInv'
        BY <1>1, <1>10, <1>11, <1>13, <1>14, <2>3, <2>6, <2>7, Replied
  <2> QED BY <1>16, <2>2, <2>8
<1>15. CASE ~fin
  <2>1. UNCHANGED heard
        BY <1>10, <1>15
  <2>2. /\ chReq'[x[2]] = Transport!With(chReq[x[2]], x[1], k)
        /\ chRecv'[x[2]] = Transport!With(chRecv[x[2]], x[1], buf)
        BY <1>1, <1>10, <1>15 DEF TransportTypes
  <2>3. /\ DOMAIN chReq'[x[2]] = DOMAIN chReq[x[2]] \cup {x[1]} /\ chReq'[x[2]][x[1]] = k
        /\ x[1] \in DOMAIN chRecv'[x[2]] /\ chRecv'[x[2]][x[1]] = buf
    <3>1. PICK f, g, r, u : f = chReq[x[2]] /\ g = chReq'[x[2]] /\ r = chRecv[x[2]] /\ u = chRecv'[x[2]]
          OBVIOUS
    <3>2. g = Transport!With(f, x[1], k) /\ u = Transport!With(r, x[1], buf)
          BY <2>2, <3>1
    <3>3. DOMAIN g = DOMAIN f \cup {x[1]} /\ g[x[1]] = k
          BY <3>2 DEF Transport!With
    <3>4. DOMAIN u = DOMAIN r \cup {x[1]} /\ u[x[1]] = buf
          BY <3>2 DEF Transport!With
    <3> QED BY <3>1, <3>3, <3>4
  <2>4. Asking(x)' /\ Asked(x)' = k + 1
        BY <2>3 DEF Asking, Asked
  <2>5. AskOK(x)'
    <3>1. Serving(x)' /\ chSend' = chSend
          BY <1>10, <1>16, <2>1 DEF Serving, Serves, Transport!SentEvents
    <3>2. k + 1 \in 0..(Len(chSend'[x[1]]) - 1)
          BY <1>5, <1>6, <1>9, <1>15, <3>1
    <3>3. PICK m \in Nat : m = k + 1
          BY <1>13
    <3>4. Collected(x, m)'
      <4>1. Transport!BufferOf(x[2], x[1])' = buf
            BY <2>3 DEF Transport!BufferOf
      <4>2. m - 1 = k
            BY <3>3
      <4> QED BY <1>8, <3>1, <4>1, <4>2 DEF Collected
    <3>5. Collected(x, Asked(x))'
          BY <2>4, <3>3, <3>4 DEF Collected
    <3> QED BY <1>12, <2>3, <2>4, <3>1, <3>2, <3>5 DEF AskOK
  <2>6. HeardOK(x)'
        BY <1>1, <1>10, <2>1 DEF ChannelOK, HeardOK
  <2>7. heard' \in [Transport!IbpPairs -> Seq(Nat)]
        BY <1>1, <2>1 DEF TransportTypes
  <2>8. TransportInv'
        BY <1>1, <1>10, <1>11, <1>13, <1>15, <2>1, <2>4, <2>5, <2>6, <2>7, Replied
  <2> QED BY <2>1, <2>8
<1> QED BY <1>14, <1>15

LEMMA IdleKept ==
  ASSUME Restful, TransportInv, NEW n \in IbpNodes, NEW c \in IbpNodes, Transport!Idle(n, c)
  PROVE  TransportInv'
<1>1. /\ TransportTypes /\ TwoNodes /\ c \in DOMAIN chReq[n] /\ ~Transport!OnAir(c)
      /\ Transport!Put(n, <<>>, <<Transport!AckOf(c, chReq[n][c] + 1, FALSE)>>)
      /\ UNCHANGED <<ibpEvents, chSend, chRecv, chReq, heard>>
      BY DEF Restful, TransportInv, Transport!Idle
<1>2. PICK x \in Transport!IbpPairs : x[2] = n
  <2>1. PICK m \in IbpNodes : m # n
        BY <1>1 DEF TwoNodes
  <2>2. <<m, n>> \in Transport!IbpPairs /\ <<m, n>>[2] = n
        BY <2>1 DEF Transport!IbpPairs
  <2> QED BY <2>2
<1>3. ChannelOK(x) /\ AskOK(x)
      BY <1>2 DEF TransportInv, ChannelOK
<1>4. c = x[1] /\ Asking(x)
      BY <1>1, <1>2, <1>3 DEF AskOK, Asking
<1>5. Asked(x) \in 0..(Len(chSend[x[1]]) - 1)
      BY <1>3, <1>4 DEF AskOK
<1>6. PICK k \in Nat : k = Asked(x)
      BY <1>5
<1>7. Transport!Put(x[2], <<>>, <<Transport!AckOf(x[1], k, FALSE)>>)
      BY <1>1, <1>2, <1>4, <1>6 DEF Asked
<1>8. PICK y : y = <<>> /\ y \notin Transport!IbpPairs
      BY DEF Transport!IbpPairs
<1>9. Transport!Put(x[2], y, <<Transport!AckOf(x[1], k, FALSE)>>)
      BY <1>7, <1>8
<1>10. ~Transport!OnAir(x[1]) /\ ~Handled(y, x[2]) /\ y \notin Transport!IbpPairs
       BY <1>1, <1>4, <1>8 DEF Handled
<1>11. AskOK(x)' /\ Asking(x)' /\ Asked(x)' = k
       BY <1>1, <1>3, <1>4, <1>6, AskSame
<1>12. HeardOK(x)'
       BY <1>1, <1>3 DEF ChannelOK, HeardOK
<1>13. DOMAIN chReq' = IbpNodes /\ DOMAIN chRecv' = IbpNodes /\ heard' \in [Transport!IbpPairs -> Seq(Nat)]
       BY <1>1 DEF TransportTypes
<1>14. PICK fin \in BOOLEAN : fin = FALSE
       OBVIOUS
<1>15. Transport!Put(x[2], y, <<Transport!AckOf(x[1], k, fin)>>)
       BY <1>9, <1>14
<1> QED BY <1>1, <1>10, <1>11, <1>12, <1>13, <1>14, <1>15, Replied

LEMMA LosePacketKept ==
  ASSUME Restful, TransportInv, NEW y \in Transport!IbpPairs, Transport!LosePacket(y)
  PROVE  TransportInv'
<1>1. PICK p : p = Head(air[y])
      OBVIOUS
<1>2. /\ TransportTypes /\ TwoNodes /\ air[y] # <<>> /\ Transport!Kind(p) # "final"
      /\ air' = [air EXCEPT ![y] = Tail(@)]
      /\ UNCHANGED <<ibpEvents, chSend, chRecv, chReq, heard>>
      BY <1>1 DEF Restful, TransportInv, Transport!LosePacket
<1>3. PICK x \in Transport!IbpPairs : TokenOK(x, y, p) /\ Handled(y, x[1]) /\ ~Handled(y, x[2])
      BY <1>1, <1>2, HeadToken
<1>4. ChannelOK(x) /\ AskOK(x)
      BY DEF TransportInv, ChannelOK
<1>5. p \in AirPacket
      BY <1>1, <1>2, HeadToken
<1>6. Serving(x)
  <2>1. ~(p.ack /\ p.fin)
        BY <1>2 DEF Transport!Kind
  <2>2. Asking(x) \/ Serving(x)
        BY <1>3, <2>1 DEF TokenOK
  <2> QED BY <1>4, <2>2 DEF AskOK
<1>7. PICK new : new = <<>>
      OBVIOUS
<1>8. Transport!Put(y[1], y, new)
  <2> DEFINE S == AirPacket
  <2>1. air \in [Transport!IbpPairs -> Seq(S)]
        BY <1>2 DEF TransportTypes
  <2> HIDE DEF S
  <2>2. \A z \in Transport!IbpPairs :
          (IF z = y THEN Tail(air[z]) ELSE air[z]) \o (IF z[1] = y[1] THEN new ELSE <<>>) = air'[z]
    <3> TAKE z \in Transport!IbpPairs
    <3>1. air'[z] = IF z = y THEN Tail(air[z]) ELSE air[z]
          BY <1>2, <2>1
    <3>2. air'[z] \in Seq(S)
      <4>1. air[z] \in Seq(S) /\ (z = y => air[z] # <<>>)
            BY <1>2, <2>1
      <4> QED BY <3>1, <4>1, Tailed
    <3>3. air'[z] \o <<>> = air'[z]
          BY <3>2
    <3> QED BY <1>7, <3>1, <3>3
  <2>3. air' = [z \in Transport!IbpPairs |-> air'[z]]
        BY <1>2, <2>1
  <2> QED BY <2>2, <2>3 DEF Transport!Put
<1>9. /\ air' \in [Transport!IbpPairs -> Seq(AirPacket)] /\ TokensNew(x[1], y[1], new)
      /\ \A z \in Transport!IbpPairs : z # x => ChannelOK(z)'
      BY <1>2, <1>3, <1>7, <1>8, StepKeeps
<1>10. AskOK(x)' /\ Serving(x)'
       BY <1>2, <1>4, <1>6, AskSame
<1>11. HeardOK(x)'
       BY <1>2, <1>4 DEF ChannelOK, HeardOK
<1>12. ChannelOK(x)'
       BY <1>2, <1>7, <1>9, <1>10, <1>11, NewToken
<1> QED BY <1>2, <1>9, <1>12 DEF TransportInv, TransportTypes

LEMMA TransportInitially == Restful /\ Init => TransportInv
<1> SUFFICES ASSUME Restful, Transport!IbpInit PROVE TransportInv
    BY DEF Init
<1>1. TransportTypes
  <2>1. <<>> \in Seq([by : IbpNodes, size : Nat \ {0}]) /\ <<>> \in Seq(AirPacket)
        OBVIOUS
  <2> QED BY <2>1 DEF Transport!IbpInit, TransportTypes
<1>2. ASSUME NEW x \in Transport!IbpPairs PROVE ChannelOK(x)
  <2>1. x[1] \in IbpNodes /\ x[2] \in IbpNodes
        BY TransportPairs DEF Restful
  <2>2. \A y \in Transport!IbpPairs : \A i : ~Token(x[1], y, i)
        BY DEF Transport!IbpInit, Token
  <2>3. ~Asking(x) /\ AskOK(x) /\ HeardOK(x) /\ PendingOK(x)
        BY <2>1 DEF Transport!IbpInit, Asking, AskOK, HeardOK, PendingOK
  <2> QED BY <2>2, <2>3 DEF ChannelOK, OneToken, TokensOK
<1> QED BY <1>1, <1>2 DEF TransportInv

LEMMA ReceiveDataKept ==
  ASSUME Restful, TransportInv, NEW x \in Transport!IbpPairs, Transport!ReceiveData(x)
  PROVE  /\ TransportInv'
         /\ \/ UNCHANGED heard
            \/ \E id : Serves(x, id) /\ heard' = [heard EXCEPT ![x] = Append(@, id)]
<1>1. PICK p : p = Head(air[x])
      OBVIOUS
<1>2. CASE p.chunk = Transport!Nothing
      BY <1>1, <1>2, HandshakeKept
<1>3. CASE p.chunk # Transport!Nothing
      BY <1>1, <1>3, ChunkKept
<1> QED BY <1>2, <1>3

(* Steps of the other parts leave the transport alone. *)
LEMMA TransportSteps == [Next]_vars => Transport!IbpNext \/ UNCHANGED TransportVars
<1>1. UNCHANGED vars => UNCHANGED TransportVars
      BY DEF vars
<1>2. ASSUME IsoStep \/ PacketStep \/ DecoderStep \/ PeriodicStep \/ CommStep PROVE UNCHANGED TransportVars
      BY <1>2 DEF IsoStep, PacketStep, DecoderStep, PeriodicStep, CommStep, Others
<1>3. TransportStep => Transport!IbpNext
      BY DEF TransportStep
<1> QED BY <1>1, <1>2, <1>3 DEF Next

LEMMA TransportStays == TransportInv /\ UNCHANGED TransportVars => TransportInv'
<1> SUFFICES ASSUME TransportInv, UNCHANGED TransportVars PROVE TransportInv'
    OBVIOUS
<1>1. UNCHANGED <<ibpEvents, chSend, chRecv, chReq, air, heard>>
      BY DEF TransportVars
<1>2. TransportTypes'
      BY <1>1 DEF TransportInv, TransportTypes
<1>3. ASSUME NEW x \in Transport!IbpPairs PROVE ChannelOK(x)'
  <2>1. TransportTypes /\ ChannelOK(x)
        BY DEF TransportInv
  <2>2. \A s, y, i : Token(s, y, i)' <=> Token(s, y, i)
        BY <1>1 DEF Token
  <2>3. OneToken(x[1])' /\ (Transport!OnAir(x[1])' <=> Transport!OnAir(x[1]))
        BY <1>1, <2>1, <2>2 DEF ChannelOK, OneToken, Transport!OnAir
  <2>4. TokensOK(x)'
    <3>1. Serving(x) => Serving(x)'
          BY <1>1 DEF Serving, Serves, Transport!SentEvents
    <3>2. (Asking(x)' <=> Asking(x)) /\ Asked(x)' = Asked(x)
          BY <1>1 DEF Asking, Asked
    <3> SUFFICES ASSUME NEW y \in Transport!IbpPairs, NEW i, Token(x[1], y, i)
                 PROVE  TokenOK(x, y, air[y][i])'
        BY <2>2 DEF TokensOK
    <3>3. PICK p : p = air[y][i]
          OBVIOUS
    <3>4. TokenOK(x, y, p)
          BY <2>1, <3>3 DEF ChannelOK, TokensOK
    <3>5. TokenOK(x, y, p)'
          BY <1>1, <3>1, <3>2, <3>4 DEF TokenOK
    <3> QED BY <1>1, <3>3, <3>5
  <2>5. AskOK(x)' /\ (Serving(x) => Serving(x)')
        BY <1>1, <2>1, AskSame DEF ChannelOK
  <2>6. PendingOK(x)' /\ HeardOK(x)'
        BY <1>1, <2>1, <2>3, <2>5 DEF ChannelOK, PendingOK, HeardOK
  <2> QED BY <2>3, <2>4, <2>5, <2>6 DEF ChannelOK
<1> QED BY <1>2, <1>3 DEF TransportInv

LEMMA TransportKeeps == Restful /\ TransportInv /\ [Next]_vars => TransportInv'
<1> SUFFICES ASSUME Restful, TransportInv, Transport!IbpNext PROVE TransportInv'
    BY TransportSteps, TransportStays
<1> QED BY SendDataKept, ReceiveAckKept, ReceiveDataKept, IdleKept, LosePacketKept DEF Transport!IbpNext

(* An event that is sent, or one that is passed up, is a step of the promise; all else is none. *)
LEMMA TransportTransfers ==
  Restful /\ TransportInv /\ [Next]_vars => [Transport!Promise!Next]_(Transport!Promise!transferVars)
<1> SUFFICES ASSUME Restful, TransportInv, Transport!IbpNext \/ UNCHANGED TransportVars
             PROVE  [Transport!Promise!Next]_(Transport!Promise!transferVars)
    BY TransportSteps
<1>1. Transport!Promise!Pairs = Transport!IbpPairs
      BY DEF Transport!Promise!Pairs, Transport!IbpPairs
<1>2. ASSUME UNCHANGED <<ibpEvents, heard>> PROVE UNCHANGED Transport!Promise!transferVars
      BY <1>2 DEF Transport!Promise!transferVars, Transport!SentEvents
<1>3. ASSUME NEW n \in IbpNodes, NEW size \in EventSizes, Transport!SendData(n, size)
      PROVE  Transport!Promise!Next
  <2>1. PICK id : id = Len(ibpEvents) + 1
        OBVIOUS
  <2>2. id \in Transport!EventIds
    <3>1. Len(ibpEvents) \in Nat /\ MaxEvents \in Nat /\ Len(ibpEvents) < MaxEvents
          BY <1>3, IbpIds, TransportAssumption DEF TransportInv, Transport!SendData
    <3> QED BY <2>1, <3>1 DEF Transport!EventIds
  <2>3. \A m \in IbpNodes : Transport!SentEvents(m)' =
          IF m = n THEN Transport!SentEvents(m) \cup {id} ELSE Transport!SentEvents(m)
        BY <1>3, <2>1, SendDataKept
  <2>4. \A k \in Transport!SentEvents(n) : k < id
        BY <1>3, <2>1, SendDataKept DEF Transport!SentEvents
  <2>5. heard' = heard
        BY <1>3 DEF Transport!SendData
  <2>6. \A x \in Transport!IbpPairs : x[1] \in IbpNodes /\ x[2] \in IbpNodes
        BY TransportPairs DEF Restful
  <2>7. Transport!Promise!Send(n, IbpNodes, id)
        BY <1>1, <2>3, <2>4, <2>5, <2>6 DEF Transport!Promise!Send
  <2> QED BY <2>2, <2>7 DEF Transport!Promise!Next
<1>4. ASSUME NEW x \in Transport!IbpPairs, Transport!ReceiveData(x),
             NEW id, Serves(x, id), heard' = [heard EXCEPT ![x] = Append(@, id)]
      PROVE  Transport!Promise!Next
  <2>1. \A m : Transport!SentEvents(m)' = Transport!SentEvents(m)
        BY <1>4 DEF Transport!ReceiveData, Transport!SentEvents
  <2>2. id \in Transport!SentEvents(x[1]) /\ \A i \in DOMAIN heard[x] : heard[x][i] < id
        BY <1>4 DEF Serves
  <2>3. Transport!Promise!Receive(x, id)
        BY <1>4, <2>1, <2>2 DEF Transport!Promise!Receive
  <2>4. id \in [y \in Transport!IbpPairs |-> Transport!SentEvents(y[1])][x]
        BY <2>2
  <2>5. \E y \in Transport!Promise!Pairs :
          \E m \in [z \in Transport!IbpPairs |-> Transport!SentEvents(z[1])][y] : Transport!Promise!Receive(y, m)
        BY <1>1, <2>3, <2>4, Zenon
  <2> QED BY <2>5, Zenon DEF Transport!Promise!Next
<1>5. ASSUME NEW x \in Transport!IbpPairs, Transport!ReceiveData(x)
      PROVE  Transport!Promise!Next \/ UNCHANGED <<ibpEvents, heard>>
  <2>1. UNCHANGED ibpEvents
        BY <1>5 DEF Transport!ReceiveData
  <2> QED BY <1>4, <1>5, <2>1, ReceiveDataKept
<1>6. ASSUME NEW x \in Transport!IbpPairs, Transport!ReceiveAck(x) \/ Transport!LosePacket(x)
      PROVE  UNCHANGED <<ibpEvents, heard>>
      BY <1>6 DEF Transport!ReceiveAck, Transport!LosePacket
<1>7. ASSUME NEW n \in IbpNodes, NEW c \in IbpNodes, Transport!Idle(n, c)
      PROVE  UNCHANGED <<ibpEvents, heard>>
      BY <1>7 DEF Transport!Idle
<1>8. UNCHANGED TransportVars => UNCHANGED <<ibpEvents, heard>>
      BY DEF TransportVars
<1>9. Transport!IbpNext => Transport!Promise!Next \/ UNCHANGED <<ibpEvents, heard>>
      BY <1>3, <1>5, <1>6, <1>7 DEF Transport!IbpNext
<1> QED BY <1>2, <1>8, <1>9

(* What IbpTransport passes up are events that were sent, whole, in order and once, although  *)
(* chunks, requests and announcements are lost, for two nodes, any sizes and bounds, as long   *)
(* as an event waits for what is under way, nothing is asked for again while the answer is on  *)
(* its way, and the last request is not lost (Transport.send_data, recv_raw, idle).          *)
THEOREM EventTransferHolds ==
  ASSUME Restful PROVE Spec => EventTransfer
<1>1. Init => Transport!Promise!Init
  <2>1. ASSUME Init PROVE Transport!Promise!Init
    <3>1. ibpEvents = <<>> /\ heard = [x \in Transport!IbpPairs |-> <<>>]
          BY <2>1 DEF Init, Transport!IbpInit
    <3>2. \A n : Transport!SentEvents(n) = {}
          BY <3>1 DEF Transport!SentEvents
    <3>3. Transport!Promise!Pairs = Transport!IbpPairs
          BY DEF Transport!Promise!Pairs, Transport!IbpPairs
    <3> QED BY <3>1, <3>2, <3>3 DEF Transport!Promise!Init
  <2> QED BY <2>1
<1>2. TransportInv /\ [Next]_vars => [Transport!Promise!Next]_(Transport!Promise!transferVars)
      BY TransportTransfers
<1>3. TransportInv /\ [Next]_vars => TransportInv'
      BY TransportKeeps
<1>4. Init => TransportInv
      BY TransportInitially
<1> QED BY <1>1, <1>2, <1>3, <1>4, PTL DEF Spec, EventTransfer, Transport!EventTransfer, Transport!Promise!Spec
=============================================================================
