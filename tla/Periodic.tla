------------------------------ MODULE Periodic ------------------------------
(***************************************************************************)
(* Frames sent again and again (canbus/ecu.py: ECU.set_periodic; canbus/          *)
(* __init__.py: CANInterface.handle_event).  An ECU remembers what it last had      *)
(* sent under an identifier and tells the interface, by an event, only what has       *)
(* changed; the interface keeps a task for each identifier.  What the ECU remembers   *)
(* and what the interface does are kept apart, and must agree.  The interface cannot    *)
(* start a task before its bus is open, and the bus may refuse one.                    *)
(***************************************************************************)
EXTENDS Integers, Sequences

CONSTANTS
  EcuThreads,  \* threads of the ECU that set frames: its main loop, the packet thread
  FrameIds,    \* identifiers
  FrameData,   \* data; NoData stops a task
  Durations,   \* may a task end by itself?
  BusRefuses,  \* may the bus refuse to start a task?
  MaxSets      \* bound: calls of set_periodic() and clear_periodic()

NoData == 0
NoTask == [data |-> NoData, timed |-> FALSE, over |-> FALSE]
Nothing == [data |-> NoData, timed |-> FALSE, over |-> TRUE]   \* None, stored as a task
NotAsked == [data |-> NoData, timed |-> FALSE]
NoCall == [id |-> NoData, data |-> NoData, timed |-> FALSE, pc |-> "idle"]

VARIABLES
  lastData,   \* __last_ps_data: identifier -> data
  calling,    \* thread -> the set_periodic() it is in
  taskEvents, \* events on their way to the interface, [id |-> NoData]: stop all
  ecuBus,     \* the bus of the interface: "none", "open" or "gone"
  tasks,      \* __tasks: identifier -> what is sent, or NoTask, or Nothing
  asked,      \* identifier -> the last call that has returned
  unstarted,  \* identifiers whose task was not started when it was to be (history)
  sets        \* calls (bound)

periodicVars == <<lastData, calling, taskEvents, ecuBus, tasks, asked, unstarted, sets>>

PeriodicInit ==
  /\ lastData = [i \in FrameIds |-> NoData] /\ calling = [t \in EcuThreads |-> NoCall]
  /\ taskEvents = <<>> /\ tasks = [i \in FrameIds |-> NoTask]
  /\ asked = [i \in FrameIds |-> NotAsked] /\ sets = 0
  /\ ecuBus = "none" /\ unstarted = {}

-----------------------------------------------------------------------------
Emit(e) == taskEvents' = Append(taskEvents, e)

(* A frame with a duration is always sent, any other when its data has changed ...      *)
SetPeriodic(t, id, data, timed) ==
  /\ calling[t] = NoCall /\ sets < MaxSets
  /\ sets' = sets + 1
  /\ IF timed \/ lastData[id] # data
     THEN /\ calling' = [calling EXCEPT ![t] = [id |-> id, data |-> data, timed |-> timed, pc |-> "store"]]
          /\ Emit([id |-> id, data |-> data, timed |-> timed])
          /\ UNCHANGED asked
     ELSE /\ asked' = [asked EXCEPT ![id] = [data |-> data, timed |-> timed]]
          /\ UNCHANGED <<calling, taskEvents>>
  /\ UNCHANGED <<lastData, ecuBus, tasks, unstarted>>

(* ... and then it is remembered.                                                    *)
Store(t) ==
  /\ calling[t].pc = "store"
  /\ lastData' = [lastData EXCEPT ![calling[t].id] = calling[t].data]
  /\ asked' = [asked EXCEPT ![calling[t].id] = [data |-> calling[t].data, timed |-> calling[t].timed]]
  /\ calling' = [calling EXCEPT ![t] = NoCall]
  /\ UNCHANGED <<taskEvents, ecuBus, tasks, unstarted, sets>>

ClearPeriodicKeep(t) ==   \* mutant: what was sent is still remembered
  /\ calling[t] = NoCall /\ sets < MaxSets
  /\ sets' = sets + 1
  /\ lastData' = lastData
  /\ asked' = [i \in FrameIds |-> NotAsked]
  /\ Emit([id |-> NoData, data |-> NoData, timed |-> FALSE])
  /\ UNCHANGED <<calling, ecuBus, tasks, unstarted>>

ClearPeriodic(t) ==
  /\ calling[t] = NoCall /\ sets < MaxSets
  /\ sets' = sets + 1
  /\ lastData' = [i \in FrameIds |-> NoData]
  /\ asked' = [i \in FrameIds |-> NotAsked]
  /\ Emit([id |-> NoData, data |-> NoData, timed |-> FALSE])
  /\ UNCHANGED <<calling, ecuBus, tasks, unstarted>>

-----------------------------------------------------------------------------
(* handle_event() of the interface, whose exceptions are logged: an event without an          *)
(* identifier stops all, whether there is a bus or not.                                  *)
StopAll ==
  /\ tasks' = [i \in FrameIds |-> NoTask] /\ unstarted' = {}

(* A task that is there is stopped; to stop what is not there, or None, is an exception.      *)
StopTask(id) ==
  /\ tasks' = IF tasks[id] = Nothing THEN tasks ELSE [tasks EXCEPT ![id] = NoTask]
  /\ UNCHANGED unstarted

(* A task that is there gets other data; its time, and whether it is over, stay.  None,        *)
(* which is stored when there is no bus, has no data to modify: an exception, from then on.   *)
ModifyTask(id, e) ==
  /\ tasks[id] # NoTask
  /\ tasks' = IF tasks[id] = Nothing THEN tasks ELSE [tasks EXCEPT ![id].data = e.data]
  /\ UNCHANGED unstarted

StartTask(id, e) ==
  /\ tasks[id] = NoTask
  /\ \/ /\ ecuBus = "open"
        /\ tasks' = [tasks EXCEPT ![id] = [data |-> e.data, timed |-> e.timed, over |-> FALSE]]
        /\ unstarted' = unstarted \ {id}
     \/ /\ ecuBus = "open" /\ BusRefuses
        /\ unstarted' = unstarted \cup {id} /\ UNCHANGED tasks
     \/ /\ ecuBus # "open"
        /\ tasks' = [tasks EXCEPT ![id] = Nothing]
        /\ unstarted' = unstarted \cup {id}

HandlePeriodic ==
  /\ taskEvents # <<>>
  /\ LET e == Head(taskEvents) IN
       \/ e.id = NoData /\ StopAll
       \/ e.id # NoData /\ e.data = NoData /\ StopTask(e.id)
       \/ e.id # NoData /\ e.data # NoData /\ (ModifyTask(e.id, e) \/ StartTask(e.id, e))
  /\ taskEvents' = Tail(taskEvents)
  /\ UNCHANGED <<lastData, calling, ecuBus, asked, sets>>

(* The time of a task is up: the bus ends it, and it stays in the table.                  *)
TimeUp(id) ==
  /\ tasks[id].timed /\ ~tasks[id].over
  /\ tasks' = [tasks EXCEPT ![id].over = TRUE]
  /\ UNCHANGED <<lastData, calling, taskEvents, ecuBus, asked, unstarted, sets>>

(* main() of the interface opens its bus after the handlers of the plugin have started; the      *)
(* end of main(), or an error of the bus, ends all tasks, and they stay in the table.           *)
OpenBus ==
  /\ ecuBus = "none" /\ ecuBus' = "open"
  /\ UNCHANGED <<lastData, calling, taskEvents, tasks, asked, unstarted, sets>>

CloseBus ==
  /\ ecuBus = "open" /\ ecuBus' = "gone"
  /\ tasks' = [i \in FrameIds |-> IF tasks[i] = NoTask THEN NoTask ELSE [tasks[i] EXCEPT !.over = TRUE]]
  /\ UNCHANGED <<lastData, calling, taskEvents, asked, unstarted, sets>>

PeriodicNext ==
  \/ \E t \in EcuThreads :
       \/ \E id \in FrameIds, d \in FrameData, timed \in (IF Durations THEN BOOLEAN ELSE {FALSE}) :
            SetPeriodic(t, id, d, timed)
       \/ ClearPeriodic(t) \/ Store(t)
  \/ HandlePeriodic \/ OpenBus \/ CloseBus
  \/ \E id \in FrameIds : TimeUp(id)

PeriodicWork == HandlePeriodic \/ \E t \in EcuThreads : Store(t)
-----------------------------------------------------------------------------
Over(id) == tasks[id].over /\ tasks[id] # Nothing
Settled == taskEvents = <<>> /\ \A t \in EcuThreads : calling[t] = NoCall

(* "start/stop/change periodic sends" when the "data has changed": once the calls have    *)
(* returned and the interface has handled their events, it sends what each identifier was   *)
(* last set to, and nothing under the others, but for tasks that are over and for those that    *)
(* could not be started; these are lost to the ECU, until they start or all are stopped.     *)
SendsWhatWasSet ==
  Settled => \A id \in FrameIds \ unstarted : Over(id) \/ tasks[id].data = asked[id].data

(* What was last set without a duration is being sent: not so after a task that had one.  *)
StartsAgain ==
  Settled => \A id \in FrameIds : ~asked[id].timed => ~tasks[id].over
=============================================================================
