------------------------------ MODULE EventBus ------------------------------
(***************************************************************************)
(* The event bus of the framework: Framework.event() and the event loop's   *)
(* handle_event() (framework.py), the event thread of every plugin          *)
(* (plugin.py), and the start and stop of plugins as far as the bus sees     *)
(* them.  Threads are those of the default build (ADF_MP off): the queues    *)
(* are queue.Queue objects with task_done() and join(), and an Event is one  *)
(* object shared by everyone it is queued to, so the path the event loop     *)
(* appends to is seen by all.                                                *)
(*                                                                          *)
(* Every Emit and every put is atomic (a queue's own mutex).  The loop over  *)
(* the plugin dictionary is not: it is one step per entry, since a start or  *)
(* a stop in another thread may change the dictionary between two entries.   *)
(***************************************************************************)
EXTENDS Integers, Sequences, FiniteSets

CONSTANTS
  Plugins,      \* plugin instances; an instance's name is itself
  Topics,       \* event names that are not the name of a plugin
  Star,         \* the subscription to every event (True in the code)
  Threads,      \* threads outside the plugins' event threads that emit events
  Late,         \* the plugins that are started while the bus runs
  Stoppable,    \* the plugins that may be stopped while the bus runs
  InitSubs,     \* the subscriptions of the plugins that run from the start
  Resubscribe,  \* the plugins whose subscriptions may change while the bus runs
  NestedSync,   \* may a handler emit an event and wait for it?
  MaxEvents,    \* bound: events created
  MaxRequeue    \* bound: times a handler puts its event back on the bus

Names  == Plugins \cup Topics
Events == 1..MaxEvents
Actors == Plugins \cup Threads   \* a plugin stands for its event thread

ASSUME ConstantsAssumption ==
  /\ IsFiniteSet(Plugins)
  /\ Star \notin Names
  /\ Plugins \cap Threads = {}
  /\ Late \subseteq Plugins /\ Stoppable \subseteq Plugins
  /\ Resubscribe \subseteq Plugins
  /\ InitSubs \in [Plugins -> SUBSET (Names \cup {Star})]
  /\ NestedSync \in BOOLEAN
  /\ MaxEvents \in Nat /\ MaxRequeue \in Nat

VARIABLES
  ev,        \* the Event objects: name, sync flag and path
  made,      \* how many of them exist
  evq,       \* Framework.__event_q
  unf,       \* its unfinished_tasks
  waiting,   \* actor -> the event its synchronous event() call waits on, or 0
  requeued,  \* requeues so far (bound only)
  busPc,     \* where handle_event is: "get", "iter" or "join"
  busEv,     \* the event it handles, or 0
  iterIdx,   \* position of its iterator over the plugin dictionary
  iterSize,  \* size of the dictionary when the iteration began
  handled,   \* plugins that got the event and have not been joined
  raised,    \* handle_event calls that ended in an exception (history)
  entries,   \* plugin dictionary: the keys in insertion order ...
  reg,       \* ... and those of them not deleted
  known,     \* plugins with an entry in Framework.__subs
  subs,      \* the names (or Star) in that entry
  phase,     \* life of a plugin's thread
  pq,        \* plugin -> its _event_q
  punf,      \* plugin -> unfinished_tasks of its _event_q
  cur        \* plugin -> the event its event thread is handling, or 0

evVars   == <<ev, made, evq, unf, waiting, requeued>>
iterVars == <<busPc, busEv, iterIdx, iterSize, handled, raised>>
regVars  == <<entries, reg, known, subs, phase>>
plugVars == <<pq, punf, cur>>
vars     == <<evVars, iterVars, regVars, plugVars>>

Phases == {"new", "added", "subscribed", "running", "stopping", "drained", "dead"}
NoEvent == [name |-> Star, sync |-> FALSE, path |-> <<>>]
InSeq(s, x) == \E i \in 1..Len(s) : s[i] = x

TypeOK ==
  /\ ev \in [Events -> [name : Names \cup {Star}, sync : BOOLEAN, path : Seq(Plugins)]]
  /\ made \in 0..MaxEvents
  /\ evq \in Seq(Events)
  /\ unf \in Nat
  /\ waiting \in [Actors -> 0..MaxEvents]
  /\ requeued \in Nat
  /\ busPc \in {"get", "iter", "join"}
  /\ busEv \in 0..MaxEvents
  /\ (busPc = "get") <=> (busEv = 0)
  /\ iterIdx \in Nat
  /\ iterSize \in Nat
  /\ handled \in Seq(Plugins)
  /\ raised \in Nat
  /\ entries \in Seq(Plugins)
  /\ reg \in SUBSET Plugins
  /\ known \in SUBSET Plugins
  /\ subs \in [Plugins -> SUBSET (Names \cup {Star})]
  /\ phase \in [Plugins -> Phases]
  /\ pq \in [Plugins -> Seq(Events)]
  /\ punf \in [Plugins -> Nat]
  /\ cur \in [Plugins -> 0..MaxEvents]

(* The plugins that are not Late are loaded by the startup configuration, in *)
(* some order, before anything is emitted.                                   *)
Init ==
  /\ ev = [e \in Events |-> NoEvent] /\ made = 0
  /\ evq = <<>> /\ unf = 0
  /\ waiting = [a \in Actors |-> 0] /\ requeued = 0
  /\ busPc = "get" /\ busEv = 0 /\ iterIdx = 1 /\ iterSize = 0
  /\ handled = <<>> /\ raised = 0
  /\ entries \in {s \in [1..Cardinality(Plugins \ Late) -> Plugins \ Late] :
                    \A i, j \in DOMAIN s : s[i] = s[j] => i = j}
  /\ reg = Plugins \ Late /\ known = reg
  /\ subs = [p \in Plugins |-> IF p \in Late THEN {} ELSE InitSubs[p]]
  /\ phase = [p \in Plugins |-> IF p \in Late THEN "new" ELSE "running"]
  /\ pq = [p \in Plugins |-> <<>>] /\ punf = [p \in Plugins |-> 0]
  /\ cur = [p \in Plugins |-> 0]

-----------------------------------------------------------------------------
(* Framework.event(): put the event on the bus, and wait for the whole queue *)
(* to be finished if it is synchronous.                                      *)

Put(a, e, sync) ==
  /\ evq' = Append(evq, e)
  /\ unf' = unf + 1
  /\ waiting' = [waiting EXCEPT ![a] = IF sync THEN e ELSE 0]

NewEvent(a, n, sync, path) ==
  /\ waiting[a] = 0
  /\ made < MaxEvents
  /\ made' = made + 1
  /\ ev' = [ev EXCEPT ![made + 1] = [name |-> n, sync |-> sync, path |-> path]]
  /\ Put(a, made + 1, sync)
  /\ UNCHANGED <<requeued, iterVars, regVars, plugVars>>

(* The control channel or the embedding program: no source. *)
EmitExternal(t, n, sync) == NewEvent(t, n, sync, <<>>)

(* Plugin.event() from a plugin's packet or main thread: the source is the   *)
(* plugin.                                                                   *)
EmitPlugin(t, p, n, sync) ==
  /\ phase[p] \in {"running", "stopping", "drained"}
  /\ NewEvent(t, n, sync, <<p>>)

(* Plugin.event() or respond() from the plugin's event handler. *)
EmitHandler(p, n, sync) ==
  /\ cur[p] # 0
  /\ sync => NestedSync
  /\ NewEvent(p, n, sync, <<p>>)

(* A handler passes on the event it is handling: event(event=e). *)
Requeue(p) ==
  /\ cur[p] # 0 /\ waiting[p] = 0
  /\ requeued < MaxRequeue
  /\ ev[cur[p]].sync => NestedSync
  /\ Put(p, cur[p], ev[cur[p]].sync)
  /\ requeued' = requeued + 1
  /\ UNCHANGED <<ev, made, iterVars, regVars, plugVars>>

(* Queue.join() returns once it sees no unfinished event. *)
SyncReturn(a) ==
  /\ waiting[a] # 0
  /\ unf = 0
  /\ waiting' = [waiting EXCEPT ![a] = 0]
  /\ UNCHANGED <<ev, made, evq, unf, requeued, iterVars, regVars, plugVars>>

-----------------------------------------------------------------------------
(* Framework.handle_event(), as the event loop calls it. *)

BusGetNewest ==   \* mutant: a LIFO queue
  /\ busPc = "get" /\ evq # <<>>
  /\ busEv' = evq[Len(evq)]
  /\ evq' = SubSeq(evq, 1, Len(evq) - 1)
  /\ busPc' = "iter" /\ iterIdx' = 1 /\ iterSize' = Cardinality(reg)
  /\ handled' = <<>>
  /\ UNCHANGED <<ev, made, unf, waiting, requeued, raised, regVars, plugVars>>

BusGet ==
  /\ busPc = "get" /\ evq # <<>>
  /\ busEv' = Head(evq)
  /\ evq' = Tail(evq)
  /\ busPc' = "iter" /\ iterIdx' = 1 /\ iterSize' = Cardinality(reg)
  /\ handled' = <<>>
  /\ UNCHANGED <<ev, made, unf, waiting, requeued, raised, regVars, plugVars>>

SameSize == Cardinality(reg) = iterSize

(* The dictionary's entries the iterator has not reached and that still exist *)
Ahead == {i \in iterIdx..Len(entries) : entries[i] \in reg}

(* plugin p is the iterator's next entry *)
NextEntry(p) ==
  \E i \in Ahead : /\ \A j \in Ahead : i <= j
                   /\ p = entries[i]
                   /\ iterIdx' = i + 1

Subscribed(p, n) == n \in subs[p] \/ Star \in subs[p]

NeverSeen(p, e) == FALSE   \* mutant: no loop check

(* e is not sent to a plugin that handled it, nor to its source if it carries *)
(* the source's name                                                          *)
Seen(p, e) ==
  \/ \E i \in 2..Len(ev[e].path) : ev[e].path[i] = p
  \/ /\ Len(ev[e].path) > 0
     /\ p = ev[e].name /\ p = ev[e].path[1]

Skip(p, e) == \/ p \notin known              \* KeyError, logged
              \/ ~Subscribed(p, ev[e].name)
              \/ Seen(p, e)

Deliver(p) ==
  /\ ev' = [ev EXCEPT ![busEv].path = Append(@, p)]
  /\ pq' = [pq EXCEPT ![p] = Append(@, busEv)]
  /\ punf' = [punf EXCEPT ![p] = @ + 1]
  /\ handled' = Append(handled, p)

BusVisit(p) ==
  /\ busPc = "iter" /\ SameSize
  /\ NextEntry(p)
  /\ IF Skip(p, busEv) THEN UNCHANGED <<ev, pq, punf, handled>> ELSE Deliver(p)
  /\ UNCHANGED <<made, evq, unf, waiting, requeued, busPc, busEv, iterSize,
                 raised, regVars, cur>>

BusRaiseDone ==   \* mutant: task_done() in a finally
  /\ busPc = "iter" /\ ~SameSize
  /\ busPc' = "get" /\ busEv' = 0 /\ handled' = <<>>
  /\ unf' = unf - 1
  /\ UNCHANGED <<ev, made, evq, waiting, requeued, raised, iterIdx, iterSize,
                 regVars, plugVars>>

(* "dictionary changed size during iteration": handle_event is left with no   *)
(* join and no task_done; the event loop logs it and starts over.             *)
BusRaise ==
  /\ busPc = "iter" /\ ~SameSize
  /\ busPc' = "get" /\ busEv' = 0 /\ handled' = <<>>
  /\ raised' = raised + 1
  /\ UNCHANGED <<evVars, iterIdx, iterSize, regVars, plugVars>>

(* The iteration ends: only a synchronous event waits for its handlers. *)
BusEnd ==
  /\ busPc = "iter" /\ SameSize /\ Ahead = {}
  /\ busPc' = "join"
  /\ handled' = IF ev[busEv].sync THEN handled ELSE <<>>
  /\ UNCHANGED <<evVars, busEv, iterIdx, iterSize, raised, regVars, plugVars>>

BusJoin ==
  /\ busPc = "join" /\ handled # <<>>
  /\ punf[Head(handled)] = 0
  /\ handled' = Tail(handled)
  /\ UNCHANGED <<evVars, busPc, busEv, iterIdx, iterSize, raised, regVars, plugVars>>

BusDoneAsync ==   \* mutant: task_done() only for asynchronous events
  /\ busPc = "join" /\ handled = <<>>
  /\ busPc' = "get" /\ busEv' = 0
  /\ unf' = IF ev[busEv].sync THEN unf ELSE unf - 1
  /\ UNCHANGED <<ev, made, evq, waiting, requeued, iterIdx, iterSize, handled,
                 raised, regVars, plugVars>>

BusDone ==
  /\ busPc = "join" /\ handled = <<>>
  /\ busPc' = "get" /\ busEv' = 0
  /\ unf' = unf - 1
  /\ UNCHANGED <<ev, made, evq, waiting, requeued, iterIdx, iterSize, handled,
                 raised, regVars, plugVars>>

-----------------------------------------------------------------------------
(* The event thread of a plugin: Plugin.__event(). *)

Alive(p) == phase[p] \in {"running", "stopping", "drained"}

HandlerTake(p) ==
  /\ phase[p] \in {"running", "stopping"}
  /\ cur[p] = 0 /\ pq[p] # <<>>
  /\ cur' = [cur EXCEPT ![p] = Head(pq[p])]
  /\ pq' = [pq EXCEPT ![p] = Tail(@)]
  /\ UNCHANGED <<evVars, iterVars, regVars, punf>>

HandlerDoneTwice(p) ==   \* mutant: task_done() after the handler and in a finally
  /\ cur[p] # 0 /\ waiting[p] = 0
  /\ cur' = [cur EXCEPT ![p] = 0]
  /\ punf' = [punf EXCEPT ![p] = @ - 2]
  /\ UNCHANGED <<evVars, iterVars, regVars, pq>>

HandlerDoneWhenIdle(p) ==   \* mutant: the handler first joins the framework's queue
  /\ cur[p] # 0 /\ waiting[p] = 0 /\ unf = 0
  /\ cur' = [cur EXCEPT ![p] = 0]
  /\ punf' = [punf EXCEPT ![p] = @ - 1]
  /\ UNCHANGED <<evVars, iterVars, regVars, pq>>

HandlerDone(p) ==
  /\ cur[p] # 0 /\ waiting[p] = 0
  /\ cur' = [cur EXCEPT ![p] = 0]
  /\ punf' = [punf EXCEPT ![p] = @ - 1]
  /\ UNCHANGED <<evVars, iterVars, regVars, pq>>

(* The queue stayed empty for a second and the plugin is to shut down. *)
HandlerExit(p) ==
  /\ phase[p] = "stopping" /\ cur[p] = 0 /\ pq[p] = <<>>
  /\ phase' = [phase EXCEPT ![p] = "drained"]
  /\ UNCHANGED <<evVars, iterVars, entries, reg, known, subs, plugVars>>

(* __main() has joined the event, packet and main threads. *)
PluginDies(p) ==
  /\ phase[p] = "drained"
  /\ phase' = [phase EXCEPT ![p] = "dead"]
  /\ UNCHANGED <<evVars, iterVars, entries, reg, known, subs, plugVars>>

-----------------------------------------------------------------------------
(* Starting and stopping plugins, from a control thread or the IPC loop. *)

(* start_plugin(): the plugin enters the dictionary, ... *)
StartAdd(p) ==
  /\ p \in Late /\ phase[p] = "new"
  /\ entries' = Append(entries, p)
  /\ reg' = reg \cup {p}
  /\ phase' = [phase EXCEPT ![p] = "added"]
  /\ UNCHANGED <<evVars, iterVars, known, subs, plugVars>>

(* ... is subscribed to its own name (if nobody removed it meanwhile) ... *)
StartSubscribe(p) ==
  /\ phase[p] = "added"
  /\ phase' = [phase EXCEPT ![p] = "subscribed"]
  /\ IF p \in reg
     THEN /\ known' = known \cup {p}
          /\ subs' = [subs EXCEPT ![p] = @ \cup {p}]
     ELSE UNCHANGED <<known, subs>>
  /\ UNCHANGED <<evVars, iterVars, entries, reg, plugVars>>

(* ... and its thread is started. *)
StartThread(p) ==
  /\ phase[p] = "subscribed"
  /\ phase' = [phase EXCEPT ![p] = "running"]
  /\ UNCHANGED <<evVars, iterVars, entries, reg, known, subs, plugVars>>

(* Plugin.stop(), by stop_plugin() or by the plugin itself. *)
StopSignal(p) ==
  /\ p \in Stoppable /\ phase[p] = "running"
  /\ phase' = [phase EXCEPT ![p] = "stopping"]
  /\ UNCHANGED <<evVars, iterVars, entries, reg, known, subs, plugVars>>

(* The end of stop_plugin(): a plugin that is not alive leaves the dictionary. *)
(* idle() does the same for the plugins it finds dead.                         *)
Unload(p) ==
  /\ p \in Stoppable /\ p \in reg /\ ~Alive(p)
  /\ reg' = reg \ {p}
  /\ UNCHANGED <<evVars, iterVars, entries, known, subs, phase, plugVars>>

(* Framework.subscribe(): a name, every event, or none. *)
Subscribe(p, n) ==
  /\ p \in Resubscribe \cap reg
  /\ known' = known \cup {p}
  /\ subs' = [subs EXCEPT ![p] = IF n = Star THEN {Star} ELSE (@ \ {Star}) \cup {n}]
  /\ UNCHANGED <<evVars, iterVars, entries, reg, phase, plugVars>>

Unsubscribe(p, n) ==
  /\ p \in Resubscribe \cap reg
  /\ IF n = Star THEN subs' = [subs EXCEPT ![p] = {}] /\ known' = known \cup {p}
     ELSE /\ p \in known /\ n \in subs[p]
          /\ subs' = [subs EXCEPT ![p] = @ \ {n}] /\ UNCHANGED known
  /\ UNCHANGED <<evVars, iterVars, entries, reg, phase, plugVars>>

-----------------------------------------------------------------------------
Emit == \E n \in Names, sync \in BOOLEAN :
  \/ \E t \in Threads : EmitExternal(t, n, sync)
  \/ \E t \in Threads, p \in Plugins : EmitPlugin(t, p, n, sync)
  \/ \E p \in Plugins : EmitHandler(p, n, sync)

Bus == BusGet \/ (\E p \in Plugins : BusVisit(p)) \/ BusRaise
         \/ BusEnd \/ BusJoin \/ BusDone

Handler(p) == HandlerTake(p) \/ HandlerDone(p) \/ HandlerExit(p) \/ PluginDies(p)

Control(p) ==
  \/ StartAdd(p) \/ StartSubscribe(p) \/ StartThread(p)
  \/ StopSignal(p) \/ Unload(p)
  \/ \E n \in Names \cup {Star} : Subscribe(p, n) \/ Unsubscribe(p, n)

Next ==
  \/ Emit
  \/ Bus
  \/ \E a \in Actors : SyncReturn(a)
  \/ \E p \in Plugins : Requeue(p) \/ Handler(p) \/ Control(p)

Spec == Init /\ [][Next]_vars

(* Each thread is scheduled: the event loop, the plugins' event threads (whose *)
(* handlers return), the threads blocked in join(), and a start_plugin() call  *)
(* that began.                                                                 *)
Fairness ==
  /\ WF_vars(Bus)
  /\ \A a \in Actors : WF_vars(SyncReturn(a))
  /\ \A p \in Plugins : /\ WF_vars(Handler(p))
                        /\ WF_vars(StartSubscribe(p) \/ StartThread(p))

FairSpec == Spec /\ Fairness
-----------------------------------------------------------------------------
Busy(x) == IF x = 0 THEN 0 ELSE 1

(* event e has been queued to plugin p and p has not finished handling it *)
Pending(e, p) == InSeq(pq[p], e) \/ cur[p] = e

(* The count join() waits on is exactly the events still queued, the one being *)
(* handled and those lost to an exception; a plugin's is its queue and the     *)
(* event in hand.                                                              *)
Accounting ==
  /\ unf = Len(evq) + Busy(busEv) + raised
  /\ \A p \in Plugins : punf[p] = Len(pq[p]) + Busy(cur[p])

(* "event handling queue will stop while this event is being handled"          *)
(* (Event.sync): while any plugin still has a synchronous event to handle, the *)
(* bus is at that event and will wait for that plugin.                         *)
SyncIsolation ==
  raised = 0 =>
    \A p \in Plugins, e \in Events :
      Pending(e, p) /\ ev[e].sync => busEv = e /\ InSeq(handled, p)

(* The inductive invariant behind SyncBarrier: events in use exist, and an actor *)
(* waits only on a synchronous event.                                            *)
UsedExist ==
  \A e \in Events :
    InSeq(evq, e) \/ busEv = e \/ (\E p \in Plugins : Pending(e, p)) => e <= made

WaitSync ==
  \A a \in Actors : waiting[a] # 0 => waiting[a] <= made /\ ev[waiting[a]].sync

BusInv == TypeOK /\ Accounting /\ UsedExist /\ WaitSync /\ SyncIsolation

(* A synchronous event() returns only after every plugin the event was         *)
(* delivered to has handled it, whatever was started, stopped or lost.         *)
SyncBarrier ==
  [][\A a \in Actors :
       waiting[a] # 0 /\ waiting'[a] = 0 =>
         \A p \in Plugins : ~Pending(waiting[a], p)]_vars

(* The path keeps an event from looping: however often it is put back on the   *)
(* bus, no plugin but the first of its path gets it twice.                     *)
DeliverOnce ==
  \A e \in Events : \A i, j \in 2..Len(ev[e].path) :
    ev[e].path[i] = ev[e].path[j] => i = j

(* A plugin handles the events it gets in the order they were published.       *)
HandledInOrder ==
  \A p \in Plugins :
    LET s == IF cur[p] = 0 THEN pq[p] ELSE <<cur[p]>> \o pq[p]
    IN \A i, j \in 1..Len(s) : i < j => s[i] < s[j]

(* "run until shutdown and queue is empty": a plugin's event thread does not   *)
(* leave events behind in its queue.                                           *)
NothingLeftBehind ==
  \A p \in Plugins : phase[p] \in {"drained", "dead"} => pq[p] = <<>>

(* "plugin will not get an event if it is already in the path" (Event.path)    *)
NotTwiceInPath ==
  \A e \in Events : \A i, j \in 1..Len(ev[e].path) :
    ev[e].path[i] = ev[e].path[j] => i = j

(* A synchronous event() returns. *)
SyncReturns == \A a \in Actors : waiting[a] # 0 ~> waiting[a] = 0

(* Whatever reaches a plugin's queue is handled. *)
EverythingHandled ==
  \A p \in Plugins, e \in Events : Pending(e, p) ~> ~Pending(e, p)
=============================================================================
