------------------------------ MODULE Lifecycle -----------------------------
(***************************************************************************)
(* The life of the framework and of its plugins (framework.py): the main     *)
(* thread's run(), stop() and restart(), start_plugin() and stop_plugin(),   *)
(* and the event loop's idle(), which unloads the plugins it finds dead.      *)
(*                                                                          *)
(* start() starts the main thread first and then applies the startup          *)
(* configuration in the thread that called it; at a restart the main thread    *)
(* applies it.  stop_plugin() is a procedure three kinds of threads run at     *)
(* once: the main thread at shutdown, the event loop from idle(), and          *)
(* controllers (the control channel, the IPC loop), which start plugins too.   *)
(* The plugin dictionary has no lock; every access to it is a step of its own. *)
(***************************************************************************)
EXTENDS Integers, FiniteSets

CONSTANTS
  Insts,        \* plugin instances
  Names,        \* plugin names
  NameOf,       \* instance -> the name it is created with
  Startup,      \* instances the startup configuration loads at the first start
  Reload,       \* and at every restart
  Controllers,  \* threads that start and stop plugins
  Requests,     \* what is asked of the framework: "stop", "restart" or both
  LoopIdles,    \* is the event queue ever empty for a second?
  EarlyStop,    \* may stop() come before the main thread waits for it, or
                \* before the startup configuration is applied?
  IdleEarly,    \* may the event queue be empty for a second while the startup
                \* configuration is applied?
  StartupSync,  \* does the startup configuration emit a synchronous event?
  MaxRequests   \* bound: stop() and restart() calls

NoInst == "none"
Main == "main"
Loop == "loop"
Starter == "starter"   \* the thread that calls start()
Procs == {Main, Loop} \cup Controllers      \* threads that run stop_plugin()
Starters == {Main, Starter} \cup Controllers \* threads that run start_plugin()

ASSUME LifecycleAssumption ==
  /\ IsFiniteSet(Insts) /\ IsFiniteSet(Names)
  /\ NoInst \notin Insts
  /\ NameOf \in [Insts -> Names]
  /\ Startup \subseteq Insts /\ Reload \subseteq Insts
  /\ Startup \cap Reload = {}
  /\ {Main, Loop, Starter} \cap Controllers = {}
  /\ Requests \subseteq {"stop", "restart"}
  /\ LoopIdles \in BOOLEAN /\ EarlyStop \in BOOLEAN /\ IdleEarly \in BOOLEAN
  /\ StartupSync \in BOOLEAN
  /\ MaxRequests \in Nat

VARIABLES
  shutdown,   \* Framework.__shutdown, an Event
  restart,    \* Framework.__restart
  stopLoop,   \* Framework.__stop_event_loop
  mainPc,     \* where run() is
  todo,       \* what is left of the main thread's loop over the plugins
  loopPc,     \* the event loop thread (the IPC loop ends with it)
  idleTodo,   \* what is left of the event loop's idle()
  reg,        \* Framework.__plugins: name -> instance
  phase,      \* instance -> life of its thread
  ctl,        \* thread -> the instance its start_plugin() is about
  sp,         \* thread -> its stop_plugin call
  asked,      \* requests made (bound)
  midway,     \* a restart() that has set the flag and not called stop() yet
  stopAsked,  \* has stop() been called? (history)
  late,       \* instances that did not run yet when the event loop was last
              \* joined (history)
  overdue,    \* instances a shutdown gave up after join's timeout (history)
  orphans     \* others that left the dictionary alive, or about to be (history)

mainVars == <<shutdown, restart, stopLoop, mainPc, todo>>
reqVars  == <<asked, midway, stopAsked>>
history  == <<late, overdue, orphans>>
vars == <<mainVars, loopPc, idleTodo, reg, phase, ctl, sp, reqVars, history>>

Present == {n \in Names : reg[n] # NoInst}
Items == {<<n, reg[n]>> : n \in Present}   \* __plugins.copy().items()
Running(i) == phase[i] = "run"
Alive(i) == phase[i] \in {"run", "shut"}
Idle == [at |-> "none", name |-> NoInst, inst |-> NoInst, kill |-> FALSE,
         join |-> FALSE, size |-> 0]

TypeOK ==
  /\ shutdown \in BOOLEAN /\ restart \in BOOLEAN /\ stopLoop \in BOOLEAN
  /\ mainPc \in {"clear", "wait", "idle", "signal", "join", "unload", "config",
                 "ended", "crashed"}
  /\ todo \subseteq Names \X Insts
  /\ loopPc \in {"off", "run", "idle"}
  /\ idleTodo \subseteq Names \X Insts
  /\ reg \in [Names -> Insts \cup {NoInst}]
  /\ phase \in [Insts -> {"new", "made", "added", "run", "shut", "dead"}]
  /\ ctl \in [Starters -> Insts \cup {NoInst}]
  /\ sp \in [Procs -> [at : {"none", "unlink", "signal", "join", "check", "del"},
                       name : Names \cup {NoInst}, inst : Insts \cup {NoInst},
                       kill : BOOLEAN, join : BOOLEAN, size : Nat]]
  /\ \A t \in Procs : sp[t].at # "none" => sp[t].inst \in Insts
  /\ asked \in 0..MaxRequests /\ midway \in BOOLEAN /\ stopAsked \in BOOLEAN
  /\ late \subseteq Insts /\ overdue \subseteq Insts /\ orphans \subseteq Insts

(* start() has started the main thread: neither it nor the configuration has    *)
(* done anything yet.                                                            *)
Init ==
  /\ shutdown = FALSE /\ restart = FALSE /\ stopLoop = FALSE
  /\ mainPc = "clear" /\ todo = {}
  /\ loopPc = "off" /\ idleTodo = {}
  /\ reg = [n \in Names |-> NoInst]
  /\ phase = [i \in Insts |-> "new"]
  /\ ctl = [c \in Starters |-> NoInst]
  /\ sp = [t \in Procs |-> Idle]
  /\ asked = 0 /\ midway = FALSE /\ stopAsked = FALSE
  /\ late = {} /\ overdue = {} /\ orphans = {}

(* The thread that called start() has applied the configuration.               *)
StartupDone == ctl[Starter] = NoInst /\ \A i \in Startup : phase[i] # "new"

(* The entry of name n is deleted or overwritten.                              *)
Leaves(n) ==
  orphans' = orphans \cup
    {i \in Insts \ overdue : i = reg[n] /\ phase[i] \in {"added", "run", "shut"}}

-----------------------------------------------------------------------------
(* stop_plugin(p, kill, timeout), run by thread t.                             *)

Free(t) == sp[t].at = "none"

(* The name is looked up; a loop over the dictionary to unlink p begins.       *)
StopBegin(t, n, kill, join) ==
  IF reg[n] = NoInst THEN UNCHANGED sp
  ELSE sp' = [sp EXCEPT ![t] = [at |-> "unlink", name |-> n, inst |-> reg[n],
                                kill |-> kill, join |-> join,
                                size |-> Cardinality(Present)]]

(* An exception in stop_plugin ends the main thread; the event loop logs it    *)
(* and leaves idle(); a controller reports it.                                  *)
Raise(t) ==
  /\ sp' = [sp EXCEPT ![t] = Idle]
  /\ mainPc' = IF t = Main THEN "crashed" ELSE mainPc
  /\ idleTodo' = IF t = Loop THEN {} ELSE idleTodo

(* The unlink loop ends, or finds that the dictionary changed size.            *)
StopUnlink(t) ==
  /\ sp[t].at = "unlink"
  /\ IF Cardinality(Present) # sp[t].size
     THEN Raise(t)
     ELSE /\ sp' = [sp EXCEPT ![t].at = IF sp[t].kill THEN "check" ELSE "signal"]
          /\ UNCHANGED <<mainPc, idleTodo>>
  /\ UNCHANGED <<shutdown, restart, stopLoop, todo, loopPc, reg, phase, ctl, reqVars, history>>

StopSignalSilent(t) ==   \* mutant: plugin.stop() is not called
  /\ sp[t].at = "signal"
  /\ sp' = [sp EXCEPT ![t] = IF ~Alive(@.inst) THEN [@ EXCEPT !.at = "check"]
                             ELSE IF @.join THEN [@ EXCEPT !.at = "join"] ELSE Idle]
  /\ UNCHANGED <<mainVars, loopPc, idleTodo, reg, phase, ctl, reqVars, history>>

(* while alive: signal it to stop; without a timeout that is all.              *)
StopSignal(t) ==
  /\ sp[t].at = "signal"
  /\ IF Alive(sp[t].inst)
     THEN /\ phase' = [phase EXCEPT ![sp[t].inst] = "shut"]
          /\ sp' = [sp EXCEPT ![t] = IF @.join THEN [@ EXCEPT !.at = "join"] ELSE Idle]
     ELSE /\ sp' = [sp EXCEPT ![t].at = "check"]
          /\ UNCHANGED phase
  /\ UNCHANGED <<mainVars, loopPc, idleTodo, reg, ctl, reqVars, history>>

(* join(timeout) returned: the plugin is dead, or it is signalled again unless *)
(* the framework is shutting down.                                              *)
StopJoin(t) ==
  /\ sp[t].at = "join"
  /\ IF Alive(sp[t].inst) /\ shutdown
     THEN /\ sp' = [sp EXCEPT ![t].at = "check"]
          /\ overdue' = overdue \cup {sp[t].inst}
     ELSE sp' = [sp EXCEPT ![t].at = "signal"] /\ UNCHANGED overdue
  /\ UNCHANGED <<mainVars, loopPc, idleTodo, reg, phase, ctl, reqVars, late, orphans>>

StopCheckOnly(t) ==   \* mutant: the dead plugin is not unloaded
  /\ sp[t].at = "check"
  /\ sp' = [sp EXCEPT ![t] = Idle]
  /\ UNCHANGED <<mainVars, loopPc, idleTodo, reg, phase, ctl, reqVars, history>>

(* if p in self.__plugins ... *)
StopCheck(t) ==
  /\ sp[t].at = "check"
  /\ sp' = [sp EXCEPT ![t] = IF reg[@.name] = NoInst THEN Idle ELSE [@ EXCEPT !.at = "del"]]
  /\ UNCHANGED <<mainVars, loopPc, idleTodo, reg, phase, ctl, reqVars, history>>

(* ... del self.__plugins[p]: whatever instance has the name now.              *)
StopDel(t) ==
  /\ sp[t].at = "del"
  /\ IF reg[sp[t].name] = NoInst
     THEN Raise(t) /\ UNCHANGED <<reg, orphans>>
     ELSE /\ reg' = [reg EXCEPT ![sp[t].name] = NoInst]
          /\ Leaves(sp[t].name)
          /\ sp' = [sp EXCEPT ![t] = Idle]
          /\ UNCHANGED <<mainPc, idleTodo>>
  /\ UNCHANGED <<shutdown, restart, stopLoop, todo, loopPc, phase, ctl, reqVars, late, overdue>>

StopStep(t) == StopUnlink(t) \/ StopSignal(t) \/ StopJoin(t) \/ StopCheck(t) \/ StopDel(t)

-----------------------------------------------------------------------------
(* The threads of the plugins. *)

PluginStops(i) ==   \* a plugin may also shut itself down
  /\ phase[i] = "run"
  /\ phase' = [phase EXCEPT ![i] = "shut"]
  /\ UNCHANGED <<mainVars, loopPc, idleTodo, reg, ctl, sp, reqVars, history>>

PluginDies(i) ==
  /\ phase[i] = "shut"
  /\ phase' = [phase EXCEPT ![i] = "dead"]
  /\ UNCHANGED <<mainVars, loopPc, idleTodo, reg, ctl, sp, reqVars, history>>

-----------------------------------------------------------------------------
(* run(): the main thread. *)

RunClear ==
  /\ mainPc = "clear"
  /\ shutdown' = FALSE /\ stopLoop' = FALSE
  /\ loopPc' = "run"
  /\ mainPc' = "wait"
  /\ UNCHANGED <<restart, todo, idleTodo, reg, phase, ctl, sp, reqVars, history>>

RunShutdown ==   \* __shutdown.wait() returns; idle(True) copies the plugins
  /\ mainPc = "wait" /\ shutdown
  /\ mainPc' = "idle"
  /\ todo' = Items
  /\ UNCHANGED <<shutdown, restart, stopLoop, loopPc, idleTodo, reg, phase, ctl, sp, reqVars, history>>

RunIdle ==   \* idle(True): unload what is dead
  /\ mainPc = "idle" /\ Free(Main)
  /\ \E x \in todo :
       /\ todo' = todo \ {x}
       /\ IF Alive(x[2]) THEN UNCHANGED sp ELSE StopBegin(Main, x[1], TRUE, FALSE)
  /\ UNCHANGED <<shutdown, restart, stopLoop, mainPc, loopPc, idleTodo, reg, phase, ctl, reqVars, history>>

RunSignal ==   \* stop_plugin(p, timeout=None) for every plugin
  /\ mainPc = "signal" /\ Free(Main)
  /\ \E x \in todo : todo' = todo \ {x} /\ StopBegin(Main, x[1], FALSE, FALSE)
  /\ UNCHANGED <<shutdown, restart, stopLoop, mainPc, loopPc, idleTodo, reg, phase, ctl, reqVars, history>>

RunUnload ==   \* stop_plugin(p) for every plugin
  /\ mainPc = "unload" /\ Free(Main)
  /\ \E x \in todo : todo' = todo \ {x} /\ StopBegin(Main, x[1], FALSE, TRUE)
  /\ UNCHANGED <<shutdown, restart, stopLoop, mainPc, loopPc, idleTodo, reg, phase, ctl, reqVars, history>>

(* The end of each of these loops, and the beginning of what comes next.       *)
LoopOver(pc) == mainPc = pc /\ todo = {} /\ Free(Main)

RunIdleEnd ==
  /\ LoopOver("idle")
  /\ mainPc' = "signal" /\ todo' = Items
  /\ UNCHANGED <<shutdown, restart, stopLoop, loopPc, idleTodo, reg, phase, ctl, sp, reqVars, history>>

RunSignalEndKeepLoop ==   \* mutant: the event loop is not told to stop
  /\ LoopOver("signal")
  /\ mainPc' = "join"
  /\ UNCHANGED <<shutdown, restart, stopLoop, todo, loopPc, idleTodo, reg, phase, ctl, sp, reqVars, history>>

RunSignalEnd ==
  /\ LoopOver("signal")
  /\ mainPc' = "join" /\ stopLoop' = TRUE
  /\ UNCHANGED <<shutdown, restart, todo, loopPc, idleTodo, reg, phase, ctl, sp, reqVars, history>>

RunNoJoin ==   \* mutant: event_loop.join() is left out
  /\ mainPc = "join"
  /\ mainPc' = "unload" /\ todo' = Items
  /\ late' = {i \in Insts : phase[i] \in {"new", "made", "added"}}
  /\ UNCHANGED <<shutdown, restart, stopLoop, loopPc, idleTodo, reg, phase, ctl, sp, reqVars, overdue, orphans>>

RunJoin ==   \* event_loop.join(); ipc_loop.join()
  /\ mainPc = "join" /\ loopPc = "off"
  /\ mainPc' = "unload" /\ todo' = Items
  /\ late' = {i \in Insts : phase[i] \in {"new", "made", "added"}}
  /\ UNCHANGED <<shutdown, restart, stopLoop, loopPc, idleTodo, reg, phase, ctl, sp, reqVars, overdue, orphans>>

RunUnloadEnd ==   \* restart if the flag is set, and clear it
  /\ LoopOver("unload")
  /\ mainPc' = IF restart THEN "config" ELSE "ended"
  /\ restart' = FALSE
  /\ UNCHANGED <<shutdown, stopLoop, todo, loopPc, idleTodo, reg, phase, ctl, sp, reqVars, history>>

(* self.start() of a restart has applied the startup configuration (StartCheck  *)
(* to StartThread below, by the main thread); no event loop runs yet.           *)
RunConfigEnd ==
  /\ mainPc = "config" /\ ctl[Main] = NoInst
  /\ \A i \in Reload : phase[i] # "new"
  /\ StartupSync => loopPc = "run"
  /\ mainPc' = "clear"
  /\ UNCHANGED <<shutdown, restart, stopLoop, todo, loopPc, idleTodo, reg, phase, ctl, sp, reqVars, history>>

-----------------------------------------------------------------------------
(* The event loop's idle(), and its end. *)

LoopIdle ==
  /\ LoopIdles /\ loopPc = "run"
  /\ IdleEarly \/ StartupDone
  /\ loopPc' = "idle"
  /\ idleTodo' = Items
  /\ UNCHANGED <<mainVars, reg, phase, ctl, sp, reqVars, history>>

LoopUnload ==
  /\ loopPc = "idle" /\ Free(Loop)
  /\ \E x \in idleTodo :
       /\ idleTodo' = idleTodo \ {x}
       /\ IF Alive(x[2]) THEN UNCHANGED sp ELSE StopBegin(Loop, x[1], TRUE, FALSE)
  /\ UNCHANGED <<mainVars, loopPc, reg, phase, ctl, reqVars, history>>

LoopIdleEnd ==
  /\ loopPc = "idle" /\ Free(Loop) /\ idleTodo = {}
  /\ loopPc' = "run"
  /\ UNCHANGED <<mainVars, idleTodo, reg, phase, ctl, sp, reqVars, history>>

LoopEnds ==
  /\ loopPc = "run" /\ stopLoop
  /\ loopPc' = "off"
  /\ UNCHANGED <<mainVars, idleTodo, reg, phase, ctl, sp, reqVars, history>>

-----------------------------------------------------------------------------
(* start_plugin(), run by thread c: the startup configuration, applied by the    *)
(* thread that called start() and by the main thread at a restart, and           *)
(* controllers, which also stop plugins.                                         *)

Loads(c) == IF c = Starter THEN Startup
            ELSE IF c = Main THEN Reload
            ELSE Insts \ (Startup \cup Reload)

(* A thread between two commands creates an instance.                            *)
MayStart(c, i) ==
  /\ ctl[c] = NoInst
  /\ i \in Loads(c) /\ phase[i] = "new"
  /\ c = Main => mainPc = "config"
  /\ c \in Controllers => Free(c)

StartCheck(c, i) ==   \* its name is free
  /\ MayStart(c, i)
  /\ reg[NameOf[i]] = NoInst
  /\ phase' = [phase EXCEPT ![i] = "made"]
  /\ ctl' = [ctl EXCEPT ![c] = i]
  /\ UNCHANGED <<mainVars, loopPc, idleTodo, reg, sp, reqVars, history>>

StartRefused(c, i) ==   \* or taken: an exception, which config() logs
  /\ MayStart(c, i)
  /\ reg[NameOf[i]] # NoInst
  /\ phase' = [phase EXCEPT ![i] = "dead"]
  /\ UNCHANGED <<mainVars, loopPc, idleTodo, reg, ctl, sp, reqVars, history>>

StartAdd(c) ==
  /\ ctl[c] # NoInst /\ phase[ctl[c]] = "made"
  /\ Leaves(NameOf[ctl[c]])
  /\ reg' = [reg EXCEPT ![NameOf[ctl[c]]] = ctl[c]]
  /\ phase' = [phase EXCEPT ![ctl[c]] = "added"]
  /\ UNCHANGED <<mainVars, loopPc, idleTodo, ctl, sp, reqVars, late, overdue>>

StartThread(c) ==
  /\ ctl[c] # NoInst /\ phase[ctl[c]] = "added"
  /\ phase' = [phase EXCEPT ![ctl[c]] = "run"]
  /\ ctl' = [ctl EXCEPT ![c] = NoInst]
  /\ UNCHANGED <<mainVars, loopPc, idleTodo, reg, sp, reqVars, history>>

StopPlugin(c, n) ==
  /\ ctl[c] = NoInst /\ Free(c)
  /\ StopBegin(c, n, FALSE, TRUE)
  /\ UNCHANGED <<mainVars, loopPc, idleTodo, reg, phase, ctl, reqVars, history>>

-----------------------------------------------------------------------------
(* stop() and restart(), from a signal handler, a controller or a plugin.       *)

MayAsk(r) ==
  /\ r \in Requests /\ asked < MaxRequests
  /\ EarlyStop \/ (StartupDone /\ mainPc \notin {"clear", "config"} /\ ~midway)

Stop ==
  /\ MayAsk("stop")
  /\ shutdown' = TRUE
  /\ asked' = asked + 1 /\ stopAsked' = TRUE
  /\ UNCHANGED <<restart, stopLoop, mainPc, todo, loopPc, idleTodo, reg, phase, ctl, sp, midway, history>>

RestartFlag ==   \* restart(): first the flag, ...
  /\ MayAsk("restart") /\ ~midway
  /\ restart' = TRUE /\ midway' = TRUE
  /\ asked' = asked + 1
  /\ UNCHANGED <<shutdown, stopLoop, mainPc, todo, loopPc, idleTodo, reg, phase, ctl, sp, stopAsked, history>>

RestartStop ==   \* ... then stop()
  /\ midway
  /\ shutdown' = TRUE /\ midway' = FALSE
  /\ UNCHANGED <<restart, stopLoop, mainPc, todo, loopPc, idleTodo, reg, phase, ctl, sp, asked, stopAsked, history>>

-----------------------------------------------------------------------------
Run ==
  \/ RunClear \/ RunShutdown \/ RunIdle \/ RunIdleEnd \/ RunSignal \/ RunSignalEnd
  \/ RunJoin \/ RunUnload \/ RunUnloadEnd \/ RunConfigEnd

EventLoop == LoopIdle \/ LoopUnload \/ LoopIdleEnd \/ LoopEnds

Start(c) ==
  \/ \E i \in Insts : StartCheck(c, i) \/ StartRefused(c, i)
  \/ StartAdd(c) \/ StartThread(c)

Next ==
  \/ Run \/ EventLoop
  \/ \E t \in Procs : StopStep(t)
  \/ \E i \in Insts : PluginStops(i) \/ PluginDies(i)
  \/ \E c \in Starters : Start(c)
  \/ \E c \in Controllers, n \in Names : StopPlugin(c, n)
  \/ Stop \/ RestartFlag \/ RestartStop

Spec == Init /\ [][Next]_vars

(* Threads are scheduled, a plugin that was told to stop does, a configuration  *)
(* is applied to its end, and a call that began goes on.                         *)
Fairness ==
  /\ WF_vars(Run) /\ WF_vars(LoopIdle) /\ WF_vars(LoopUnload \/ LoopIdleEnd)
  /\ SF_vars(LoopEnds)
  /\ \A t \in Procs : WF_vars(StopStep(t))
  /\ \A i \in Insts : WF_vars(PluginDies(i))
  /\ \A c \in {Main, Starter} : WF_vars(Start(c))
  /\ \A c \in Controllers : WF_vars(StartAdd(c) \/ StartThread(c))
  /\ WF_vars(RestartStop)

FairSpec == Spec /\ Fairness
-----------------------------------------------------------------------------
(* "All plugins will be stopped and the framework will then terminate", whatever     *)
(* is loaded, dies or is unloaded meanwhile, and by whom; and so they are at every       *)
(* restart, before the configuration is applied again.  What may still run was not       *)
(* started yet when the main thread looked for plugins to unload, or had lost its entry   *)
(* in the dictionary; what else may still be alive was told to stop and given up.         *)
AllStopped ==
  mainPc \in {"ended", "config"} =>
    \A i \in Insts \ (late \cup orphans) : ~Running(i) /\ (Alive(i) => i \in overdue)

(* Nothing runs at the end, without those exceptions.                                    *)
NothingRuns == mainPc = "ended" => \A i \in Insts : ~Running(i)

(* stop_plugin() deletes, and start_plugin() overwrites, by name: it never is the entry  *)
(* of an instance that lives, or is about to, and that nobody gave up.                    *)
NoOrphans == orphans = {}

(* "prevent a race condition here, the framework idle loop may detect the plugin *)
(* has stopped and call stop_plugin": the main thread gets no exception from it. *)
MainSurvives == mainPc # "crashed"

(* restart() "signals main thread to restart": only stop() ends the framework.   *)
OnlyStopEnds == mainPc = "ended" => stopAsked

(* stop() ends the framework.                                                   *)
StopTerminates == stopAsked ~> mainPc = "ended"

(* A stop() that finds the main thread waiting, and no restart under way, ends   *)
(* the framework, unless a restart is asked for.                                 *)
StopServed ==
  (stopAsked /\ shutdown /\ ~restart /\ mainPc = "wait") ~> (mainPc = "ended" \/ restart)

(* A restart comes back: the main thread waits for the next request, and the     *)
(* configuration was applied.                                                    *)
RestartCompletes ==
  (restart /\ mainPc # "ended") ~> (mainPc = "wait" /\ ~restart)

(* The event loop unloads no dead plugin while the main thread goes over them    *)
(* for the first time: else run() may end in an exception (MainSurvives).         *)
Calm == mainPc \in {"idle", "signal"} => Free(Loop)

(* Both requests are served, although the event loop may be unloading plugins     *)
(* when it is told to end.                                                        *)
RequestsServed == []Calm => StopServed /\ RestartCompletes

(* A dead plugin leaves the dictionary.                                          *)
DeadUnloaded ==
  \A n \in Names, i \in Insts :
    (reg[n] = i /\ phase[i] = "dead") ~> (reg[n] # i)
=============================================================================
