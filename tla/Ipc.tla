--------------------------------- MODULE Ipc --------------------------------
(***************************************************************************)
(* Calls between threads through the IPC queues: Plugin.call_method(), which  *)
(* runs a method in the plugin's IPC loop, and Plugin.call(), which runs one   *)
(* in the framework's (plugin.py, framework.py).  Both wait for the answer in  *)
(* the plugin's one return queue, under the plugin's _ipc_lock.  A method that *)
(* an IPC loop runs may itself make such a call.                              *)
(***************************************************************************)
EXTENDS Integers, Sequences, FiniteSets

CONSTANTS
  Plugins,   \* plugins: each has an IPC loop, a lock and a return queue
  Callers,   \* other threads: event handlers, controllers, the main thread
  Methods,   \* methods that can be called
  Shutdown,  \* those of them that tell the plugin to stop
  Nested,    \* method -> the call it makes, or NoCall
  Asks,      \* caller -> the calls it makes
  MayStop,   \* servers that may be told to stop from outside (a flag is set)
  MaxCalls   \* bound: calls the callers make

Fw == "framework"
None == "none"
Servers == Plugins \cup {Fw}
Threads == Callers \cup Servers     \* a server stands for its IPC loop's thread

(* via: the plugin whose lock and return queue are used; to: who runs m.        *)
Calls == [via : Plugins, to : Servers, m : Methods]
CallMethod(p, m) == [via |-> p, to |-> p, m |-> m]     \* p.call_method(m)
CallFramework(p, m) == [via |-> p, to |-> Fw, m |-> m]  \* p.call(m)
NoCall == [via |-> None, to |-> None, m |-> None]

ASSUME IpcAssumption ==
  /\ IsFiniteSet(Threads) /\ None \notin Threads \cup Methods
  /\ Fw \notin Plugins /\ Callers \cap Servers = {}
  /\ Shutdown \subseteq Methods
  /\ Nested \in [Methods -> Calls \cup {NoCall}]
  /\ Asks \in [Callers -> SUBSET Calls]
  /\ \A c \in Callers : \A a \in Asks[c] : a.to \in {a.via, Fw}
  /\ \A m \in Methods : Nested[m] # NoCall => Nested[m].to \in {Nested[m].via, Fw}
  /\ \A m \in Methods : Nested[m] # NoCall => Nested[Nested[m].m] = NoCall
  /\ MayStop \subseteq Servers /\ MaxCalls \in Nat

VARIABLES
  holder,   \* plugin -> the thread that holds its _ipc_lock
  req,      \* server -> its _ipc_req: requests
  ret,      \* plugin -> its _ipc_ret: the numbers of the calls answered
  pc,       \* where each thread is
  call,     \* the call it makes
  id,       \* that call's number, 0 for none (history)
  job,      \* server -> the request it serves
  shutdown, \* server -> was it told to stop?
  dead,     \* plugins whose threads have all ended
  issued    \* calls the callers made (bound)

vars == <<holder, req, ret, pc, call, id, job, shutdown, dead, issued>>

Ids == 1..(2 * MaxCalls)    \* those of nested calls come after MaxCalls
Requests == [id : Ids, ret : Plugins, m : Methods]
NoJob == [id |-> 0, ret |-> None, m |-> None]

TypeOK ==
  /\ holder \in [Plugins -> Threads \cup {None}]
  /\ req \in [Servers -> Seq(Requests)]
  /\ ret \in [Plugins -> Seq(Ids)]
  /\ pc \in [Threads -> {"free", "lock", "wait", "reply", "exited"}]
  /\ call \in [Threads -> Calls \cup {NoCall}]
  /\ id \in [Threads -> Ids \cup {0}]
  /\ job \in [Servers -> Requests \cup {NoJob}]
  /\ shutdown \in [Servers -> BOOLEAN]
  /\ dead \in SUBSET Plugins /\ issued \in 0..MaxCalls
  /\ \A t \in Threads : pc[t] \in {"lock", "wait"} => call[t] # NoCall /\ id[t] # 0
  /\ \A s \in Servers : pc[s] \in {"lock", "wait", "reply"} => job[s] # NoJob
  /\ \A p \in dead : pc[p] = "exited"

Init ==
  /\ holder = [p \in Plugins |-> None]
  /\ req = [s \in Servers |-> <<>>] /\ ret = [p \in Plugins |-> <<>>]
  /\ pc = [t \in Threads |-> "free"]
  /\ call = [t \in Threads |-> NoCall] /\ id = [t \in Threads |-> 0]
  /\ job = [s \in Servers |-> NoJob]
  /\ shutdown = [s \in Servers |-> FALSE] /\ dead = {} /\ issued = 0

-----------------------------------------------------------------------------
(* The caller's side. *)

Begin(t, a, n) ==
  /\ call' = [call EXCEPT ![t] = a] /\ id' = [id EXCEPT ![t] = n]
  /\ pc' = [pc EXCEPT ![t] = "lock"]

(* A plugin is told to shut down only while it is alive (stop_plugin).         *)
Ask(c, a) ==
  /\ pc[c] = "free"
  /\ a.m \in Shutdown => a.via \notin dead
  /\ issued < MaxCalls /\ issued' = issued + 1
  /\ Begin(c, a, issued + 1)
  /\ UNCHANGED <<holder, req, ret, job, shutdown, dead>>

Put(t) == LET a == call[t] IN
  /\ req' = [req EXCEPT ![a.to] = Append(@, [id |-> id[t], ret |-> a.via, m |-> a.m])]
  /\ pc' = [pc EXCEPT ![t] = "wait"]

(* "with self._ipc_lock": put the request in the queue.                        *)
TakeLock(t) ==
  /\ pc[t] = "lock" /\ holder[call[t].via] = None
  /\ Put(t)
  /\ holder' = [holder EXCEPT ![call[t].via] = t]
  /\ UNCHANGED <<ret, call, id, job, shutdown, dead, issued>>

AnswerHold(t) ==   \* mutant: the lock is not released
  /\ pc[t] = "wait" /\ ret[call[t].via] # <<>>
  /\ ret' = [ret EXCEPT ![call[t].via] = Tail(@)]
  /\ pc' = [pc EXCEPT ![t] = IF t \in Servers THEN "reply" ELSE "free"]
  /\ UNCHANGED <<holder, req, call, id, job, shutdown, dead, issued>>

(* Get the answer and leave the block; a server's nested call is its method's   *)
(* result.                                                                     *)
Answer(t) ==
  /\ pc[t] = "wait" /\ ret[call[t].via] # <<>>
  /\ ret' = [ret EXCEPT ![call[t].via] = Tail(@)]
  /\ holder' = [holder EXCEPT ![call[t].via] = None]
  /\ pc' = [pc EXCEPT ![t] = IF t \in Servers THEN "reply" ELSE "free"]
  /\ UNCHANGED <<req, call, id, job, shutdown, dead, issued>>

-----------------------------------------------------------------------------
(* The IPC loops. *)

Serve(s) ==
  /\ pc[s] = "free" /\ req[s] # <<>>
  /\ LET r == Head(req[s]) IN
       /\ job' = [job EXCEPT ![s] = r]
       /\ shutdown' = [shutdown EXCEPT ![s] = @ \/ r.m \in Shutdown]
       /\ IF Nested[r.m] = NoCall
          THEN /\ pc' = [pc EXCEPT ![s] = "reply"]
               /\ UNCHANGED <<call, id>>
          ELSE Begin(s, Nested[r.m], r.id + MaxCalls)
  /\ req' = [req EXCEPT ![s] = Tail(@)]
  /\ UNCHANGED <<holder, ret, dead, issued>>

ReplyTwice(s) ==   \* mutant: an exception is returned, and then the result
  /\ pc[s] = "reply"
  /\ ret' = [ret EXCEPT ![job[s].ret] = @ \o <<job[s].id, job[s].id>>]
  /\ pc' = [pc EXCEPT ![s] = "free"]
  /\ UNCHANGED <<holder, req, call, id, job, shutdown, dead, issued>>

(* The result, or the exception, goes to the return queue of the request.       *)
Reply(s) ==
  /\ pc[s] = "reply"
  /\ ret' = [ret EXCEPT ![job[s].ret] = Append(@, job[s].id)]
  /\ pc' = [pc EXCEPT ![s] = "free"]
  /\ UNCHANGED <<holder, req, call, id, job, shutdown, dead, issued>>

(* No request for a second, and the server is to stop.                          *)
ServerExit(s) ==
  /\ pc[s] = "free" /\ req[s] = <<>> /\ shutdown[s]
  /\ pc' = [pc EXCEPT ![s] = "exited"]
  /\ UNCHANGED <<holder, req, ret, call, id, job, shutdown, dead, issued>>

(* The other threads of the plugin end after its IPC loop.                      *)
PluginDies(p) ==
  /\ p \notin dead /\ pc[p] = "exited"
  /\ dead' = dead \cup {p}
  /\ UNCHANGED <<holder, req, ret, pc, call, id, job, shutdown, issued>>

StopServer(s) ==   \* Plugin.stop(); __stop_event_loop
  /\ s \in MayStop /\ ~shutdown[s]
  /\ shutdown' = [shutdown EXCEPT ![s] = TRUE]
  /\ UNCHANGED <<holder, req, ret, pc, call, id, job, dead, issued>>

-----------------------------------------------------------------------------
Server(s) == Serve(s) \/ Reply(s) \/ ServerExit(s)

Next ==
  \/ \E c \in Callers : \E a \in Asks[c] : Ask(c, a)
  \/ \E t \in Threads : TakeLock(t) \/ Answer(t)
  \/ \E s \in Servers : Server(s) \/ StopServer(s)
  \/ \E p \in Plugins : PluginDies(p)

Spec == Init /\ [][Next]_vars

(* The loops run, answers are taken, and whoever waits for a lock that is free   *)
(* again and again gets it.                                                      *)
FairSpec ==
  /\ Spec
  /\ \A t \in Threads : WF_vars(Answer(t)) /\ SF_vars(TakeLock(t))
  /\ \A s \in Servers : WF_vars(Server(s))
-----------------------------------------------------------------------------
(* What is on its way through plugin p's return queue: requests not yet served,  *)
(* requests being served, answers.                                               *)
Queued(p) == {x \in Servers \X Ids :
                x[2] <= Len(req[x[1]]) /\ req[x[1]][x[2]].ret = p}
Served(p) == {s \in Servers : pc[s] \in {"lock", "wait", "reply"} /\ job[s].ret = p}
OnTheWay(p) == Cardinality(Queued(p)) + Cardinality(Served(p)) + Len(ret[p])

(* "lock IPC so we know the response will be to us": while a thread holds the      *)
(* lock exactly one request or answer is under way, otherwise none is.            *)
OneOutstanding ==
  \A p \in Plugins : OnTheWay(p) = IF holder[p] = None THEN 0 ELSE 1

(* A caller gets the answer to its own call.                                      *)
OwnAnswer ==
  \A t \in Threads : pc[t] = "wait" =>
    \A i \in DOMAIN ret[call[t].via] : ret[call[t].via][i] = id[t]

(* Nobody's lock is taken away: whoever waits for an answer holds the lock.       *)
WaitsWithLock == \A t \in Threads : pc[t] = "wait" => holder[call[t].via] = t

(* A call returns its result, unless an IPC loop ends meanwhile.                   *)
Calling(t) == pc[t] \in {"lock", "wait"}
CallsReturn ==
  \A t \in Threads : Calling(t) ~> (~Calling(t) \/ \E s \in Servers : pc[s] = "exited")

(* A call returns its result.                                                     *)
AllCallsReturn == \A t \in Threads : Calling(t) ~> ~Calling(t)
=============================================================================
