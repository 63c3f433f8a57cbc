# A TLA+ model of the Active Defense Framework

The Active Defense Framework (ADF) is a Python framework for programs that watch
and change traffic on a wire: plugins are loaded into one process, linked to each
other, and pass packets along the links; events tie them together, and a control
channel starts, stops and configures them. This directory holds TLA+ modules of
its core, configurations that check them with TLC, and proofs that TLAPS checks.
All line numbers are those of `src/python/adf/` in this repository.

The models are of the default build: `ADF_MP` is off, every plugin is a set of
threads, queues are `queue.Queue` objects, shared dictionaries are plain ones.

## 1. Inventory

### The parts, their state, and how they interact

| part | code | state | operations | interacts with |
|---|---|---|---|---|
| Event bus | `framework.py` 534-622, `plugin.py` 131-167, 520-559, `event.py` 4-60 | the framework's event queue and its count of unfinished events, the plugin dictionary, the subscriptions, each plugin's event queue, an event's path | `event()`, `handle_event()`, `subscribe()`, the event thread of a plugin | everything that emits events; start and stop of plugins change the dictionary it walks |
| Event lock | `framework.py` 134-151, 624-669 | the lock, the flag `__locked` | `lock()`, `unlock()`, `wait()`, the event loop | the event bus: `wait()` handles events itself |
| Lifecycle | `framework.py` 26-132, 171-185, 427-474; `plugin.py` 67-129, 186-215 | `__shutdown`, `__restart`, `__stop_event_loop`, the dictionary, the life of each plugin | `run()`, `start()`, `stop()`, `restart()`, `start_plugin()`, `stop_plugin()`, `idle()` | the bus and dispatch, through the dictionary and the links |
| Dispatch | `plugin.py` 169-184, 284-426; `framework.py` 477-516; `interface.py` | links of each plugin, a direct link, the `info` dictionary that travels with a packet | `handle_packet()`, `dispatch()`, `send()`, `link()`, `unlink()` | interfaces at both ends; `stop_plugin()` unlinks |
| IPC calls | `plugin.py` 96-116, 275-280, 561-571; `framework.py` 153-169 | request queue of each plugin and of the framework, return queue and lock of each plugin | `call_method()`, `call()`, the IPC loops | control commands, event transports, everything a plugin asks of the framework |
| Plugin and flow state | `plugin.py` 453-516 | a dictionary of the framework's manager for each plugin, a plain one whose reads are references; the flow table in it | `get_state()`, `set_state()`, `del_state()`, `flow_state()` | dispatch (packets of a flow), dump and load |
| Persistence | `framework.py` 673-774 | the state file | `dump_state()`, `save_state()`, `load_state()` | lifecycle, links, subscriptions |
| Control | `framework.py` 205-392, 778-837; `adfcon.py`, `__main__.py` | connections | commands, as text or JSON | all of the above |
| Event transports | `event.py` 68-356 | sockets, sequence number and keys of a channel | listen, send, reconnect, migrate | event bus, IPC |
| ISO 15765 | `canbus/UDS.py` 95-265 | reassembly queues by source, frames waiting for a flow control | send, receive | CAN interfaces through dispatch |
| UDS | `canbus/UDS.py` 268-865 | session, seed, lock and transfer of the responder; the interface a proxy returns answers to | requests, the proxies' effects, the responder's services | ISO 15765, events |
| In-band protocol | `canbus/IBP.py` | a buffer of frames for each sender; chunks to send, chunks received, the chunk last asked for | send, receive, ask again | CAN interfaces, the event bus |
| J1939 | `canbus/j1939.py` | multi-packet transfers by source | decode | CAN interfaces |
| ECU simulation | `canbus/ecu.py` | what each identifier was last set to; the buffer and the flag of `listen()` | `set_periodic()`, `clear_periodic()`, `listen()` | the interfaces' tasks, by events |
| CAN and network interfaces | `canbus/__init__.py`, `logger.py`, `mqtt.py`, `dbc.py`, `interface.py` | sockets and files | capture, inject | dispatch |
| Bus statistics | `canbus/profile.py` | running means and limits | update, alert | events |
| Traffic plugins | `plugins/*.py` | TCP sequence offsets, ARP cache, redirections | effects | dispatch |
| Parallel processing | `adf_parallel.py` | a pool and its outstanding results | submit, collect | dispatch |
| Kernel tap | `bpf_tap.c`, `plugins/bpf_tap.py` | devices | forward | interfaces |
| Utilities | `util.py` | none | dotted keys, parsing | all |

### What is hard

* *Three kinds of threads, no lock.* The plugin dictionary is read and changed by
  the main thread, the event loop, the IPC loop, control threads and plugins; no
  lock guards it. A loop over it ends in an exception when it changes size.
* *Waiting.* A synchronous event waits for the whole queue, the event loop waits
  for the plugins of a synchronous event, a call waits for an IPC loop, a lock
  waits for the event loop to be idle, the end waits for all of them. Each pair of
  these can close a circle.
* *Shared objects.* An `Event` and the `info` of a packet are one object in the
  hands of all their receivers: the path, `prev`, `dispatch` and `dest` change
  under the feet of a reader; so do the links of a plugin and its flow table.
* *Check, then act.* `stop_plugin()` tests and deletes, `unlock()` tests, releases
  and clears, `start_plugin()` tests and inserts, `restart()` sets a flag and then
  stops.
* *Loss.* CAN frames and UDP packets get lost, TCP connections break; the transports
  over them keep state for a transfer that never ends, and numbers that wrap.
* *Memory in two places.* An ECU remembers what it had sent, the interface what it
  sends; a saved state is what plugins had, one after another.
* *Errors that are logged.* An exception in an effect, an event handler, a dispatch or
  a save is caught, logged and forgotten; what it left undone stays undone.
* *Crashes.* The state file and the files of finished commands outlive the process
  and decide what the next one does.

### What makes each part correct

* Event bus: the counts that `join()` waits on are exact; while a plugin has a
  synchronous event to handle the bus waits at it; a synchronous `event()` returns
  after every handler, and does return; an event is not delivered twice; a plugin
  handles events in the order of publication.
* Event lock: one handler of events at a time, who holds the lock; `wait()` returns
  the event it was asked for; the lock is granted.
* Lifecycle: at the end, and before a restart, nothing runs that was started in time;
  a request is served; the dead are unloaded, and nobody else loses its entry.
* Dispatch: every plugin that can be reached gets the packet, none loops; a dispatch
  that fails takes the packet from nobody who was selected for it.
* IPC: one request under way per lock, each caller gets its own answer, each call
  returns.
* ISO 15765: a message delivered is a message sent, whole, once and in order.
* The other transports (in-band packets and events, the J1939 decoder): the same; and
  what is lost is asked for again where the code does so. Channel: an event that lost
  a packet does no harm to later ones. Sender and Listener: everybody is served. TCP
  server: every segment once and in order.
* UDS: the ECU opens to the right key, once, in a session; a download that was
  confirmed is in memory, and comes to its end in spite of losses and other testers.
* Periodic frames and `listen()`: the interface sends what was last set, if it could
  start it; a frame that a call of `listen()` wants is in its list, and wakes it.
* Persistence: what is restored was saved, and nothing else is left; a crash does not
  lose the last save, unless the write itself fails. Flow state: the entry of a flow
  stays until it is removed.
* Redirection: a response goes to the client that asked, under the address it asked.
* Parallel commands: none is left out because the program crashed or one could not be
  run.

## 2. Plan

The order follows the importance for the system, which is why the framework comes
before the vehicle protocols. What is done:

1. The framework: `EventBus`, `EventLock`, `Lifecycle`, `Dispatch`, `Ipc`, with proofs
   about each.
2. The vehicle protocols: `IsoTp`, `IbpPacket`, `IbpTransport` and `J1939`, each checked
   against one abstract specification, `Transfer`; `Uds` above them; `Periodic` and
   `Comm` of the simulated ECUs.
3. What plugins and the framework keep and exchange: `FlowState`, `Snapshot`,
   `Channel`, `EventLink`, `Tcp`, `Redir`, `Parallel`.
4. Proofs: `EventBusProofs`, `EventLockProofs`, `IpcProofs`, `DispatchProofs`,
   `LifecycleProofs`, `UdsProofs`, `CanbusProofs`, `ServicesProofs`. Every invariant and
   action property that a run checks is a theorem there, and so are the four
   refinements of `Transfer`.

What is left, in order:

1. A composition of `Ipc` and `EventBus`: a plugin that calls `dump_state()` makes the
   IPC loop emit a synchronous event. Each of the two is near the limit of what TLC
   enumerates; it needs a smaller abstraction of both.
2. The in-band transport without acknowledgement.

## 3. The modules

Every definition that stands for code is listed in `PROJECT.json` under "map", with
the lines it translates. An action is as large as what the code does without another
thread being able to see the middle of it: an access to the plugin dictionary, a
`put` or `get`, an `acquire`. Names are those of the code. A definition whose comment
begins with "mutant" belongs to no model: it is a plausible mistake in the definition
that follows it, and `PROJECT.json` names the property it breaks.

### The framework

**EventBus** (`MCEventBus` instantiates it, `EventBusProofs` proves it). The bus as
its users see it: the queue with its count of unfinished tasks (`evq`, `unf`), the
event loop's walk over the plugin dictionary (`busPc`, `iterIdx`, `iterSize`), one
step per entry, the joins after a synchronous event (`handled`), and for each plugin
its queue, its count and the event in hand. The dictionary is its insertion order
(`entries`) and the keys that are still in it (`reg`), which is what a Python
iterator depends on: `BusRaise` is the RuntimeError of a walk over a dictionary that
changed size, which leaves `handle_event()` without `task_done()`. An event is
created, or passed on by a handler (`Requeue`); its path is shared by all holders.
The start of a plugin is three steps, its end four.

**EventLock** (`EventLockProofs`). `lock()`, `unlock()` and `wait()` statement by
statement against the event loop's `with self.__lock`. `__lock` (`held`) and
`__locked` (`locked`) are two variables, since the code writes them at different
times. Time passes in `Tick`, a second at a time, only while a client is blocked in
`handle_event(t)`.

**Lifecycle** (`MCLifecycle`, `LifecycleProofs`). `stop_plugin()` is a procedure with
a program counter per thread (`sp`), run by the main thread, the event loop and
controllers at once; looking a name up and starting the unlink loop is one step
(`StopBegin`), each later access another. `run()` walks through its phases (`mainPc`),
each loop over the plugins on a copy (`todo`). `start()` starts the main thread before it
applies the startup configuration (76-78), so at the beginning nothing is loaded and the
thread that called it (`Starter`) runs beside `run()`; at a restart the main thread itself
applies the configuration. `start_plugin()` is test, insertion and start of the thread,
for the two of them and for controllers, which go on until the program ends. History
variables name the plugins that escape a shutdown: `late` did not run yet when the event
loop was joined, `overdue` were told to stop and given up when `join(timeout)` returned,
`orphans` lost their entry to another thread. `EarlyStop` and `IdleEarly` say whether a
request, or the event loop's idle second, may come before the configuration is applied.

**Dispatch** (`MCDispatch`, `DispatchProofs`). A thread has a stack of handlings, since
in the default build `send()` calls the next plugin's `handle_packet()`; a plugin with
`queue=1` has a thread of its own. `dispatch()` is read, select and send, because
`info` is shared between threads. The iteration over the links takes a step for each
link (`Look`), as it is at that moment; a dictionary that changed its size ends it with a
RuntimeError (`Changed`), and one that `unlink()` replaced goes on to be iterated over
(`dropped`, `gen`). A dictionary of the same size with other keys may end the iteration
early (`Found`) or raise; TLC's one command does not reach that case, the proofs cover
it. An exception ends the one dispatch and is logged by the caller (`Raises`); `chosen` is
who was selected. Filters and effects are a choice: drop the packet, set `dispatch` or `dest`, or leave
it alone. `got` counts hand-overs up to two.

**Ipc** (`MCIpc`, `IpcProofs`). Lock, request and answer of `call_method()` and
`call()`, and the loops that serve them. A method is what it does to this protocol:
return, make one call itself (one level deep, the depth the code's own callers use),
tell the plugin to stop.

**Snapshot** (in `MCServices`, `ServicesProofs`). `dump_state()` copies the state of
one plugin after another (`DumpOne`); `save_state()` opens the file, which empties it
(`OpenFile`), and writes it (`WriteFile`). Either may end in an exception that is only
logged (`SaveFails`, 769-771): before the file is opened it keeps what it had, later a
part of the state is left in it until a save succeeds (`broken`), as after a crash in
between. `load_state()` goes through its stages one
by one: flush the state, stop the plugins, load those of the snapshot, some of which
may not load, set their state. The framework may crash between any two steps and
starts again from its configuration; the file stays.

**FlowState** (in `MCServices`, `ServicesProofs`). `get_state()` returns the table
itself (`plugin.py` 484: the default build's manager makes plain dictionaries), or a new
one when the state has none. A thread looks for the flow in one direction, then in the
other, then enters or removes it, then puts the table back: five steps, during which
other threads work on the same table.

### The vehicle protocols

**Transfer** is what a transport promises: messages between nodes, in order, each at
most once, whole, some lost. A message is a number, and what is sent later has a
greater one: `sent` is the set of numbers sent from a node to another, and what is
received has to be in it and greater than all that was received before. It is stated
once and implemented four times; each refinement maps what was passed up back to the
messages sent, and a message that is none that was sent maps to 0, which `Transfer`
never receives.

**IsoTp** (in `MCCanbus`). A message is its number; a frame carries the number of its
message and its block, which the receiver does not look at: it sees the block modulo
16, as in the code. `txq` and `rxq` are the tables `tx_queues` and `rx_queues`, `burst`
is the packet thread's loop over the consecutive frames, one frame a step, during which
the event thread may start another message. `Priority` is that of the links between the
plugin and the bus: flow control and consecutive frames are dispatched with `info['prev']`
as their `dispatch` (`UDS.py` 217, 253), a set which `__dispatch()` wraps in a list, so that it
names no link (`AnswersLeave`); priority-1 links carry them all the same.

**IbpPacket** (in `MCCanbus`). A header and numbered data frames, each sent `Count`
times; the number of a frame counts the copies. A receiver has one buffer for each
sender. Two threads of a node may send at once, so that their frames mix; the checksum
is whether the parts are those of the header's packet.

**IbpTransport** (in `MCCanbus`). The acknowledged transport: an empty packet announces
an event, the receiver asks for chunk after chunk, its idle thread asks again, a
request without chunks after the last one clears the sender's list. Every node hears
every packet, requests to others too, which `recv_raw()` takes for announcements.

**J1939** (in `MCCanbus`). Announcements (to all, or to one with clear-to-send and
acknowledgement), data frames and aborts by either side, and the decoder's `TP_TRACK`, which
a node's transfers to another and that one's answers share. An abort removes the track of
its own source and destination, so the receiver's leaves what the sender had sent. The
decoder may miss frames; `MissesRestart` says whether it may miss an announcement while
data of an earlier transfer is on the track.

**Uds** (`MCUds`, `UdsProofs`). The request builders, the proxy's effects, and each
service of the responder as the answer it gives and the change it makes. Blocks are
numbered modulo 256. A key before any seed was drawn is answered like a wrong one, with
7f 27 24, since `SEED` is then None (`Plugin.__getattr__`, `plugin.py` 55). `UDSProxy.redirect`
looks a set up in a dictionary (`UDS.py` 508-513), a TypeError, so a redirected message
is dropped and nothing is remembered (`Redirect`). Over links of priority 0 a message that
needs more than one frame does not arrive, and the proxy's refusal reaches nobody
(`Priority`, as in `IsoTp`). The testers: one downloads a program and reads it back, repeats
what got lost and begins anew when it is refused; the others ask for anything in
`Wishes`.

**Periodic** and **Comm** (in `MCCanbus`). `set_periodic()` compares, emits an event
and stores, in this order; the interface's event thread starts, changes and stops its
tasks. Its bus opens some time after its handlers have started, may refuse a task, and
closes at the end. Without a bus `send_periodic()` returns None, which is stored as the
task: to change or stop that is an exception, only logged (`Nothing`, `unstarted`).
`listen()` line by line (`Lines` is the order of its first two) against the packet
thread, which compares, appends to the list and sets the flag; `due` is, for each call,
what was found wanted during it.

### Exchange with the outside

**Channel** (in `MCServices`). Events in numbered chunks over UDP; the listener's
buffer of each address is emptied only when an event was made of it. `EventOf` says what
an event is made of without sorting the chunks: `Place` is how many of them have a
smaller number.

**EventLink** (in `MCServices`). `Sender` and `Listener` over TCP: connections with two
ends, a backlog, one connection served until its end, the `shutdown()` that waits for the
listener. The thread that sends closes the connection when it had nothing to do for a
minute (`LinkIdle`); a sender that never pauses (`BusySenders`) never does. A sender's own
`shutdown()` closes its socket from another thread (`LinkStop`). After the listener's the
listening socket is still open, and what waits in its backlog goes on waiting (`"stopped"`),
until the object or the process ends (`Collect`).

**Tcp** (in `MCServices`). `effect()` of the small server: which packets open, answer,
are answered again and end a connection, with sequence numbers modulo `SeqMod`. A segment
is answered with as much and with the server's FIN (`tcp_close`, 131), after which the
connection stays in the table. Clients send one segment at a time, repeat it, and send no
more once they are told of the end.

**Redir** (in `MCServices`). The table of ports, the loop over the rules, and the two
rewritings.

**Parallel** (in `MCServices`). The pool, the retries, the status files, a command that
cannot be run at all (`Raise`: an exception of `subprocess.run` ends the job without a
retry and without a file, 53-54), and a crash with a new start.

### How they fit together

`EventBus` takes the event loop as always running (`EventLock` says when it holds
the lock) and the dictionary as changed by anybody (`Lifecycle` says when). `Lifecycle`
reduces a plugin to the life of its thread. `Dispatch` takes a link command, and the
unlinking by `stop_plugin()`, as one step, which may come between any two of a dispatch. `Uds` takes a message as one step,
which is what `IsoTp` shows of one message at a time; `IbpTransport` takes a packet as
one step, which is what `IbpPacket` shows. `Periodic` takes the interface's events in
order, which is what `EventBus` shows of one source.

`MCCanbus` and `MCServices` hold modules that share no state. A behaviour is one of
them, chosen at the start (`part`): one run answers for all of them, without their
product.

## 4. What the runs check

All twelve runs pass. `PROJECT.json` names the mutant that shows, for each property,
that a plausible mistake in the code would break it.

| run | shows |
|---|---|
| `bus_static` | With a fixed set of plugins: no second delivery, every synchronous `event()` returns, everything delivered is handled. Two plugins, two events, one pass-on. |
| `bus_dynamic` | One plugin is started, stopped and unloaded while the other one resubscribes: the inductive invariant with its exact counts, order, and the barrier hold throughout. |
| `lock_one` | One client makes up to four calls of any kind, three events of two names, a timeout of two seconds: one handler at a time, the event asked for, the lock granted, events handled. |
| `life_requests` | Two requests to stop or restart, two plugins before and two after a restart, which may also die by themselves, with the event loop unloading the dead: no plugin that lives loses its entry, and the requests are served as long as the event loop and the main thread do not meet in `stop_plugin()`. |
| `life_running` | A controller starts and stops three instances of two names against the idle loop: the dead leave the dictionary. |
| `life_shutdown` | One request at any time, also while the startup configuration is applied, against a controller that starts and stops a plugin and the event loop that unloads the dead: at the end, and before the configuration is applied again, nothing runs but what was started too late or had lost its entry, and nothing else lives but what was told to stop and given up. |
| `dispatch_flood` | Every graph of priority-0 links on two interfaces, a plugin and a queued plugin: everybody reachable gets the packet, and traffic settles. |
| `dispatch_commands` | One link command of any kind while a packet is routed by two threads that share its `info`, links of all priorities: dispatches fail, and still whoever was selected for the packet gets it. |
| `ipc_calls` | Three calls by two handlers and a controller, nested calls, loops that are stopped: each gets its own answer, each returns. |
| `uds` | A download of two blocks through a proxy that forwards, redirects or blocks transfers, with a lost and a repeated message and one request of another tester at any point, over links of priority 1: the memory is right, the ECU opens to one key at a time, the download ends unless the proxy blocks or redirects it. |
| `canbus` | Two messages of 3, 20 or 125 bytes, either way, with one lost frame; two packets of 0 or 2 frames by two threads with one frame lost; two events of 1 or 3 chunks with two data packets or requests lost; two J1939 transfers of 2 or 3 frames with an abort of either side and two missed frames; three calls that set or clear a periodic frame, of which a task may end by itself, on a bus that opens, refuses and closes; two calls of `listen()` with three frames on the bus. |
| `services` | Two threads and four packets of two flow directions; two saves by two threads, which may fail, one load, one crash and two changes of state; three events of two UDP senders, of each of which one packet may be lost; two TCP senders with two events each, that stop and start again, and a listener that does; the segments of two TCP clients, with two lost answers, acknowledgements or ends; three requests of two clients through a redirection; two commands with three failures each, which may also be impossible to run, and two crashes. |

### Bounds

Two plugins are enough for every pair of roles on the bus: source, handler, stopped
or started meanwhile; two events give one that overtakes or waits for the other; the
counts are proved for any number. One client shows what `lock()` promises a program
that keeps to one control thread; with two it does not hold (below). Two names with
two instances each show a name taken over; one controller beside the starting thread,
the main thread and the event loop is one of each kind of thread that uses the
dictionary. One link command falls between any two steps of a dispatch, and every
command there is has its turn. Graphs of four plugins contain cycles
through and around the queued plugin, and diamonds. Three calls keep both locks and all
three loops busy. 125 bytes are eighteen frames, more than there are frame numbers, and
two messages are enough for one after a loss, one in each direction, and one that
answers another. Two packets, events or transfers are an incomplete one and the one
that meets what it left behind; three chunks have a first, a middle and a last. Two
blocks are one that repeats while the next is due; the second tester's one request may
come anywhere, and anything a second one could change it could change alone. In
`Snapshot` two threads save because idle() and a control connection may; one plugin is
configured and one is loaded later. The sequence numbers of `services` run up to
`SeqMod` = 32 and start where they do not wrap; what happens when they do, or when
segments of the client are lost (`LosesSegments`), is below.
Where a counter is capped (`Max...`, `Calls`) a constant of the module names the cap.

### Fairness

Threads are scheduled (weak fairness of each thread's steps) and handlers return.
Strong fairness is used in three places: a thread that waits for a lock which is free
again and again gets it (`EventLock`, `Ipc`; the event loop sleeps between two holds
"to allow lock to be acquired by other threads"), and the event loop ends when it is
told to, although it may look idle again and again (`Lifecycle`: it looks at the flag
on every turn). A startup configuration that was begun is applied to its end. `IsoTp`,
`IbpPacket`, `IbpTransport` and `EventLink` need only that their threads do not all stop
together: packets are received, idle threads run (`idle()` asks for chunks, closes
connections). `EveryoneServed` is for senders that pause for a minute now and then; busy
ones are below. `Tcp`: each client, with the server's answers to it, goes on and repeats
what was not acknowledged. `Comm`: the listening thread and the packet thread, each by
itself; no timeout has to happen. `Uds`: the network and the ECU on the one hand, the loading tester on the other.
Emitting, stopping, asking, losing and aborting are never fair: nobody has to. Since
the number of events is capped, `LockGranted` says that `lock()` is granted once events
stop coming; under steady traffic the event loop never leaves its block (144-150), and
`lock()` starves. `RequestsServed` assumes `Calm`, that the event loop unloads no plugin
while the main thread goes over them for the first time: else `run()` may end in an
exception (`LifecycleIdleRace`), which serves no request.

Deadlock is not checked: each system comes to rest when its bounds are used up.

### Further configurations

These belong to no run. Each shows, with the constants of the named configuration
changed as listed and the property put in place of those listed there, what TLC finds:
the limits of what was shown above. Three have files of their own (`EventBusStartRace`,
`LifecycleIdleRace`, `IpcCross`; `EventLockInv` checks the inductive invariant of
`EventLockProofs`).

| from | change | property | what happens |
|---|---|---|---|
| `EventBusStartRace` | | `SyncReturns` | a plugin started during the walk over the plugins makes `handle_event()` leave before `task_done()`; `event(sync=True)` blocks for ever |
| `EventBusStatic` | `Stoppable = {p2}` | `NothingLeftBehind` | an event is queued to a plugin whose event thread has just ended ("run until shutdown and queue is empty", `plugin.py` 133) |
| `EventBusStatic` | `NestedSync = TRUE` | `SyncReturns` | a handler of a synchronous event emits another one and waits for itself |
| `EventBusStatic` | | `NotTwiceInPath` | an event returns to the first plugin of its path (`event.py` 8) |
| `EventLockOne` | `Clients = {c1, c2}` | `LoopHoldsLock` | of two `unlock()` calls the second releases the event loop's own lock ("event loop will handle __lock directly", `framework.py` 638) |
| `EventLockOne` | `Clients = {c1, c2}` | `WaitsUnderLock` | a client goes on handling events under a lock another one released (`framework.py` 661) |
| `EventLockOne` | | `WaitWithinTimeout` | `wait()` begins its timeout anew for each event of another name |
| `LifecycleIdleRace` | | `MainSurvives` | the event loop deletes a plugin between the test and the `del` of the main thread: `run()` ends in an exception |
| `LifecycleRequests` | | `StopServed` | the same exception: a `stop()` that found the main thread waiting does not end the framework in order |
| `LifecycleRequests` | `EarlyStop = TRUE` | `StopTerminates`, `RequestsServed` | `stop()` before `run()` clears the flag is lost |
| `LifecycleShutdown` | as it is, or `Controllers = {}`, or `EarlyStop = FALSE`, `IdleEarly = FALSE` | `NothingRuns` | a plugin that the configuration or a controller starts during the shutdown outlives it (it holds in `LifecycleRequests`) |
| `LifecycleShutdown`, `LifecycleRunning` | | `NoOrphans` | `stop_plugin()` tests a name and deletes what has it then: another instance, which goes on running |
| `LifecycleRequests` | `IdleEarly = TRUE` | `NoOrphans` | `idle()` takes a plugin that is in the dictionary and not started yet for dead |
| `LifecycleRequests` | `EarlyStop = TRUE` | `NoOrphans` | so does the main thread's |
| `LifecycleRequests` | `Insts = {i1, i3}`, `Startup = {i1}`, `Reload = {}`, `Controllers = {c1}` | `NoOrphans` | and a controller's plugin meets the same |
| `LifecycleRequests` | `StartupSync = TRUE` | `RequestsServed` | a synchronous event in the startup configuration blocks a restart |
| `LifecycleRequests` | `Requests = {"restart"}` | `OnlyStopEnds` | two restarts at once end the framework |
| `DispatchFlood` | `Queued = {mon, fwd}`, `Routers = {fwd, mon}`, `Routes <- MCSharedRoutes`, `InitLinks <- MCTriangle` | `NothingLost` | two receivers read `dispatch`, one deletes it, the other one's packet is dropped |
| `EventBusStatic` | | `HandledInOrder` | with `MaxRequeue = 1` an event that a handler passes on comes behind later ones |
| `DispatchFlood` | `Queued = {}`, `InitLinks <- MCTriangle` | `OncePerPacket` | in a triangle a plugin gets a packet twice although it is in `prev` |
| `DispatchCommands` | | `NothingLost` | a link made or unmade during the iteration over the links is a RuntimeError, and the packet goes no further from there |
| `DispatchCommands` | `MaxPackets = 0`, `MaxCommands = 2`, `Routers = {}`, `Queued = {}`, `Routes = {{}}` | `DirectKept` | stopping any plugin clears every direct link |
| `DispatchCommands` | as it is, or the same | `UnlinkOnlyNamed` | `unlink` with an unknown destination removes all links |
| `IpcCross` | | `CallsReturn` | a plugin configures another one while that one calls the framework: both wait for ever |
| `IpcCross` | `Asks <- MCStops`, `MaxCalls = 2` | `AllCallsReturn` | `stop()` of an event transport, repeated after its IPC loop ended, never returns |
| `Canbus`, `Parts = {"iso"}` | `Priority = 0`, `MaxLost = 0` | `AllDelivered` | the flow control is dispatched to a set of names that matches no link: no message of more than one frame arrives (the sample test at the end of `UDS.py` links with priority 0; over a direct link `info` has no `prev`, and it does) |
| `Canbus`, `Parts = {"iso"}` | `Lengths <- MCShort`, `Overlap = TRUE`, `MaxLost = 0` | `Integrity` | a second message to a peer replaces the frames that wait, and the receiver fills the first one's reassembly with them |
| `Canbus`, `Parts = {"iso"}` | `Lengths <- MCShort` | `Recovers` | after one lost frame the receiver ignores every later long message of that source |
| `Canbus`, `Parts = {"iso"}` | `Lengths <- MCLong`, `MaxSends = 1`, `MaxLost = 0` | `Integrity` | of a message of 4116 bytes the first 20 are passed up as the message |
| `Uds` | `Blocks = 256`, no losses, repetitions, wishes | `DownloadCompletes` | the 256th block has the number 0, which asks for the end of the transfer |
| `Uds` | `Seeds = {65535}` | `DownloadCompletes` | the key the ECU compares with is the seed plus one, 65536, which no key of sixteen bits is |
| `Uds` | `Wishes <- MCWrite` | `DownloadIntact` | another tester's transfer or write moves the one transfer there is |
| `Uds` | `Wishes <- MCVin`, `MaxWishes = 2`, `Effects = {"blockVIN"}` | `VinKept` | the proxy that blocks a change of the VIN compares the text of a bytearray with two characters, and lets it pass (`UDS.py` 791) |
| `Uds` | `Priority = 0` | `DownloadCompletes` | a seed, a block or a program is more than a frame: it never arrives |
| `Uds` | | `RedirectCompletes` | through a redirection nothing comes to its end: the lookup of a set in a dictionary raises (`UDS.py` 509) |
| `Canbus` | `Count = 2` | `PacketTransfer` | the second copy of the header of a packet without data frames passes it up again |
| `Canbus` | `Lossy = {"handshake"}` | `EventArrives` | a lost announcement is never repeated |
| `Canbus` | `Lossy = {"final"}` | `EventTransfer` | the sender does not learn that it is done and serves the old chunks to the next announcement |
| `Canbus` | `Premature = TRUE`, `MaxPacketsLost = 0` | `EventTransfer` | `idle()` asks for a chunk that is under way |
| `Canbus` | `Overlaps = TRUE`, `MaxEvents = 3` | `EventTransfer` | a second event's chunks join the first one's |
| `Canbus` | `IbpNodes` of three, `MaxEvents = 1` | `EventTransfer` | a request is taken for an announcement by the third node |
| `Canbus` | `MissesRestart = TRUE`, and `MaxMissed = 1` or `MaxAborts = 0` | `DecoderTransfer` | what a receiver's abort, or a frame missed, leaves of a transfer is joined with the next one, whose announcement the decoder missed (with `MaxMissed = 1` and `MaxAborts = 0` it holds) |
| `Canbus` | `Duplex = TRUE`, `MaxMissed = 0` | `DecoderTransfer` | transfers in opposite directions share a track |
| `Canbus` | `EcuThreads = {1, 2}` | `SendsWhatWasSet` | two calls emit in one order and store in the other |
| `Canbus` | | `NeverWaitsInVain` | a frame that comes between `listen()`'s look at the list and `clear()` wakes nobody (`ecu.py` 131-134) |
| `Canbus` | | `StartsAgain` | a frame whose task with a duration has ended is not sent again by setting the same data |
| `Services` | | `OneKeyPerFlow` | two threads that see a flow from its two ends find neither key and enter both (with `FlowThreads = {1}` it holds) |
| `Services` | `TableThere = FALSE` | `EntriesKept` | before there is a table each thread makes its own, and the last one to put it back wins |
| `Services` | `MaxChLost = 2`, or `Overtaking = TRUE` | `UnhurtArrive` | an event that lost nothing is joined with old chunks |
| `Services` | `IdleCloses = FALSE`, or `BusySenders = {"t"}` | `EveryoneServed` | the second sender waits for ever for the connection of one that never closes it, or that is never idle for a minute |
| `Services` | `LosesSegments = TRUE`, `MaxTcpLost = 1` | `TcpReceives` | an acknowledgement that is ahead of a lost segment is taken for what is expected, and the segment for a repetition (`tcp.py` 98-99) |
| `Services` | `Window = 2`, `MaxTcpLost = 0` | `TcpReceives` | the second segment acknowledges less than was sent and is taken for a repetition: the answer is sent again (`tcp.py` 89) |
| `Services` | `FirstSeqs = {31}`, `MaxTcpLost = 0` | `TcpReceives` | the number after the client's first one is not wrapped |
| `Services` | `OurSeqs = {31}` | `TcpReceives` | with a loss, numbers are compared without regard to the wrap |
| `Services` | `TcpKey <- MCOneKey` | `TcpReceives` | addresses and ports that make the same string share a connection |
| `Services` | `SportOf <- MCOnePort` | `ResponseReturns` | the response goes to the client that used the port last |
| `Services` | `MatchAll = TRUE` | `MatchAllRedirects` | with `MATCH_ALL` the loop ends at the first key that is no rule: nothing is redirected (`redir.py` 25) |
| `Services` | `JobName <- MCOneName` | `EveryJobTried` | commands whose base names agree share a file, and one is skipped |

`Services` also passes with `Restore = FALSE`, and with `Unloadable = {"q"}`.

Met while modelling, and not a matter of states: `CANoverIP.main` reads
`self.client_address`, which does not exist; `Pcap.handle_packet()` calls
`filter_packet()` without the packet; the command `control` with one word never reaches
`stop_control()` (`framework.py` 250-252); `redir.py` documents its rules
with `pktinfo`, the name `eval_packet()` defines is `info`.

## 5. What is proved

**EventBusProofs**, for every set of plugins, names, threads and bounds that
`ConstantsAssumption` admits:

* `TypeAndAccounting`: `TypeOK` and the exact counts. The two are proved together,
  because `task_done()` keeps a count a natural number only if the count is exact.
* `BusInvariant`: the inductive invariant `BusInv`, which adds that events in use
  exist (a new event is nobody's), that an actor waits only on a synchronous event,
  and `SyncIsolation`.
* `SyncIsolationHolds`: as long as no `handle_event()` ended in an exception, a plugin
  that has a synchronous event to handle finds the bus at that event, and on the list
  of plugins it will join.
* `SyncBarrierHolds`: whenever a synchronous `event()` returns, no plugin has that
  event still to handle. The argument: the count is zero, so the queue is empty, the
  bus is at no event and no exception ever spoiled the count; then by `SyncIsolation`
  a pending synchronous event would have to be the one the bus is at.
* `DeliverOnceHolds`: a path grows only by plugins that are not in it from its second
  place on.
* `HandledInOrderHolds`, if no handler passes an event on (`MaxRequeue = 0`; with one it
  does not hold, see above): a plugin handles events in the order of publication. The
  invariant `OrderInv` says that the bus's queue and each plugin's are increasing, that what
  is on the bus is newer than the event the bus is at and than all a plugin has, that a
  plugin has the event the bus is at only if the iterator has passed it, and that the
  registry holds no plugin twice.

**EventLockProofs**, for every set of names, timeout and bound:

* `Types` and, for any number of clients, `WaitGetsNameHolds`: a `wait()` for a name
  ends with an event of that name or none. The strengthening says that a wait has no
  result until it has an event in hand.
* For one client (`OneClient`): `LockInvariant`, and from it `OneHandlerHolds`,
  `LoopHoldsLockHolds`, `WaitsUnderLockHolds` and `FlagMeansHeldHolds`. None of the
  four is inductive. `LockInv` says who holds the lock: the event loop, or the client
  from `acquire` to `release` (`ByHand`), and not both; and that wherever the client
  relies on the flag it is set. The assumption is needed: with two clients TLC refutes
  two of the four.

**IpcProofs**, for any plugins, callers, methods and bound:

* `AnswerInvariant`: whatever is on its way through a plugin's return queue, a request
  in the queue of the framework or the plugin, a request being served, or an answer, is
  the only one, and carries the number of the call of the thread that holds the
  plugin's lock. The four parts (`Holders`, `Waiting`, `InService`, `Answered`) need
  each other: an answer is the only one because its request was.
* `OwnAnswerHolds` and `WaitsWithLockHolds` follow.

**DispatchProofs**, for any plugins, links, queues, threads and number of packets, when
plugins pass all packets on and name no hops and no commands are given (`Plain`):

* `FloodedHolds`: when a packet has come to rest, whatever a link of priority 0 or 1
  leads to from a plugin that has it got it. `prev` is one object in the hands of all
  threads; a plugin may be left out only because it is in `prev`, and whoever is in
  `prev` has it. The inductive invariant `FloodInv` says that who got a packet has
  handled it or has it before it, on a stack or in its queue (`Handled`), and that who
  has handled it has handed it on or will (`HandedOn`). The lemma `Keeps` reduces a
  step to what it takes from the stacks and queues and what it puts there.

and without `Plain`, whatever links are made and unmade:

* `TypesHold`: the type invariant.
* `SelectedGetItHolds`: everybody that a dispatch selected for a packet has got it when
  the packet has come to rest, whatever fails. A dispatch may end in an exception while it
  tests and deletes `dispatch` or iterates over the links, and the plugins it would have
  selected get nothing from it; but those that it or another one has selected are handed the
  packet or are still on a list (the invariant `ChosenInv`), since an exception ends one
  handling and not those below it on the stack.

**LifecycleProofs**, for any plugins, names and requests:

* `AllStoppedHolds`, with any controllers and at any time, before the startup
  configuration is applied and during a restart too: whatever runs when `run()` is
  through was `late` or is one of the `orphans`, and whatever else is alive was told to
  stop and is `overdue`. The invariant `StopInv` says that each plugin that
  is alive and none of these is in the dictionary and still ahead of the main thread that
  unloads, or in its hands.
* `NoOrphansHolds`, when only the configuration loads plugins, requests come after it
  is applied, and the event loop idles after it (`OnlyConfigured`; each of the three is
  needed, as shown above): nobody's entry is deleted or overwritten while it is alive or
  about to be. Names need not be distinct: of two plugins of one name the second is
  refused, or comes after the first has died. The invariant says who runs in which phase
  (`Turns`), that a name that was looked up still means the same plugin or none
  (`LookedUp`), and that what is past its signal does not run (`DoomedRest`).

**UdsProofs**, for any testers, wishes, seeds, blocks and bounds:

* `AccessHolds`. `Access` is inductive as it stands, since the responder looks at
  nothing but its own state when it answers: a key that comes before any seed is refused
  like a wrong one.
* `DownloadIntactHolds`, if the others' wishes are no transfers and write into memory
  only what the program has there, and there are fewer blocks than block numbers
  (`Harmless`): what was confirmed is in memory, and what was read back is the program.
  Messages are lost and repeated, so an answer may be one to an earlier request. The
  invariant `DownloadInv` says that what is under way between the loader and the ECU
  are requests of its last step, and after them of its present one, in this order
  (`Flow`); that the ECU's transfer is where the last of them left it (`Modes`); and
  that what the loader takes for a confirmation is one of the step it is at
  (`Confirmed`). Behind a proxy that blocks transfers none begins (`Blocked`), which is
  `TransfersBlockedHolds`.

**CanbusProofs**, about the modules as `MCCanbus` composes them:

* `NothingMissedHolds`, for any frames, calls and timeouts: a frame that a call of
  `listen()` was found to want ends up in the list of that call or of a later one. The call
  that listens has made its list before it set the identifier (`Lines`), so that the list
  is at least as new as the call whose frame the packet thread has in hand.
* `SendsWhatWasSetHolds`, if one thread sets frames (`OneThread`), whether and whenever the
  bus opens, refuses or closes: what is remembered as set is what the interface will have
  when it has handled the events on their way to it, so a call that is skipped would have
  changed nothing; but for a task that is over, and one that could not be started when it
  was asked for, which is excepted until it starts or all are stopped.
* `PacketTransferHolds`, for any nodes, threads, lengths and losses, if frames are sent
  once (`Count = 1`): `IbpPacket` implements `Transfer`. A header comes after everything
  passed up before it (`After`), and a buffer that holds what a header of its packet
  begins is passed up only with that packet's own parts.
* `DecoderTransferHolds`, for any nodes, sizes, missed frames and aborts of either side,
  if no two nodes send to each other at once and the decoder misses no announcement while
  it has data on the track (`~Duplex`, `~MissesRestart`): `J1939` implements `Transfer`.
* `MessageTransferHolds`, for any nodes, losses and lengths below 4096, if a node sends
  a peer one message at a time and links have priority 1 (`~Overlap`, `IsoShort`,
  `Priority = 1`): `IsoTp` implements `Transfer`,
  although the receiver sees block numbers modulo 16 and never gives up a reassembly.
  The stages of a message (it starts, its first frame is on the bus, an answer, the
  consecutive frames) exclude each other for a pair of nodes. `Ready(r, n)` says of a
  reassembly that its slots from `n` on are free, and the ones before have their blocks
  unless one of them is free: a block that is lost leaves a slot free for ever, so that
  what is full lost nothing.
* `EventTransferHolds`, for two nodes, any sizes and bounds, and any losses but that of
  the last request (`Restful`): `IbpTransport` implements `Transfer`. The invariant
  `TransportInv` says that of what goes on between a sender and its receiver one packet
  at most is on its way (`OneToken`), and what it may be (`TokenOK`): an announcement
  when the receiver asks for nothing, else the request for the chunk after its last one,
  or that chunk; that what the receiver has is the beginning of the sender's list
  (`Collected`); and that this list begins with all chunks of an event which the receiver
  has not had (`Serves`). It may go on with those of later events: when an announcement
  is lost the chunks of the next event join, and that one never arrives. The last chunk
  of the list, not of the event, is the one that is marked as final, and `flush_data()`
  ignores what follows the first event (`FlushedWhole`).

**ServicesProofs**, about the modules as `MCServices` composes them:

* `EntriesKeptHolds`, for any threads and packets, if there is a table at the start
  (`TableThere`): there is one table then, the one that every thread works on, so putting
  it back takes nothing from it.
* `ResponseReturnsHolds`, if no two clients use one port (`OwnPorts`): the table of
  ports has, for each, nobody or its client, and what the redirect host has is from
  the host that client asked last.
* `EveryJobTriedHolds`, if no two commands share a name (`OwnNames`): a file stands for a
  command that has succeeded or failed too often, and a thread that has ended for that or
  for a command that could not be run in this start of the program.
* `KeepsLastSaveHolds`, whatever fails or crashes: the file has what was saved last, unless
  a write was cut short, by a crash or an exception, and none has succeeded since
  (`broken`); a file is written only between these.
* `LoadedIsSavedHolds`: the argument follows the load from stage to stage, and says for
  each what has been done to the plugins and what is left.
* `UnhurtArriveHolds`, for any senders, sizes and events, if packets keep their order
  and one of a sender's is lost at most (`Fifo`): events that lost nothing are passed
  up, once, in order, and nothing else is. An event that lost nothing is passed up, or
  its last packet is on the way and each of its chunks is on the way or in the buffer
  (`Unhurt`); of one that lost a packet some chunk is nowhere (`Hurt`), so that its last
  packet makes no event; and what it leaves in the buffer is older than all that is on
  the way and is overwritten before it could be joined with anything, because the
  missing chunk has to come first.

Each hypothesis of a theorem is one that the table above shows to be needed, but for
`Plain`, which says what is meant by flooding, `Configured \subseteq Plugins`, which
is part of the meaning of the two constants, and `Priority = 1`, without which no long
message arrives and the theorem would say little.

A theorem `Spec => P` where `P` is a refinement (`PacketTransfer`, `DecoderTransfer`,
`MessageTransfer`, `EventTransfer`) shows that the mapped initial state is one of
`Transfer` and that every step maps to a step of `Transfer` or to none.

Only model-checked:

* All liveness: it needs ENABLED, which is beyond the prover here. That is
  `SyncReturns`, `EverythingHandled`, `LockGranted`, `Handled`, `RequestsServed`,
  `DeadUnloaded`, `TrafficSettles`, `CallsReturn`, `AllDelivered`, `DownloadCompletes`,
  `PacketArrives`, `EventArrives`, `ListenReturns`, `EveryoneServed`, `TcpReceives`.
* `OneOutstanding` of `Ipc`, which says with cardinalities what `AnswerInv` says with
  "the only one", and belongs to no run any more.

## 6. What is not modelled

* The multiprocessing build: its queues lack `task_done()` and `join()`, and its
  shared state is a server process.
* Control: text and JSON commands, consoles, the command line. Parsing and pure input
  and output; the commands' effects are the modelled operations.
* Interfaces: raw sockets, capture files, NFQueue, TAP and its kernel part, CAN
  sockets, CAN over UDP, log files, DBC decoding, the MQTT bridge. They move bytes
  between the system and `dispatch()`, in a loop, and keep no state that decides
  anything but `CANInterface`'s periodic tasks, which `Periodic` has for one interface:
  its `__tasks` begins as a class attribute, so that the interfaces of a process share
  one table, each until it stops all tasks for the first time.
* Contents of packets and events, filters and effects other than their outcome;
  identifier codecs (J1939), PGN expressions, the names UDS data is shown under.
* In-band events without acknowledgement, and the listening of a UDS node to
  everybody's messages.
* `Migrate`: `load_state()` and `dump_state()` by events; what those do is in
  `Snapshot`. MQTT and TLS of the event transports: the library's behaviour.
* `arp.py`, `connlog.py`: tables that are only read back.
* Bus statistics: floating-point means over timing, with little control.
* Nested keys (`util.py`: `dk_*`), and links and subscriptions in a saved state, which
  are set again with the plugins.
* The self tests, installation and sample configurations.
