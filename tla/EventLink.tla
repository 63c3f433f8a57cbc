----------------------------- MODULE EventLink ------------------------------
(***************************************************************************)
(* Events over TCP (event.py: Sender, Listener).  A sender connects when it has   *)
(* an event; its event thread closes the connection when it had nothing to do for  *)
(* a minute.  The listener serves one connection until its end; others wait, and   *)
(* go on waiting after shutdown(), which does not close the listening socket.  A     *)
(* sender keeps a connection that broke until it closes it.                       *)
(***************************************************************************)
EXTENDS Integers, Sequences, FiniteSets

CONSTANTS
  LinkSenders,     \* senders
  BusySenders,     \* those that never have nothing to do for a minute (a constant of the experiment)
  IdleCloses,      \* does idle() close connections (timeout is not 0)?
  MaxLinkEvents,   \* bound: events of a sender
  MaxPartial       \* bound: events of which recv() returns only a part

VARIABLES
  server,    \* "up", "closing" (shutdown() was called), "stopped" (its socket is open), "gone"
  backlog,      \* connections that wait for the listener
  serving,      \* the connection it serves, {} or {connection}
  sock,         \* sender -> its connection, 0 when it has none
  links,        \* connections: events under way, ends that are open
  linkCall,     \* sender -> does its event thread have a connection to write to?
  linkSent,     \* sender -> events it had to send (bound)
  written,      \* events written to a connection
  arrived,      \* events the listener has passed on
  cut,          \* events lost with a connection
  partials      \* partial events (bound)

linkVars == <<server, backlog, serving, sock, links, linkCall, linkSent, written, arrived, cut,
              partials>>

LinkInit ==
  /\ server = "up" /\ backlog = <<>> /\ serving = {}
  /\ sock = [s \in LinkSenders |-> 0] /\ links = <<>>
  /\ linkCall = [s \in LinkSenders |-> FALSE] /\ linkSent = [s \in LinkSenders |-> 0]
  /\ written = {} /\ arrived = {} /\ cut = {}
  /\ partials = 0

EventOf(s) == <<s, linkSent[s]>>
EventsOf(c) == {links[c].data[i] : i \in DOMAIN links[c].data}

(* send(): it connects when it has no socket; whoever has an open socket that listens accepts   *)
(* the connection for now.  That it is refused is caught.                                     *)
LinkSend(s) ==
  /\ ~linkCall[s] /\ linkSent[s] < MaxLinkEvents
  /\ linkSent' = [linkSent EXCEPT ![s] = @ + 1]
  /\ IF sock[s] = 0 /\ server # "gone"
     THEN /\ links' = Append(links, [data |-> <<>>, near |-> TRUE, far |-> TRUE])
          /\ sock' = [sock EXCEPT ![s] = Len(links) + 1]
          /\ backlog' = Append(backlog, Len(links) + 1)
     ELSE UNCHANGED <<links, sock, backlog>>
  /\ linkCall' = [linkCall EXCEPT ![s] = sock'[s] # 0]
  /\ UNCHANGED <<server, serving, written, arrived, cut, partials>>

(* The length and the event.  If shutdown() has closed the socket, or the listener its end, the *)
(* event is lost, and nobody takes the socket away.                                           *)
LinkWrite(s) ==
  /\ linkCall[s]
  /\ linkCall' = [linkCall EXCEPT ![s] = FALSE]
  /\ IF links[sock[s]].near /\ links[sock[s]].far
     THEN /\ links' = [links EXCEPT ![sock[s]].data = Append(@, EventOf(s))]
          /\ written' = written \cup {EventOf(s)}
     ELSE UNCHANGED <<links, written>>
  /\ UNCHANGED <<server, backlog, serving, sock, linkSent, arrived, cut, partials>>

LinkIdleKeep(s) ==   \* mutant: the socket is forgotten and not closed
  /\ IdleCloses /\ s \notin BusySenders /\ sock[s] # 0 /\ ~linkCall[s]
  /\ sock' = [sock EXCEPT ![s] = 0]
  /\ UNCHANGED <<server, backlog, serving, links, linkCall, linkSent, written, arrived, cut, partials>>

(* idle(), in the thread that sends, when there was no event for 60 seconds.                  *)
LinkIdle(s) ==
  /\ IdleCloses /\ s \notin BusySenders /\ sock[s] # 0 /\ ~linkCall[s]
  /\ links' = [links EXCEPT ![sock[s]].near = FALSE]
  /\ sock' = [sock EXCEPT ![s] = 0]
  /\ UNCHANGED <<server, backlog, serving, linkCall, linkSent, written, arrived, cut, partials>>

(* Sender.shutdown(), in the IPC thread: the socket is closed, and events that are left are lost. *)
LinkStop(s) ==
  /\ sock[s] # 0 /\ links[sock[s]].near
  /\ links' = [links EXCEPT ![sock[s]].near = FALSE]
  /\ UNCHANGED <<server, backlog, serving, sock, linkCall, linkSent, written, arrived, cut, partials>>

(* Its threads have ended; a sender that is started in its place has no socket.                 *)
LinkEnd(s) ==
  /\ sock[s] # 0 /\ ~links[sock[s]].near /\ ~linkCall[s]
  /\ sock' = [sock EXCEPT ![s] = 0]
  /\ UNCHANGED <<server, backlog, serving, links, linkCall, linkSent, written, arrived, cut, partials>>

-----------------------------------------------------------------------------
(* serve_forever(): the next connection, unless shutdown() was called.                    *)
Accept ==
  /\ server = "up" /\ serving = {} /\ backlog # <<>>
  /\ serving' = {Head(backlog)} /\ backlog' = Tail(backlog)
  /\ UNCHANGED <<server, sock, links, linkCall, linkSent, written, arrived, cut, partials>>

(* handle(): event after event, until the other end is closed.                             *)
Handle(c) ==
  /\ c \in serving /\ links[c].data # <<>>
  /\ arrived' = arrived \cup {Head(links[c].data)}
  /\ links' = [links EXCEPT ![c].data = Tail(@)]
  /\ UNCHANGED <<server, backlog, serving, sock, linkCall, linkSent, written, cut, partials>>

HandleEnd(c) ==
  /\ c \in serving /\ links[c].data = <<>> /\ ~links[c].near
  /\ serving' = {}
  /\ links' = [links EXCEPT ![c].far = FALSE]
  /\ UNCHANGED <<server, backlog, sock, linkCall, linkSent, written, arrived, cut, partials>>

(* recv() has returned a part of the event: an exception, which ends the connection.          *)
HandlePart(c) ==
  /\ c \in serving /\ links[c].data # <<>> /\ partials < MaxPartial
  /\ partials' = partials + 1
  /\ serving' = {}
  /\ cut' = cut \cup EventsOf(c)
  /\ links' = [links EXCEPT ![c] = [@ EXCEPT !.data = <<>>, !.far = FALSE]]
  /\ UNCHANGED <<server, backlog, sock, linkCall, linkSent, written, arrived>>

(* Listener.shutdown() waits for the handler.                                               *)
ShutDown ==
  /\ server = "up"
  /\ server' = "closing"
  /\ UNCHANGED <<backlog, serving, sock, links, linkCall, linkSent, written, arrived, cut, partials>>

(* serve_forever() ends.  The socket goes on listening: what waits for it is not closed.         *)
ShutDownEnd ==
  /\ server = "closing" /\ serving = {}
  /\ server' = "stopped"
  /\ UNCHANGED <<backlog, serving, sock, links, linkCall, linkSent, written, arrived, cut, partials>>

(* Whatever ends the socket some day: the object is collected, or the process ends.              *)
Collect ==
  /\ server = "stopped" /\ server' = "gone"
  /\ cut' = cut \cup UNION {EventsOf(c) : c \in DOMAIN links}
  /\ links' = [c \in DOMAIN links |-> [links[c] EXCEPT !.data = <<>>, !.far = FALSE]]
  /\ backlog' = <<>>
  /\ UNCHANGED <<serving, sock, linkCall, linkSent, written, arrived, partials>>

(* Another listener; while the old socket listens it cannot bind the port, and ends.             *)
LinkStart ==
  /\ server = "gone"
  /\ server' = "up"
  /\ UNCHANGED <<backlog, serving, sock, links, linkCall, linkSent, written, arrived, cut, partials>>

Connections == 1..(MaxLinkEvents * Cardinality(LinkSenders))

LinkNext ==
  \/ \E s \in LinkSenders : LinkSend(s) \/ LinkWrite(s) \/ LinkIdle(s) \/ LinkStop(s) \/ LinkEnd(s)
  \/ \E c \in Connections : Handle(c) \/ HandleEnd(c) \/ HandlePart(c)
  \/ Accept \/ ShutDown \/ ShutDownEnd \/ Collect \/ LinkStart

(* Whoever has work does it, and senders that are not busy pause.  Nothing else is due.          *)
LinkWork ==
  \/ \E s \in LinkSenders : LinkWrite(s) \/ LinkIdle(s) \/ LinkEnd(s)
  \/ \E c \in Connections : Handle(c) \/ HandleEnd(c)
  \/ Accept \/ ShutDownEnd
-----------------------------------------------------------------------------
(* What is written is passed on, unless its connection is cut or the listener stops, whichever    *)
(* sender it is from: if every sender pauses for a minute now and then, the listener is not left  *)
(* with one connection for ever.  Nor is shutdown(), which waits for it.                         *)
EveryoneServed ==
  /\ []<>(written \subseteq arrived \cup cut \/ server = "stopped")
  /\ []<>(server # "closing")
=============================================================================
