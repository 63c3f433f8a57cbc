------------------------------ MODULE Dispatch ------------------------------
(***************************************************************************)
(* How traffic flows between plugins (plugin.py: handle_packet, dispatch,    *)
(* send, the packet thread, link and unlink; framework.py: link_plugin).     *)
(* In the default build (threads) a link is a reference: dispatch() calls     *)
(* the linked plugin's handle_packet() in the same thread, so a thread has a  *)
(* stack of handlings, unless that plugin was created with queue=1, which     *)
(* has a queue and a packet thread of its own.  Either way the info           *)
(* dictionary of a packet is ONE object, shared by everyone that handles it.  *)
(***************************************************************************)
EXTENDS Integers, Sequences, FiniteSets

CONSTANTS
  Plugins,      \* plugins, named by themselves
  Interfaces,   \* those that put traffic on a wire instead of dispatching it
  Sources,      \* the interfaces that traffic comes from
  Queued,       \* the plugins with queue=1
  Drops,        \* the plugins that may drop a packet
  Routers,      \* the plugins whose effect may set dispatch or dest ...
  Routes,       \* ... to one of these sets of plugins
  InitLinks,    \* the possible links at the start
  Commands,     \* does a control thread link and unlink plugins?
  MaxPackets,   \* bound: packets received
  MaxCommands   \* bound: link and unlink commands

Priorities == {-1, 0, 1}
None == "none"                      \* no direct link; an unknown plugin
LinkSets == UNION {[D -> Priorities] : D \in SUBSET Plugins}
Packets == 1..MaxPackets
Workers == ({"capture"} \X Sources) \cup ({"packet"} \X Queued)

ASSUME DispatchAssumption ==
  /\ IsFiniteSet(Plugins) /\ None \notin Plugins
  /\ Sources \subseteq Interfaces /\ Interfaces \subseteq Plugins
  /\ Queued \subseteq Plugins \ Interfaces
  /\ Routes \subseteq SUBSET Plugins /\ {} \in Routes
  /\ InitLinks \subseteq [Plugins -> LinkSets]
  /\ Commands \in BOOLEAN /\ MaxPackets \in Nat /\ MaxCommands \in Nat

VARIABLES
  links,     \* plugin -> its links: name -> priority, a partial function
  dropped,   \* plugin -> the link dictionaries it had before this one
  direct,    \* plugin -> the plugin its _dispatch calls directly, or None
  info,      \* packet -> the routing keys of its info dictionary
  received,  \* packets received so far
  stack,     \* worker -> the handlings of packets it is in, the innermost first
  queue,     \* queued plugin -> packets in its pipe
  got,       \* packet -> plugin -> times it was handed over, 2 for more (history)
  chosen,    \* packet -> plugins it was to be handed to (history)
  lost,      \* dispatches that ended in an exception (history)
  commands,  \* commands given (bound)
  last       \* the last of them (history)

linkVars == <<links, dropped, direct, commands, last>>
vars == <<linkVars, info, received, stack, queue, got, chosen, lost>>

(* A handling: what it has read of the info, which dictionary of links it uses    *)
(* (the one that so many had been dropped before), the links that dictionary had   *)
(* when the iteration began, those seen since, and those to send to.              *)
Frame == [at : {"handle", "read", "select", "scan", "send"}, p : Plugins, k : Packets,
          dest : SUBSET Plugins, dispatch : SUBSET Plugins, gen : Nat,
          keys : SUBSET Plugins, seen : SUBSET Plugins, todo : SUBSET Plugins]
NewFrame(at, p, k) ==
  [at |-> at, p |-> p, k |-> k, dest |-> {}, dispatch |-> {}, gen |-> 0,
   keys |-> {}, seen |-> {}, todo |-> {}]

TypeOK ==
  /\ links \in [Plugins -> LinkSets] /\ dropped \in [Plugins -> Seq(LinkSets)]
  /\ direct \in [Plugins -> Plugins \cup {None}]
  /\ info \in [Packets -> [prev : SUBSET Plugins, dest : SUBSET Plugins,
                           dispatch : SUBSET Plugins]]
  /\ received \in 0..MaxPackets
  /\ stack \in [Workers -> Seq(Frame)]
  /\ queue \in [Queued -> Seq(Packets)]
  /\ got \in [Packets -> [Plugins -> 0..2]]
  /\ chosen \in [Packets -> SUBSET Plugins]
  /\ lost \in Nat /\ commands \in 0..MaxCommands
  /\ last \in [op : {"none", "link", "unlink", "stop"},
               p : Plugins \cup {None}, q : Plugins \cup {None}]

Init ==
  /\ links \in InitLinks /\ dropped = [p \in Plugins |-> <<>>]
  /\ direct = [p \in Plugins |-> None]
  /\ info = [k \in Packets |-> [prev |-> {}, dest |-> {}, dispatch |-> {}]]
  /\ received = 0 /\ stack = [w \in Workers |-> <<>>]
  /\ queue = [p \in Queued |-> <<>>]
  /\ got = [k \in Packets |-> [p \in Plugins |-> 0]]
  /\ chosen = [k \in Packets |-> {}]
  /\ lost = 0 /\ commands = 0 /\ last = [op |-> "none", p |-> None, q |-> None]

-----------------------------------------------------------------------------
Top(w) == Head(stack[w])
At(w, pc) == stack[w] # <<>> /\ Top(w).at = pc
Replace(w, f) == stack' = [stack EXCEPT ![w] = <<f>> \o Tail(@)]
Leave(w) == stack' = [stack EXCEPT ![w] = Tail(@)]   \* the call returns
RaisesThrough(w) ==                                 \* mutant: send() in no try block
  stack' = [stack EXCEPT ![w] = <<>>] /\ lost' = lost + 1
Raises(w) == Leave(w) /\ lost' = lost + 1            \* the caller goes on with its links
Hand(k, p) == got' = [got EXCEPT ![k][p] = IF @ = 2 THEN 2 ELSE @ + 1]

(* An interface's capture loop receives a packet and dispatches it. *)
Receive(s) ==
  /\ received < MaxPackets /\ stack[<<"capture", s>>] = <<>>
  /\ received' = received + 1
  /\ stack' = [stack EXCEPT ![<<"capture", s>>] = <<NewFrame("read", s, received + 1)>>]
  /\ UNCHANGED <<linkVars, info, queue, got, chosen, lost>>

(* The packet thread of a queued plugin takes the next packet. *)
Take(p) ==
  /\ stack[<<"packet", p>>] = <<>> /\ queue[p] # <<>>
  /\ queue' = [queue EXCEPT ![p] = Tail(@)]
  /\ stack' = [stack EXCEPT ![<<"packet", p>>] = <<NewFrame("handle", p, Head(queue[p]))>>]
  /\ UNCHANGED <<linkVars, info, received, got, chosen, lost>>

(* handle_packet(): an interface sends the packet; a plugin may drop it, or    *)
(* passes it through its effect, which may set dispatch or dest in the info.   *)
Handle(w) ==
  /\ At(w, "handle")
  /\ LET f == Top(w) IN
     \/ /\ f.p \in Interfaces \cup Drops
        /\ Leave(w)
        /\ UNCHANGED info
     \/ /\ f.p \notin Interfaces
        /\ \E r \in IF f.p \in Routers THEN Routes ELSE {{}} :
             info' \in {[info EXCEPT ![f.k].dispatch = IF r = {} THEN @ ELSE r],
                        [info EXCEPT ![f.k].dest = IF r = {} THEN @ ELSE r]}
        /\ Replace(w, [f EXCEPT !.at = "read"])
  /\ UNCHANGED <<linkVars, received, queue, got, chosen, lost>>

(* dispatch(): a direct link is a call of the other plugin's handle_packet;    *)
(* otherwise __dispatch reads the links dictionary, dispatch and dest ...      *)
Read(w) ==
  /\ At(w, "read")
  /\ LET f == Top(w) IN
     IF direct[f.p] # None
     THEN /\ Hand(f.k, direct[f.p])
          /\ stack' = [stack EXCEPT ![w] =
                         <<NewFrame("handle", direct[f.p], f.k), [f EXCEPT !.at = "send"]>>
                           \o Tail(@)]
     ELSE /\ Replace(w, [f EXCEPT !.at = "select", !.dest = info[f.k].dest,
                                  !.dispatch = info[f.k].dispatch,
                                  !.gen = Len(dropped[f.p])])
          /\ UNCHANGED got
  /\ UNCHANGED <<linkVars, info, received, queue, chosen, lost>>

(* The dictionary a handling has; commands may change it or have replaced it.  *)
Table(f) == IF f.gen < Len(dropped[f.p]) THEN dropped[f.p][f.gen + 1] ELSE links[f.p]

Iterate(w, f) ==
  Replace(w, [f EXCEPT !.at = "scan", !.keys = DOMAIN Table(f), !.seen = {}, !.todo = {}])

(* ... deletes dispatch if dest has led nowhere (a KeyError if somebody else     *)
(* did), and begins to iterate over the links.                                  *)
Select(w) ==
  /\ At(w, "select")
  /\ LET f == Top(w) IN
     \/ /\ f.dest # {} \/ f.dispatch = {}
        /\ Iterate(w, f)
        /\ UNCHANGED <<info, lost>>
     \/ /\ f.dest = {} /\ f.dispatch # {} /\ info[f.k].dispatch # {}
        /\ info' = [info EXCEPT ![f.k].dispatch = {}]
        /\ Iterate(w, f)
        /\ UNCHANGED lost
     \/ /\ f.dest = {} /\ f.dispatch # {} /\ info[f.k].dispatch = {}
        /\ Raises(w)
        /\ UNCHANGED info
  /\ UNCHANGED <<linkVars, received, queue, got, chosen>>

AnyLink(f, q) == Table(f)[q] >= 0   \* mutant: prev is not looked at

(* Without dest and dispatch: priority 1, and priority 0 unless it is in prev.  *)
Unvisited(f, q) == Table(f)[q] > 0 \/ (Table(f)[q] = 0 /\ q \notin info[f.k].prev)

Wanted(f, q) ==
  \/ f.dest # {} /\ q \in f.dest
  \/ f.dest = {} /\ f.dispatch # {} /\ (Table(f)[q] > 0 \/ q \in f.dispatch)
  \/ f.dest = {} /\ f.dispatch = {} /\ Unvisited(f, q)

SameSize(f) == Cardinality(DOMAIN Table(f)) = Cardinality(f.keys)

(* One more link is looked at, as it is at this moment.                         *)
Look(w) ==
  /\ At(w, "scan") /\ SameSize(Top(w))
  /\ LET f == Top(w) IN \E q \in DOMAIN Table(f) \ f.seen :
       Replace(w, [f EXCEPT !.seen = @ \cup {q},
                            !.todo = IF Wanted(f, q) THEN @ \cup {q} ELSE @])
  /\ UNCHANGED <<linkVars, info, received, queue, got, chosen, lost>>

(* The iteration ends: with every link seen, or, when a link was put in the      *)
(* place of another, before that.  If dest is not linked, dispatch is next; else *)
(* this plugin is added to prev.                                                *)
Found(w) ==
  /\ At(w, "scan") /\ SameSize(Top(w))
  /\ LET f == Top(w) IN
     /\ DOMAIN Table(f) \subseteq f.seen \/ DOMAIN Table(f) # f.keys
     /\ IF f.dest # {} /\ f.todo = {}
        THEN /\ Replace(w, [f EXCEPT !.at = "select", !.dest = {}])
             /\ UNCHANGED <<info, chosen>>
        ELSE /\ Replace(w, [f EXCEPT !.at = "send"])
             /\ info' = [info EXCEPT ![f.k].prev = @ \cup {f.p}]
             /\ chosen' = [chosen EXCEPT ![f.k] = @ \cup f.todo]
  /\ UNCHANGED <<linkVars, received, queue, got, lost>>

(* RuntimeError: a link came or went since the iteration began.                 *)
Changed(w) ==
  /\ At(w, "scan") /\ DOMAIN Table(Top(w)) # Top(w).keys
  /\ Raises(w)
  /\ UNCHANGED <<linkVars, info, received, queue, got, chosen>>

SendFirst(w) ==   \* mutant: an exception handler that leaves the loop
  /\ At(w, "send") /\ Top(w).todo # {}
  /\ LET f == Top(w) IN \E q \in f.todo :
     /\ Hand(f.k, q)
     /\ IF q \in Queued
        THEN /\ queue' = [queue EXCEPT ![q] = Append(@, f.k)]
             /\ Replace(w, [f EXCEPT !.todo = {}])
        ELSE /\ stack' = [stack EXCEPT ![w] =
                  <<NewFrame("handle", q, f.k), [f EXCEPT !.todo = {}]>> \o Tail(@)]
             /\ UNCHANGED queue
  /\ UNCHANGED <<linkVars, info, received, chosen, lost>>

(* The selected links one by one, in the order of the dictionary. *)
Send(w) ==
  /\ At(w, "send") /\ Top(w).todo # {}
  /\ LET f == Top(w) IN \E q \in f.todo :
     /\ Hand(f.k, q)
     /\ IF q \in Queued
        THEN /\ queue' = [queue EXCEPT ![q] = Append(@, f.k)]
             /\ Replace(w, [f EXCEPT !.todo = @ \ {q}])
        ELSE /\ stack' = [stack EXCEPT ![w] =
                  <<NewFrame("handle", q, f.k), [f EXCEPT !.todo = @ \ {q}]>> \o Tail(@)]
             /\ UNCHANGED queue
  /\ UNCHANGED <<linkVars, info, received, chosen, lost>>

Return(w) ==
  /\ At(w, "send") /\ Top(w).todo = {}
  /\ Leave(w)
  /\ UNCHANGED <<linkVars, info, received, queue, got, chosen, lost>>

-----------------------------------------------------------------------------
(* link and unlink commands: link_plugin() with one destination, or none.       *)

Command(op, p, q) ==
  /\ Commands /\ commands < MaxCommands
  /\ commands' = commands + 1
  /\ last' = [op |-> op, p |-> p, q |-> q]
  /\ UNCHANGED <<info, received, stack, queue, got, chosen, lost>>

NewLink(l, q, pri) ==   \* an existing link keeps its priority
  [x \in DOMAIN l \cup {q} |-> IF x \in DOMAIN l THEN l[x] ELSE pri]

NoLink(l, q) == [x \in DOMAIN l \ {q} |-> l[x]]

(* unlink() of everything makes a new dictionary; who iterates keeps the old one. *)
NoLinks(p) ==
  /\ links' = [links EXCEPT ![p] = <<>>]
  /\ dropped' = [dropped EXCEPT ![p] = Append(@, links[p])]

Link(p, q, pri, bidir) ==
  /\ Command("link", p, q) /\ p # q
  /\ direct' = [direct EXCEPT ![p] = None, ![q] = IF bidir THEN None ELSE @]
  /\ links' = [links EXCEPT ![p] = NewLink(@, q, pri),
                            ![q] = IF bidir THEN NewLink(@, p, pri) ELSE @]
  /\ UNCHANGED dropped

LinkDirect(p, q) ==   \* removes the links there are
  /\ Command("link", p, q) /\ p # q
  /\ NoLinks(p)
  /\ direct' = [direct EXCEPT ![p] = q]

(* Plugin.unlink() also clears p's direct link, whichever plugin it goes to.    *)
Unlink(p, q, bidir) ==
  /\ Command("unlink", p, q) /\ p # q
  /\ direct' = [direct EXCEPT ![p] = None, ![q] = IF bidir THEN None ELSE @]
  /\ links' = [links EXCEPT ![p] = NoLink(@, q), ![q] = IF bidir THEN NoLink(@, p) ELSE @]
  /\ UNCHANGED dropped

(* unlink with a destination that no plugin has: the framework passes unlink()  *)
(* None, which stands for all links.                                            *)
UnlinkUnknown(p) ==
  /\ Command("unlink", p, None)
  /\ direct' = [direct EXCEPT ![p] = None]
  /\ NoLinks(p)

(* stop_plugin(q) unlinks q from every plugin. *)
UnlinkEverywhere(q) ==
  /\ Command("stop", q, q)
  /\ direct' = [p \in Plugins |-> None]
  /\ links' = [p \in Plugins |-> NoLink(links[p], q)]
  /\ UNCHANGED dropped

-----------------------------------------------------------------------------
Work(w) ==
  \/ Handle(w) \/ Read(w) \/ Select(w) \/ Look(w) \/ Found(w) \/ Changed(w)
  \/ Send(w) \/ Return(w)

Control ==
  \/ \E p, q \in Plugins : \/ Link(p, q, 0, TRUE) \/ LinkDirect(p, q)
                           \/ \E pri \in Priorities : Link(p, q, pri, FALSE)
                           \/ \E b \in BOOLEAN : Unlink(p, q, b)
  \/ \E p \in Plugins : UnlinkUnknown(p) \/ UnlinkEverywhere(p)

Next ==
  \/ \E s \in Sources : Receive(s)
  \/ \E p \in Queued : Take(p)
  \/ \E w \in Workers : Work(w)
  \/ Control

Spec == Init /\ [][Next]_vars

(* Threads that have a packet go on; packets arrive when they like. *)
FairSpec ==
  /\ Spec
  /\ \A p \in Queued : WF_vars(Take(p))
  /\ \A w \in Workers : WF_vars(Work(w))
-----------------------------------------------------------------------------
Quiet(k) ==   \* nobody is handling packet k any more
  /\ \A w \in Workers : \A i \in DOMAIN stack[w] : stack[w][i].k # k
  /\ \A p \in Queued : \A i \in DOMAIN queue[p] : queue[p][i] # k

(* "This prevents dispatch loops": between plugins linked with priority 0, in     *)
(* whatever way, a packet comes to rest, ...                                      *)
TrafficSettles == \A k \in Packets : (received >= k) ~> Quiet(k)

(* ... and yet the shared prev hides the packet from nobody: every plugin that     *)
(* can be reached from the source over links of priority 0 or 1 gets it.           *)
Flooded ==
  \A k \in 1..received : Quiet(k) =>
    /\ \A p \in Plugins \ Interfaces : got[k][p] > 0 => p \in info[k].prev
    /\ \A p \in info[k].prev : \A q \in DOMAIN links[p] :
         links[p][q] >= 0 => q \in info[k].prev \/ got[k][q] > 0

(* A plugin that is not a hop named in dest or dispatch, and to which every link   *)
(* has priority -1, gets no traffic, whatever the plugins before it put in info    *)
(* (as long as the links stay what they are).                                      *)
NegativeOnlyNamed ==
  commands = 0 => \A k \in 1..received, q \in Plugins \ UNION Routes :
    (\A p \in Plugins : q \in DOMAIN links[p] => links[p][q] = -1) => got[k][q] = 0

(* A dispatch may fail, since links change under its iteration or another thread   *)
(* has deleted dispatch, but it takes nothing from others: whoever a plugin selected *)
(* for a packet gets it, also after the failure of one that got it before.          *)
SelectedGetIt == \A k \in 1..received : Quiet(k) => \A q \in chosen[k] : got[k][q] > 0

(* No packet is lost in dispatch(): "Traffic will be dispatched to any plugins      *)
(* linked with a priority of 1".                                                    *)
NothingLost == lost = 0

(* A plugin has either links or a direct link, whatever commands are given.         *)
DirectIsAlone == \A p \in Plugins : direct[p] # None => links[p] = <<>>

(* "UNLESS plugin name is in prev info": on links of priority 0 a plugin gets a     *)
(* packet once.                                                                     *)
OncePerPacket == \A k \in Packets, p \in Plugins : got[k][p] <= 1

(* "a direct link is unconditional": only a command for one of its plugins ends it. *)
DirectKept ==
  [][\A p \in Plugins :
       direct[p] # None /\ direct'[p] # direct[p] =>
         {p, direct[p]} \cap {last'.p, last'.q} # {}]_vars

(* "Removes link from plugin name to plugin destname": unlink takes away no link     *)
(* but the one it names.                                                            *)
UnlinkOnlyNamed ==
  [][\A p \in Plugins : last'.op = "unlink" =>
       \A q \in DOMAIN links[p] \ DOMAIN links'[p] : {p, q} = {last'.p, last'.q}]_vars
=============================================================================
