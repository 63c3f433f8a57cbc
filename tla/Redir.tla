------------------------------- MODULE Redir --------------------------------
(***************************************************************************)
(* The redirection of packets to another host (plugins/redir.py).  A packet from   *)
(* the external side that meets a rule goes to the redirect host, as if the host it *)
(* was for had sent it; the response is turned back to whoever last used the port    *)
(* it is for.  An address stands for MAC and IP.                                   *)
(***************************************************************************)
EXTENDS Integers, Sequences, FiniteSets

CONSTANTS
  RedirClients,   \* clients on the external side
  RedirHosts,     \* hosts on the internal side
  Pot,            \* the redirect host
  SportOf,        \* client -> the port it sends from
  ConfigKeys,     \* the keys of the configuration, sorted
  Rules,          \* those that are eval rules
  MatchAll,       \* MATCH_ALL
  MaxRequests     \* bound: packets from clients

NoAddress == "nobody"
Ports == {SportOf[c] : c \in RedirClients}

VARIABLES
  portState,   \* the plugin's state: port -> the address last seen with it
  atPot,       \* packets redirected: from, and for whom and what (history)
  inside,      \* packets passed to the internal side
  returned,    \* responses passed to the external side
  requests     \* packets from clients (bound)

redirVars == <<portState, atPot, inside, returned, requests>>

RedirInit ==
  /\ portState = [p \in Ports |-> NoAddress]
  /\ atPot = {} /\ inside = {} /\ returned = {} /\ requests = 0

(* The loop over the rules: with MATCH_ALL it ends at the first key without a match so far,  *)
(* else at the first match.  Keys in capitals come before eval*.                            *)
RuleThatMatches(matching) ==
  LET loop[i \in 0..Len(ConfigKeys)] ==   \* <<the rule, has it ended?>>
        IF i = 0 THEN <<NoAddress, FALSE>>
        ELSE LET rule == IF ConfigKeys[i] \in matching THEN ConfigKeys[i] ELSE loop[i - 1][1]
             IN IF loop[i - 1][2] THEN loop[i - 1]
                ELSE <<rule, IF MatchAll THEN rule = NoAddress ELSE rule # NoAddress>>
  IN loop[Len(ConfigKeys)][1]

(* effect(), a packet of a client: the port is remembered whether it is redirected or not.   *)
FromClient(c, h, matching) ==
  /\ requests < MaxRequests /\ requests' = requests + 1
  /\ portState' = [portState EXCEPT ![SportOf[c]] = c]
  /\ IF RuleThatMatches(matching) # NoAddress
     THEN /\ atPot' = atPot \cup {[src |-> h, dst |-> Pot, port |-> SportOf[c], by |-> c, to |-> h]}
          /\ UNCHANGED inside
     ELSE /\ inside' = inside \cup {[src |-> c, dst |-> h]}
          /\ UNCHANGED atPot
  /\ UNCHANGED returned

ReturnedBare(q) ==   \* mutant: the source stays the redirect host
  IF portState[q.port] = NoAddress THEN {}
  ELSE {[src |-> q.src, dst |-> portState[q.port], by |-> q.by, to |-> q.to]}

(* What becomes of a response q: its source is the host it is for, its destination the        *)
(* address last seen with the port; without one it is dropped.                               *)
Returned(q) ==
  IF portState[q.port] = NoAddress THEN {}
  ELSE {[src |-> q.dst, dst |-> portState[q.port], by |-> q.by, to |-> q.to]}

(* effect(), a response to a packet the redirect host has got.                               *)
FromPot(q) ==
  /\ q \in atPot
  /\ atPot' = atPot \ {q}
  /\ returned' = returned \cup Returned([q EXCEPT !.src = Pot, !.dst = q.src])
  /\ UNCHANGED <<portState, inside, requests>>

(* The plugin's state is flushed.                                                           *)
StateFlushed ==
  /\ portState' = [p \in Ports |-> NoAddress]
  /\ UNCHANGED <<atPot, inside, returned, requests>>

RedirNext ==
  \/ \E c \in RedirClients, h \in RedirHosts, matching \in SUBSET Rules : FromClient(c, h, matching)
  \/ \E q \in atPot : FromPot(q)
  \/ StateFlushed
-----------------------------------------------------------------------------
(* A response of the redirect host goes to the client that asked, and seems to come from the    *)
(* host that client asked; so the clients have ports of their own.                            *)
ResponseReturns == \A r \in returned : r.dst = r.by /\ r.src = r.to

(* "if set, all eval rules must match to trigger redirect": with MATCH_ALL nothing triggers it.  *)
MatchAllRedirects ==
  MatchAll => \A matching \in SUBSET Rules : (RuleThatMatches(matching) # NoAddress) = (matching = Rules)
=============================================================================
