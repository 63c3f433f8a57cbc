------------------------------ MODULE FlowState -----------------------------
(***************************************************************************)
(* The table of flows (plugin.py: flow_state, get_state, set_state).  The       *)
(* framework's manager of the default build makes plain dictionaries, so what    *)
(* get_state() returns is the table itself, or a new one if the state has none.   *)
(* Every thread that hands the plugin a packet looks the flow up, changes the     *)
(* table and puts it back, without a lock.                                      *)
(***************************************************************************)
EXTENDS Integers, Sequences

CONSTANTS
  FlowThreads,    \* threads that hand the plugin packets: interfaces, the packet loop
  Ends,           \* the ends of flows; a flow is seen from both
  TableThere,     \* is there a table before the first packet (a constant of the experiment)?
  MaxFlowPackets  \* bound: packets

FlowKeys == {k \in Ends \X Ends : k[1] # k[2]}
Reverse(k) == <<k[2], k[1]>>

VARIABLES
  tables,     \* the dictionaries made so far: the keys each has
  flows,      \* which of them the state has, 0 for none
  flowCall,   \* thread -> what it is about to do, with which table and key
  flowPackets \* packets (bound)

flowVars == <<tables, flows, flowCall, flowPackets>>

NoFlowCall == [pc |-> "idle"]
Table == IF flows = 0 THEN {} ELSE tables[flows]
At(t, pc) == flowCall[t] # NoFlowCall /\ flowCall[t].pc = pc
Goto(t, pc) == flowCall' = [flowCall EXCEPT ![t].pc = pc]
Return(t) == flowCall' = [flowCall EXCEPT ![t] = NoFlowCall]

FlowInit ==
  /\ IF TableThere THEN tables = <<{}>> /\ flows = 1 ELSE tables = <<>> /\ flows = 0
  /\ flowCall = [t \in FlowThreads |-> NoFlowCall] /\ flowPackets = 0

GetCopy(t, k, op) ==   \* mutant: get_state() returns a copy
  /\ flowCall[t] = NoFlowCall /\ flowPackets < MaxFlowPackets
  /\ flowPackets' = flowPackets + 1
  /\ tables' = Append(tables, Table)
  /\ flowCall' = [flowCall EXCEPT ![t] = [pc |-> "look", key |-> k, op |-> op, table |-> Len(tables) + 1]]
  /\ UNCHANGED flows

(* get_state(key, {}): the state's table, or a new one that is nobody's yet.               *)
GetTable(t, k, op) ==
  /\ flowCall[t] = NoFlowCall /\ flowPackets < MaxFlowPackets
  /\ flowPackets' = flowPackets + 1
  /\ tables' = IF flows = 0 THEN Append(tables, {}) ELSE tables
  /\ flowCall' = [flowCall EXCEPT ![t] = [pc |-> "look", key |-> k, op |-> op,
                                          table |-> IF flows = 0 THEN Len(tables) + 1 ELSE flows]]
  /\ UNCHANGED flows

Look(t) ==
  /\ At(t, "look")
  /\ Goto(t, IF flowCall[t].key \in tables[flowCall[t].table] THEN "use" ELSE "reverse")
  /\ UNCHANGED <<tables, flows, flowPackets>>

(* From the other end; without add a flow that is not there is none of its business.        *)
LookReverse(t) ==
  /\ At(t, "reverse")
  /\ LET c == flowCall[t]
         there == Reverse(c.key) \in tables[c.table]
     IN \/ /\ there
           /\ flowCall' = [flowCall EXCEPT ![t] = [c EXCEPT !.pc = "use", !.key = Reverse(c.key)]]
        \/ ~there /\ c.op = "add" /\ Goto(t, "use")
        \/ ~there /\ c.op # "add" /\ Return(t)
  /\ UNCHANGED <<tables, flows, flowPackets>>

(* setdefault(): the entry is there, or there again; then it counts the packet in it.       *)
Enter(t) ==
  /\ At(t, "use") /\ flowCall[t].op # "remove"
  /\ tables' = [tables EXCEPT ![flowCall[t].table] = @ \cup {flowCall[t].key}]
  /\ Goto(t, "put")
  /\ UNCHANGED <<flows, flowPackets>>

(* That another thread has removed it, even after it was tested, changes nothing.           *)
Remove(t) ==
  /\ At(t, "use") /\ flowCall[t].op = "remove"
  /\ LET c == flowCall[t] IN
     IF c.key \in tables[c.table]
     THEN tables' = [tables EXCEPT ![c.table] = @ \ {c.key}] /\ Goto(t, "put")
     ELSE Return(t) /\ UNCHANGED tables
  /\ UNCHANGED <<flows, flowPackets>>

(* set_state(): this is the state's table from now on.                                     *)
PutTable(t) ==
  /\ At(t, "put")
  /\ flows' = flowCall[t].table
  /\ Return(t)
  /\ UNCHANGED <<tables, flowPackets>>

FlowNext ==
  \E t \in FlowThreads :
    \/ \E k \in FlowKeys, op \in {"add", "check", "remove"} : GetTable(t, k, op)
    \/ Look(t) \/ LookReverse(t) \/ Enter(t) \/ Remove(t) \/ PutTable(t)
-----------------------------------------------------------------------------
(* An entry leaves the state's table only when a thread removes that flow, although threads        *)
(* that work with the table at once each put theirs back.                                    *)
EntriesKept ==
  [][\A k \in Table : k \in Table' \/ \E t \in FlowThreads : Remove(t) /\ flowCall[t].key = k]_flowVars

(* A flow has one key, whichever end was seen first.  So it is with one thread; of two that both    *)
(* find neither key each enters its own.                                                     *)
OneKeyPerFlow == \A k \in Table : Reverse(k) \notin Table
=============================================================================
