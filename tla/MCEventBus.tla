----------------------------- MODULE MCEventBus -----------------------------
(* EventBus on small instances. *)
EXTENDS EventBus

CONSTANTS p1, p2, topic

(* p1 gets its own name and the topic, p2 gets everything. *)
MCSubs == [p \in Plugins |-> IF p = p2 THEN {Star} ELSE {p, topic}]

(* Both are named only; p1 also follows p2. *)
MCOrderSubs == [p \in Plugins |-> IF p = p1 THEN {p1, p2} ELSE {p2}]
=============================================================================
