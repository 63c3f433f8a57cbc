----------------------------- MODULE MCLifecycle ----------------------------
(* Lifecycle on small instances: instances of two names. *)
EXTENDS Lifecycle

CONSTANTS i1, i2, i3, i4, nA, nB

(* i1 and i3 have the one name, i2 and i4 the other. *)
MCNameOf == [i \in Insts |-> IF i \in {i1, i3} THEN nA ELSE nB]
=============================================================================
