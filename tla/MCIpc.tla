-------------------------------- MODULE MCIpc -------------------------------
(* Ipc on small instances: two plugins, the event handler of each, a controller. *)
EXTENDS Ipc

CONSTANTS p, q, hp, hq, ctl

Leaf == "leaf"          \* a method that makes no call
Stop == "shutdown"
ConfigQ == "config_q"   \* the framework's config_plugin for plugin q

MCMethods == {Leaf, Stop, ConfigQ}
MCNested == [m \in MCMethods |-> IF m = ConfigQ THEN CallMethod(q, Leaf) ELSE NoCall]

(* p's handler configures q, and a controller calls methods of both and may stop  *)
(* q; q's handler makes no call.                                                  *)
MCOneWay == [c \in Callers |->
  CASE c = hp  -> {CallFramework(p, ConfigQ), CallFramework(p, Leaf)}
    [] c = hq  -> {}
    [] c = ctl -> {CallMethod(p, Leaf), CallMethod(q, Leaf), CallMethod(q, Stop)}]

(* p's handler configures q while q's handler calls the framework. *)
MCCross == [c \in Callers |->
  CASE c = hp  -> {CallFramework(p, ConfigQ)}
    [] c = hq  -> {CallFramework(q, Leaf)}
    [] c = ctl -> {}]

(* The main thread stops plugin p (twice: run() calls stop_plugin two times). *)
MCStops == [c \in Callers |-> IF c = ctl THEN {CallMethod(p, Stop)} ELSE {}]
=============================================================================
