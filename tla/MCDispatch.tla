----------------------------- MODULE MCDispatch -----------------------------
(* Dispatch on small instances: eth0 and eth1 are interfaces, fwd and mon plugins. *)
EXTENDS Dispatch

CONSTANTS fwd, mon, eth0, eth1

(* Every way to link eth0, fwd and mon with priority 0, and the interfaces to    *)
(* nothing but the plugins.                                                      *)
MCAllGraphs ==
  {g \in [Plugins -> UNION {[D -> {0}] : D \in SUBSET Plugins}] :
     /\ DOMAIN g[eth1] = {}
     /\ \A p \in {eth0, fwd, mon} : p \notin DOMAIN g[p]}

(* fwd and mon dispatch to each other and to the interfaces. *)
MCSharedRoutes == {{}, {mon}, {mon, eth0}}

(* eth0 feeds fwd and mon, which both feed eth1 and each other. *)
MCTriangle == {[p \in Plugins |-> CASE p = eth0 -> [x \in {fwd, mon} |-> 0]
                                   [] p = fwd -> [x \in {mon, eth1} |-> 0]
                                   [] p = mon -> [x \in {fwd, eth1} |-> 0]
                                   [] OTHER -> <<>>]}

(* eth0 feeds fwd and mon with some priority; fwd feeds mon or both. *)
MCBranches ==
  {[p \in Plugins |-> CASE p = eth0 -> [x \in {fwd, mon} |-> pri]
                        [] p = fwd -> [x \in S |-> pri]
                        [] OTHER -> <<>>] : pri \in {0, 1}, S \in {{mon}, {mon, eth0}}}
MCBranchRoutes == {{}, {mon}}
=============================================================================
