---------------------------- MODULE DispatchProofs --------------------------
(***************************************************************************)
(* Proofs about Dispatch, for any plugins, any links and any number of       *)
(* packets and threads: the prev information that all of them share keeps a   *)
(* packet from no plugin that can be reached.                                *)
(***************************************************************************)
EXTENDS Dispatch, TLAPS, SequenceTheorems

(* Plugins pass all packets on, name no hops, and the links stay what they are. *)
Plain == Drops = {} /\ Routers = {} /\ ~Commands

(* The handlings on a stack. *)
Held(s) == {s[i] : i \in DOMAIN s}

Hops == [prev : SUBSET Plugins, dest : SUBSET Plugins, dispatch : SUBSET Plugins]

Typed ==
  /\ links \in [Plugins -> LinkSets]
  /\ info \in [Packets -> Hops]
  /\ received \in 0..MaxPackets
  /\ stack \in [Workers -> Seq(Frame)]
  /\ queue \in [Queued -> Seq(Packets)]
  /\ got \in [Packets -> [Plugins -> 0..2]]

(* No hop is named, in the packets' information and in what was read of it. *)
NoHops ==
  /\ \A p \in Plugins : direct[p] = None /\ dropped[p] = <<>>
  /\ \A k \in Packets : info[k].dest = {} /\ info[k].dispatch = {}
  /\ \A w \in Workers : \A f \in Held(stack[w]) : f.dest = {} /\ f.dispatch = {}

(* p has packet k before it: a thread is about to handle it, or it is in the queue. *)
Before(f, p, k) == f.p = p /\ f.k = k /\ f.at # "send"
Pending(p, k) ==
  \/ \E w \in Workers : \E f \in Held(stack[w]) : Before(f, p, k)
  \/ p \in Queued /\ k \in Held(queue[p])

(* p still has to hand packet k to q. *)
Sends(f, p, q, k) == f.p = p /\ f.k = k /\ f.at = "send" /\ q \in f.todo
ToSend(p, q, k) == \E w \in Workers : \E f \in Held(stack[w]) : Sends(f, p, q, k)

(* Who got a packet handles it, or will; who has handled it has handed it on, or will. *)
Handled ==
  \A k \in Packets, p \in Plugins \ Interfaces :
    got[k][p] > 0 => p \in info[k].prev \/ Pending(p, k)
HandedOn ==
  \A k \in Packets : \A p \in info[k].prev : \A q \in DOMAIN links[p] :
    links[p][q] >= 0 => q \in info[k].prev \/ got[k][q] > 0 \/ ToSend(p, q, k)

(* Of the links that a handling has looked at, it leaves out none but the visited.   *)
Scan(f) ==
  /\ f.keys = DOMAIN links[f.p]
  /\ \A q \in f.seen : q \in DOMAIN links[f.p] /\ links[f.p][q] >= 0 =>
       q \in info[f.k].prev \/ q \in f.todo
Scanned == \A w \in Workers : \A f \in Held(stack[w]) : f.at = "scan" => Scan(f)

FloodInv == Typed /\ NoHops /\ Handled /\ HandedOn /\ Scanned

-----------------------------------------------------------------------------
(* What stacks and queues hold after a change at their ends. *)
LEMMA Ends ==
  ASSUME NEW S, NEW s \in Seq(S), s # <<>>
  PROVE  /\ Head(s) \in S /\ Tail(s) \in Seq(S)
         /\ Held(s) = {Head(s)} \cup Held(Tail(s))
<1>1. /\ s = <<Head(s)>> \o Tail(s) /\ Len(s) \in Nat /\ Len(s) > 0
      /\ DOMAIN s = 1..Len(s) /\ DOMAIN Tail(s) = 1..(Len(s) - 1)
      /\ Head(s) = s[1] /\ \A i \in 1..(Len(s) - 1) : Tail(s)[i] = s[i + 1]
      OBVIOUS
<1>2. \A i \in 1..Len(s) : i = 1 \/ (i - 1 \in 1..(Len(s) - 1) /\ s[i] = Tail(s)[i - 1])
      BY <1>1
<1>3. \A i \in 1..(Len(s) - 1) : i + 1 \in 1..Len(s) /\ 1 \in 1..Len(s)
      BY <1>1
<1>4. Held(s) \subseteq {Head(s)} \cup Held(Tail(s))
  <2> SUFFICES ASSUME NEW i \in 1..Len(s) PROVE s[i] \in {Head(s)} \cup Held(Tail(s))
      BY <1>1 DEF Held
  <2>1. CASE i = 1
        BY <1>1, <2>1
  <2>2. CASE i - 1 \in DOMAIN Tail(s) /\ s[i] = Tail(s)[i - 1]
        BY <2>2 DEF Held
  <2> QED BY <1>1, <1>2, <2>1, <2>2
<1>5. {Head(s)} \cup Held(Tail(s)) \subseteq Held(s)
      BY <1>1, <1>3 DEF Held
<1> QED BY <1>4, <1>5

(* A handling is pushed on a stack. *)
LEMMA Pushed ==
  ASSUME NEW S, NEW u \in Seq(S), NEW h \in S
  PROVE  <<h>> \o u \in Seq(S) /\ Held(<<h>> \o u) = {h} \cup Held(u)
<1>1. <<h>> \o u \in Seq(S) /\ <<h>> \o u # <<>>
      OBVIOUS
<1>2. Head(<<h>> \o u) = h /\ Tail(<<h>> \o u) = u
      OBVIOUS
<1> QED BY <1>1, <1>2, Ends

(* A stack with two handlings on it is one with one on it, and another on top of that. *)
LEMMA TwoOnTop ==
  ASSUME NEW S, NEW t \in Seq(S), NEW f \in S, NEW g \in S
  PROVE  <<f, g>> \o t = <<f>> \o (<<g>> \o t) /\ Tail(<<f, g>> \o t) = <<g>> \o t
<1>1. <<f>> \in Seq(S) /\ <<g>> \in Seq(S) /\ <<f>> \o <<g>> = <<f, g>>
  <2>1. /\ <<f>> \in Seq(S) /\ <<g>> \in Seq(S) /\ <<f, g>> \in Seq(S)
        /\ Len(<<f>>) = 1 /\ Len(<<g>>) = 1 /\ Len(<<f, g>>) = 2
        OBVIOUS
  <2>2. /\ <<f>> \o <<g>> \in Seq(S) /\ Len(<<f>> \o <<g>>) = 2
        /\ (<<f>> \o <<g>>)[1] = f /\ (<<f>> \o <<g>>)[2] = g
        BY <2>1, ConcatProperties
  <2>3. \A i \in 1..2 : i = 1 \/ i = 2
        OBVIOUS
  <2>4. <<f, g>>[1] = f /\ <<f, g>>[2] = g
        OBVIOUS
  <2>5. \A i \in 1..2 : (<<f>> \o <<g>>)[i] = <<f, g>>[i]
        BY <2>2, <2>3, <2>4
  <2>6. <<f>> \o <<g>> = <<f, g>>
    <3> DEFINE s == <<f>> \o <<g>>
               u == <<f, g>>
    <3>1. s \in Seq(S) /\ u \in Seq(S) /\ Len(s) = Len(u) /\ \A i \in 1..Len(s) : s[i] = u[i]
          BY <2>1, <2>2, <2>5
    <3> HIDE DEF s, u
    <3>2. s = u
          BY <3>1, SeqEqual
    <3> QED BY <3>2 DEF s, u
  <2> QED BY <2>1, <2>6
<1>2. <<f, g>> \o t = <<f>> \o (<<g>> \o t)
  <2>1. (<<f>> \o <<g>>) \o t = <<f>> \o (<<g>> \o t)
    <3> DEFINE s == <<f>>
               u == <<g>>
    <3>1. s \in Seq(S) /\ u \in Seq(S) /\ t \in Seq(S)
          BY <1>1
    <3> HIDE DEF s, u
    <3>2. (s \o u) \o t = s \o (u \o t)
          BY <3>1, ConcatAssociative
    <3> QED BY <3>2 DEF s, u
  <2> QED BY <1>1, <2>1, Zenon
<1>3. <<g>> \o t \in Seq(S) /\ \A u \in Seq(S) : Tail(<<f>> \o u) = u
      OBVIOUS
<1> QED BY <1>2, <1>3

(* The same for two. *)
LEMMA PushedTwo ==
  ASSUME NEW S, NEW t \in Seq(S), NEW f \in S, NEW g \in S
  PROVE  <<f, g>> \o t \in Seq(S) /\ Held(<<f, g>> \o t) = {f, g} \cup Held(t)
<1>1. \A h \in S, u \in Seq(S) :
        <<h>> \o u \in Seq(S) /\ Held(<<h>> \o u) = {h} \cup Held(u)
      BY Pushed
<1>2. <<f, g>> \o t = <<f>> \o (<<g>> \o t)
      BY TwoOnTop
<1>3. <<g>> \o t \in Seq(S) /\ Held(<<g>> \o t) = {g} \cup Held(t)
      BY <1>1
<1>4. <<f>> \o (<<g>> \o t) \in Seq(S) /\ Held(<<f>> \o (<<g>> \o t)) = {f} \cup Held(<<g>> \o t)
      BY <1>1, <1>3
<1> QED BY <1>2, <1>3, <1>4

(* A packet is put in a queue. *)
LEMMA Appended ==
  ASSUME NEW S, NEW s \in Seq(S), NEW x \in S
  PROVE  Append(s, x) \in Seq(S) /\ Held(Append(s, x)) = Held(s) \cup {x}
<1>1. /\ Append(s, x) \in Seq(S) /\ DOMAIN Append(s, x) = DOMAIN s \cup {Len(s) + 1}
      /\ \A i \in DOMAIN s : Append(s, x)[i] = s[i]
      /\ Append(s, x)[Len(s) + 1] = x
      OBVIOUS
<1> QED BY <1>1 DEF Held

-----------------------------------------------------------------------------
(* A handling that a step takes from a stack. *)
Gone(g) == \E w \in Workers : g \in Held(stack[w]) /\ g \notin Held(stack'[w])

(* A handling that iterates over the links did so before, or has left out no link. *)
Scans ==
  \A w \in Workers : \A f \in Held(stack'[w]) : f.at = "scan" => f \in Held(stack[w]) \/ Scan(f)'

(* What a step needs to keep the invariant: whatever it takes away is done, and what  *)
(* it adds is still to be done.                                                    *)
LEMMA Keeps ==
  ASSUME FloodInv, UNCHANGED links,
         \A g, p, k : Gone(g) /\ Before(g, p, k) => p \in Interfaces \/ p \in info'[k].prev \/ Pending(p, k)',
         \A g, p, q, k : Gone(g) /\ Sends(g, p, q, k) => got'[k][q] > 0 \/ ToSend(p, q, k)',
         \A p \in Queued : \A k \in Held(queue[p]) : k \in Held(queue'[p]) \/ Pending(p, k)',
         \A k \in Packets : info[k].prev \subseteq info'[k].prev,
         \A k \in Packets, p \in Plugins : got[k][p] > 0 => got'[k][p] > 0,
         \A k \in Packets, p \in Plugins :
            got'[k][p] > 0 => got[k][p] > 0 \/ p \in Interfaces \/ Pending(p, k)',
         \A k \in Packets, p, q \in Plugins :
            p \in info'[k].prev \ info[k].prev /\ q \in DOMAIN links[p] /\ links[p][q] >= 0 =>
              q \in info'[k].prev \/ got'[k][q] > 0 \/ ToSend(p, q, k)',
         Scans, Typed', NoHops'
  PROVE  FloodInv'
<1> USE DEF FloodInv
<1>1. Handled'
  <2> SUFFICES ASSUME NEW k \in Packets, NEW p \in Plugins \ Interfaces, got'[k][p] > 0,
                      ~(p \in info'[k].prev)
               PROVE  Pending(p, k)'
      BY DEF Handled
  <2>1. CASE got[k][p] > 0
    <3>1. Pending(p, k)
          BY <2>1 DEF Handled
    <3>2. CASE p \in Queued /\ k \in Held(queue[p])
          BY <3>2 DEF Pending
    <3>3. ASSUME NEW w \in Workers, NEW f \in Held(stack[w]), Before(f, p, k) PROVE Pending(p, k)'
      <4>1. CASE f \in Held(stack'[w])
            BY <3>3, <4>1 DEF Pending, Before
      <4>2. CASE f \notin Held(stack'[w])
        <5>1. Gone(f)
              BY <4>2 DEF Gone
        <5> QED BY <3>3, <5>1
      <4> QED BY <4>1, <4>2
    <3> QED BY <3>1, <3>2, <3>3 DEF Pending
  <2> QED BY <2>1
<1>2. HandedOn'
  <2> SUFFICES ASSUME NEW k \in Packets, NEW p \in info'[k].prev, NEW q \in DOMAIN links[p],
                      links[p][q] >= 0, q \notin info'[k].prev, ~(got'[k][q] > 0)
               PROVE  ToSend(p, q, k)'
      BY DEF HandedOn
  <2>0. p \in Plugins /\ q \in Plugins
    <3>1. p \in Plugins
          BY DEF Typed, Hops
    <3>2. links[p] \in LinkSets
          BY <3>1 DEF Typed
    <3> QED BY <3>1, <3>2 DEF LinkSets
  <2>1. CASE p \in info[k].prev
    <3>1. ToSend(p, q, k)
          BY <2>0, <2>1 DEF HandedOn
    <3>2. PICK w \in Workers : \E f \in Held(stack[w]) : Sends(f, p, q, k)
          BY <3>1 DEF ToSend
    <3>3. PICK f \in Held(stack[w]) : Sends(f, p, q, k)
          BY <3>2
    <3>4. CASE f \in Held(stack'[w])
          BY <3>3, <3>4 DEF ToSend, Sends
    <3>5. CASE f \notin Held(stack'[w])
      <4>1. Gone(f)
            BY <3>5 DEF Gone
      <4> QED BY <3>3, <4>1
    <3> QED BY <3>4, <3>5
  <2> QED BY <2>0, <2>1
<1>3. Scanned'
  <2> SUFFICES ASSUME NEW w \in Workers, NEW f \in Held(stack'[w]), f.at = "scan", f \in Held(stack[w])
               PROVE  Scan(f)'
      BY DEF Scanned, Scans
  <2>1. f \in Frame /\ Scan(f)
        BY DEF Scanned, Typed, Held
  <2>2. info[f.k].prev \subseteq info'[f.k].prev
        BY <2>1 DEF Frame
  <2> QED BY <2>1, <2>2 DEF Scan
<1> QED BY <1>1, <1>2, <1>3

(* The innermost handling, and the rest. *)
LEMMA TopIs ==
  ASSUME Typed, NEW w \in Workers, stack[w] # <<>>
  PROVE  /\ Top(w) \in Frame /\ Tail(stack[w]) \in Seq(Frame)
         /\ Held(stack[w]) = {Top(w)} \cup Held(Tail(stack[w]))
<1>1. stack[w] \in Seq(Frame)
      BY DEF Typed
<1> QED BY <1>1, Ends DEF Top

(* What a worker's step makes of its stack. *)
Becomes(w, new) ==
  /\ stack' \in [Workers -> Seq(Frame)]
  /\ Held(stack'[w]) = new \cup Held(Tail(stack[w]))
  /\ \A u \in Workers \ {w} : stack'[u] = stack[u]

(* Leaving, replacing the innermost handling, calling another. *)
LEMMA Changes ==
  ASSUME Typed, NEW w \in Workers, stack[w] # <<>>
  PROVE  /\ Leave(w) => Becomes(w, {})
         /\ \A f \in Frame : Replace(w, f) => Becomes(w, {f})
         /\ \A f, g \in Frame :
              stack' = [stack EXCEPT ![w] = <<f, g>> \o Tail(@)] => Becomes(w, {f, g})
<1>1. Tail(stack[w]) \in Seq(Frame)
      BY TopIs
<1>2. ASSUME Leave(w) PROVE Becomes(w, {})
      BY <1>1, <1>2 DEF Leave, Becomes, Typed
<1>3. ASSUME NEW f \in Frame, Replace(w, f) PROVE Becomes(w, {f})
  <2>1. <<f>> \o Tail(stack[w]) \in Seq(Frame) /\ Held(<<f>> \o Tail(stack[w])) = {f} \cup Held(Tail(stack[w]))
        BY <1>1, Pushed
  <2> QED BY <1>3, <2>1 DEF Replace, Becomes, Typed
<1>4. ASSUME NEW f \in Frame, NEW g \in Frame, stack' = [stack EXCEPT ![w] = <<f, g>> \o Tail(@)]
      PROVE  Becomes(w, {f, g})
  <2>1. /\ <<f, g>> \o Tail(stack[w]) \in Seq(Frame)
        /\ Held(<<f, g>> \o Tail(stack[w])) = {f, g} \cup Held(Tail(stack[w]))
    <3> DEFINE t == Tail(stack[w])
    <3>1. t \in Seq(Frame)
          BY <1>1
    <3> HIDE DEF t
    <3>2. <<f, g>> \o t \in Seq(Frame) /\ Held(<<f, g>> \o t) = {f, g} \cup Held(t)
          BY <3>1, PushedTwo
    <3> QED BY <3>2 DEF t
  <2> QED BY <1>4, <2>1 DEF Becomes, Typed
<1> QED BY <1>2, <1>3, <1>4

(* What is gone then, and what is there. *)
LEMMA WhatBecomes ==
  ASSUME Typed, NEW w \in Workers, stack[w] # <<>>, NEW new, Becomes(w, new)
  PROVE  /\ \A g : Gone(g) => g = Top(w) /\ g \notin new
         /\ \A u \in Workers : \A g \in Held(stack'[u]) : g \in Held(stack[u]) \/ g \in new
         /\ \A g \in new : g \in Held(stack'[w])
BY TopIs DEF Becomes, Gone

(* What is handed over is marked, and nothing else is. *)
LEMMA Handed ==
  ASSUME Typed, NEW k \in Packets, NEW p \in Plugins, Hand(k, p)
  PROVE  /\ got' \in [Packets -> [Plugins -> 0..2]]
         /\ got'[k][p] > 0
         /\ \A j \in Packets, r \in Plugins :
              /\ got[j][r] > 0 => got'[j][r] > 0
              /\ got'[j][r] > 0 => got[j][r] > 0 \/ (j = k /\ r = p)
<1>1. got \in [Packets -> [Plugins -> 0..2]] /\ got[k] \in [Plugins -> 0..2] /\ got[k][p] \in 0..2
      BY DEF Typed
<1>2. got'[k] = [got[k] EXCEPT ![p] = IF got[k][p] = 2 THEN 2 ELSE got[k][p] + 1]
      BY <1>1 DEF Hand
<1>3. \A j \in Packets \ {k} : got'[j] = got[j]
      BY <1>1 DEF Hand
<1>4. /\ got'[k] \in [Plugins -> 0..2] /\ got'[k][p] > 0
      /\ \A r \in Plugins \ {p} : got'[k][r] = got[k][r]
      BY <1>1, <1>2
<1>5. got' \in [Packets -> [Plugins -> 0..2]]
  <2>1. got' = [j \in Packets |-> got'[j]]
        BY <1>1 DEF Hand
  <2> QED BY <1>1, <1>3, <1>4, <2>1
<1> QED BY <1>1, <1>3, <1>4, <1>5

LEMMA OneBecomes ==
  ASSUME Typed, NEW w \in Workers, stack[w] # <<>>, NEW n, Becomes(w, {n})
  PROVE  /\ \A g : Gone(g) => g = Top(w)
         /\ n \in Held(stack'[w])
         /\ \A u \in Workers : \A g \in Held(stack'[u]) : g \in Held(stack[u]) \/ g = n
         /\ n.at # "scan" \/ Scan(n)' => Scans
<1> PICK new : new = {n}
    OBVIOUS
<1>1. Becomes(w, new)
      OBVIOUS
<1>2. /\ \A g : Gone(g) => g = Top(w) /\ g \notin new
      /\ \A u \in Workers : \A g \in Held(stack'[u]) : g \in Held(stack[u]) \/ g \in new
      /\ \A g \in new : g \in Held(stack'[w])
      BY <1>1, WhatBecomes
<1> QED BY <1>2 DEF Scans

-----------------------------------------------------------------------------
(* At the start nothing is held. *)
LEMMA FloodInit == ASSUME Plain, Init PROVE FloodInv
<1>1. \A w \in Workers : Held(stack[w]) = {}
      BY DEF Init, Held
<1>2. Typed
      BY DispatchAssumption DEF Init, Typed, Hops
<1>3. NoHops
      BY <1>1 DEF Init, NoHops
<1>4. Handled
      BY DEF Init, Handled
<1>5. HandedOn
      BY DEF Init, HandedOn
<1> QED BY <1>1, <1>2, <1>3, <1>4, <1>5 DEF FloodInv, Scanned

(* A packet is received. *)
LEMMA FloodReceive == ASSUME FloodInv, NEW s \in Sources, Receive(s) PROVE FloodInv'
<1> DEFINE w == <<"capture", s>>
           f == NewFrame("read", s, received + 1)
<1>1. w \in Workers /\ stack[w] = <<>> /\ stack' = [stack EXCEPT ![w] = <<f>>] /\ received' = received + 1
      BY DEF Workers, Receive
<1>2. f \in Frame /\ f.dest = {} /\ f.dispatch = {} /\ f.at = "read" /\ received + 1 \in 0..MaxPackets
      BY DispatchAssumption DEF FloodInv, Typed, Receive, NewFrame, Frame, Packets
<1>3. UNCHANGED <<links, dropped, direct, info, queue, got>>
      BY DEF Receive, linkVars
<1> HIDE DEF w, f
<1>4. stack \in [Workers -> Seq(Frame)]
      BY DEF FloodInv, Typed
<1>5. Held(<<f>>) = {f} /\ <<f>> \in Seq(Frame)
      BY <1>2 DEF Held
<1>6. stack' \in [Workers -> Seq(Frame)] /\ stack'[w] = <<f>> /\ \A u \in Workers \ {w} : stack'[u] = stack[u]
      BY <1>1, <1>4, <1>5
<1>7. \A g : ~Gone(g)
      BY <1>1, <1>6 DEF Gone, Held
<1>8. Typed'
      BY <1>1, <1>2, <1>3, <1>6 DEF FloodInv, Typed
<1>9. NoHops'
      BY <1>2, <1>3, <1>5, <1>6 DEF FloodInv, NoHops
<1>10. Scans
       BY <1>2, <1>5, <1>6 DEF Scans
<1> QED BY <1>3, <1>7, <1>8, <1>9, <1>10, Keeps

(* The packet thread of a queued plugin takes a packet. *)
LEMMA FloodTake == ASSUME FloodInv, NEW p \in Queued, Take(p) PROVE FloodInv'
<1> DEFINE w == <<"packet", p>>
           f == NewFrame("handle", p, Head(queue[p]))
<1>1. w \in Workers /\ stack[w] = <<>> /\ stack' = [stack EXCEPT ![w] = <<f>>]
      BY DEF Workers, Take
<1>2. queue \in [Queued -> Seq(Packets)] /\ queue[p] \in Seq(Packets) /\ queue[p] # <<>>
      BY DEF FloodInv, Typed, Take
<1>3. /\ Head(queue[p]) \in Packets /\ Tail(queue[p]) \in Seq(Packets)
      /\ Held(queue[p]) = {Head(queue[p])} \cup Held(Tail(queue[p]))
      BY <1>2, Ends
<1>4. /\ queue' \in [Queued -> Seq(Packets)] /\ queue'[p] = Tail(queue[p])
      /\ \A r \in Queued \ {p} : queue'[r] = queue[r]
      BY <1>2, <1>3 DEF Take
<1>5. /\ f \in Frame /\ f.dest = {} /\ f.dispatch = {}
      /\ f.p = p /\ f.k = Head(queue[p]) /\ f.at = "handle"
      BY <1>3, DispatchAssumption DEF NewFrame, Frame
<1>6. UNCHANGED <<links, dropped, direct, info, received, got>>
      BY DEF Take, linkVars
<1> HIDE DEF w, f
<1>7. stack \in [Workers -> Seq(Frame)]
      BY DEF FloodInv, Typed
<1>8. Held(<<f>>) = {f} /\ <<f>> \in Seq(Frame)
      BY <1>5 DEF Held
<1>9. stack' \in [Workers -> Seq(Frame)] /\ stack'[w] = <<f>> /\ \A u \in Workers \ {w} : stack'[u] = stack[u]
      BY <1>1, <1>7, <1>8
<1>10. \A g : ~Gone(g)
       BY <1>1, <1>9 DEF Gone, Held
<1>11. Typed'
       BY <1>4, <1>6, <1>9 DEF FloodInv, Typed
<1>12. NoHops'
       BY <1>5, <1>6, <1>8, <1>9 DEF FloodInv, NoHops
<1>13. ASSUME NEW r \in Queued, NEW k \in Held(queue[r])
       PROVE  k \in Held(queue'[r]) \/ Pending(r, k)'
  <2>1. CASE r = p /\ k = Head(queue[p])
    <3>1. f \in Held(stack'[w]) /\ Before(f, r, k)
          BY <1>5, <1>8, <1>9, <2>1 DEF Before
    <3> QED BY <1>1, <3>1 DEF Pending
  <2>2. CASE ~(r = p /\ k = Head(queue[p]))
        BY <1>3, <1>4, <2>2
  <2> QED BY <2>1, <2>2
<1>14. Scans
       BY <1>5, <1>8, <1>9 DEF Scans
<1> QED BY <1>6, <1>10, <1>11, <1>12, <1>13, <1>14, Keeps

-----------------------------------------------------------------------------
(* Nobody names a hop, if the new handlings and the information do not. *)
LEMMA Calm ==
  ASSUME Typed, NoHops, NEW w \in Workers, stack[w] # <<>>, NEW new, Becomes(w, new),
         \A f \in new : f.dest = {} /\ f.dispatch = {},
         UNCHANGED <<direct, dropped>>,
         \A k \in Packets : info'[k].dest = {} /\ info'[k].dispatch = {}
  PROVE  NoHops'
BY WhatBecomes DEF NoHops

(* The parts of a handling. *)
LEMMA FrameIs ==
  ASSUME FloodInv, NEW w \in Workers, NEW pc, At(w, pc)
  PROVE  /\ stack[w] # <<>> /\ Top(w) \in Frame /\ Top(w).at = pc
         /\ Top(w).dest = {} /\ Top(w).dispatch = {}
         /\ Top(w).p \in Plugins /\ Top(w).k \in Packets /\ Top(w).todo \subseteq Plugins
         /\ Table(Top(w)) = links[Top(w).p] /\ (pc = "scan" => Scan(Top(w)))
<1>1. stack[w] # <<>> /\ Top(w).at = pc
      BY DEF At
<1>2. Top(w) \in Frame /\ Top(w) \in Held(stack[w])
      BY <1>1, TopIs DEF FloodInv
<1>3. Table(Top(w)) = links[Top(w).p]
  <2>1. dropped[Top(w).p] = <<>> /\ Top(w).gen \in Nat
        BY <1>2 DEF FloodInv, NoHops, Frame
  <2>2. ~(Top(w).gen < Len(dropped[Top(w).p]))
        BY <2>1
  <2> QED BY <2>2 DEF Table
<1> QED BY <1>1, <1>2, <1>3 DEF FloodInv, NoHops, Frame, Scanned

(* A packet is passed through the plugin, or put on the wire. *)
LEMMA FloodHandle == ASSUME Plain, FloodInv, NEW w \in Workers, Handle(w) PROVE FloodInv'
<1> DEFINE f == Top(w)
           n == [f EXCEPT !.at = "read"]
<1>1. /\ stack[w] # <<>> /\ f \in Frame /\ f.at = "handle" /\ f.dest = {} /\ f.dispatch = {}
      /\ f.p \in Plugins /\ f.k \in Packets
      BY FrameIs DEF Handle
<1>2. /\ n \in Frame /\ n.dest = {} /\ n.dispatch = {}
      /\ n.p = f.p /\ n.k = f.k /\ n.at = "read"
      BY <1>1 DEF Frame
<1>3. UNCHANGED <<links, dropped, direct, received, queue, got>>
      BY DEF Handle, linkVars
<1>4. (f.p \in Interfaces /\ Leave(w)) \/ Replace(w, n)
      BY DEF Handle, Plain
<1>5. info' = info
  <2>1. info \in [Packets -> Hops]
        BY DEF FloodInv, Typed
  <2>2. info' = info \/ info' = [info EXCEPT ![f.k].dispatch = @] \/ info' = [info EXCEPT ![f.k].dest = @]
        BY DEF Handle, Plain
  <2> QED BY <1>1, <2>1, <2>2 DEF Hops
<1> HIDE DEF f, n
<1>6. ASSUME NEW new, new = {} \/ new = {n}, new = {} => f.p \in Interfaces, Becomes(w, new)
      PROVE  FloodInv'
  <2>1. /\ \A g : Gone(g) => g = f
        /\ \A g \in new : g \in Held(stack'[w])
        /\ Scans
        BY <1>1, <1>2, <1>6, WhatBecomes DEF FloodInv, Scans, f
  <2>2. Typed'
        BY <1>3, <1>5, <1>6 DEF FloodInv, Typed, Becomes
  <2>3. NoHops'
        BY <1>1, <1>2, <1>3, <1>5, <1>6, Calm DEF FloodInv, NoHops
  <2>4. ASSUME NEW g, NEW p, NEW k, Gone(g), Before(g, p, k)
        PROVE  p \in Interfaces \/ Pending(p, k)'
    <3>1. CASE new = {}
          BY <1>6, <2>1, <2>4, <3>1 DEF Before
    <3>2. CASE new = {n}
      <4>1. n \in Held(stack'[w]) /\ Before(n, p, k)
            BY <1>2, <2>1, <2>4, <3>2 DEF Before
      <4> QED BY <4>1 DEF Pending
    <3> QED BY <1>6, <3>1, <3>2
  <2>5. \A g, p, q, k : ~(Gone(g) /\ Sends(g, p, q, k))
        BY <1>1, <2>1 DEF Sends
  <2> QED BY <1>3, <1>5, <2>1, <2>2, <2>3, <2>4, <2>5, Keeps
<1>7. CASE f.p \in Interfaces /\ Leave(w)
      BY <1>1, <1>6, <1>7, Changes DEF FloodInv
<1>8. CASE Replace(w, n)
      BY <1>1, <1>2, <1>6, <1>8, Changes DEF FloodInv
<1> QED BY <1>4, <1>7, <1>8

(* dispatch() reads the packet's information. *)
LEMMA FloodRead == ASSUME FloodInv, NEW w \in Workers, Read(w) PROVE FloodInv'
<1> DEFINE f == Top(w)
           n == [f EXCEPT !.at = "select", !.dest = info[f.k].dest,
                          !.dispatch = info[f.k].dispatch, !.gen = Len(dropped[f.p])]
<1>1. /\ stack[w] # <<>> /\ f \in Frame /\ f.at = "read"
      /\ f.p \in Plugins /\ f.k \in Packets
      BY FrameIs DEF Read
<1>2. info[f.k].dest = {} /\ info[f.k].dispatch = {} /\ direct[f.p] = None /\ Len(dropped[f.p]) \in Nat
      BY <1>1 DEF FloodInv, NoHops
<1>3. /\ n \in Frame /\ n.dest = {} /\ n.dispatch = {}
      /\ n.p = f.p /\ n.k = f.k /\ n.at = "select"
      BY <1>1, <1>2 DEF Frame
<1>4. UNCHANGED <<links, dropped, direct, info, received, queue, got>> /\ Replace(w, n)
      BY <1>2 DEF Read, linkVars
<1> HIDE DEF f, n
<1>5. Becomes(w, {n})
      BY <1>1, <1>3, <1>4, Changes DEF FloodInv
<1>6. /\ (\A g : Gone(g) => g = f) /\ n \in Held(stack'[w])
      /\ Scans
      BY <1>1, <1>3, <1>5, OneBecomes DEF FloodInv, f
<1>7. Typed'
      BY <1>4, <1>5 DEF FloodInv, Typed, Becomes
<1>8. NoHops'
      BY <1>1, <1>3, <1>4, <1>5, Calm DEF FloodInv, NoHops
<1>9. ASSUME NEW g, NEW p, NEW k, Gone(g), Before(g, p, k) PROVE Pending(p, k)'
  <2>1. Before(n, p, k)
        BY <1>3, <1>6, <1>9 DEF Before
  <2> QED BY <1>6, <2>1 DEF Pending
<1>10. \A g, p, q, k : ~(Gone(g) /\ Sends(g, p, q, k))
       BY <1>1, <1>6 DEF Sends
<1> QED BY <1>4, <1>6, <1>7, <1>8, <1>9, <1>10, Keeps

(* The iteration over the links begins. *)
LEMMA FloodSelect == ASSUME FloodInv, NEW w \in Workers, Select(w) PROVE FloodInv'
<1> DEFINE f == Top(w)
           n == [f EXCEPT !.at = "scan", !.keys = DOMAIN Table(f), !.seen = {}, !.todo = {}]
<1>1. /\ stack[w] # <<>> /\ f \in Frame /\ f.at = "select" /\ f.dest = {} /\ f.dispatch = {}
      /\ f.p \in Plugins /\ f.k \in Packets /\ Table(f) = links[f.p]
      BY FrameIs DEF Select
<1>2. info' = info /\ Replace(w, n)
      BY <1>1 DEF Select, Iterate
<1>3. DOMAIN links[f.p] \subseteq Plugins
  <2>1. links[f.p] \in LinkSets
        BY <1>1 DEF FloodInv, Typed
  <2> QED BY <2>1 DEF LinkSets
<1>4. /\ n \in Frame /\ n.dest = {} /\ n.dispatch = {} /\ n.p = f.p /\ n.k = f.k /\ n.at = "scan"
      /\ n.keys = DOMAIN links[f.p] /\ n.seen = {}
      BY <1>1, <1>3 DEF Frame
<1>5. UNCHANGED <<links, dropped, direct, received, queue, got>>
      BY DEF Select, linkVars
<1> HIDE DEF f, n
<1>6. Becomes(w, {n})
      BY <1>1, <1>2, <1>4, Changes DEF FloodInv
<1>7. (\A g : Gone(g) => g = f) /\ n \in Held(stack'[w])
      BY <1>1, <1>6, OneBecomes DEF FloodInv, f
<1>8. Typed'
      BY <1>2, <1>5, <1>6 DEF FloodInv, Typed, Becomes
<1>9. NoHops'
      BY <1>1, <1>2, <1>4, <1>5, <1>6, Calm DEF FloodInv, NoHops
<1>10. Scans
  <2>1. PICK m : m = n
        OBVIOUS
  <2>2. Becomes(w, {m})
        BY <1>6, <2>1
  <2>3. Scan(m)'
        BY <1>4, <1>5, <2>1 DEF Scan
  <2> QED BY <1>1, <2>2, <2>3, OneBecomes DEF FloodInv
<1>11. ASSUME NEW g, NEW p, NEW k, Gone(g), Before(g, p, k) PROVE Pending(p, k)'
  <2>1. Before(n, p, k)
        BY <1>4, <1>7, <1>11 DEF Before
  <2> QED BY <1>7, <2>1 DEF Pending
<1>12. \A g, p, q, k : ~(Gone(g) /\ Sends(g, p, q, k))
       BY <1>1, <1>7 DEF Sends
<1> QED BY <1>2, <1>5, <1>7, <1>8, <1>9, <1>10, <1>11, <1>12, Keeps

(* A link of priority 0 or 1 is taken, unless it is a visited one. *)
LEMMA FloodLook == ASSUME FloodInv, NEW w \in Workers, Look(w) PROVE FloodInv'
<1> DEFINE f == Top(w)
<1>1. /\ stack[w] # <<>> /\ f \in Frame /\ f.at = "scan" /\ f.dest = {} /\ f.dispatch = {}
      /\ f.p \in Plugins /\ f.k \in Packets /\ Table(f) = links[f.p] /\ Scan(f)
      BY FrameIs DEF Look
<1>2. PICK q \in DOMAIN links[f.p] :
        Replace(w, [f EXCEPT !.seen = @ \cup {q}, !.todo = IF Wanted(f, q) THEN @ \cup {q} ELSE @])
      BY <1>1 DEF Look
<1> DEFINE n == [f EXCEPT !.seen = @ \cup {q}, !.todo = IF Wanted(f, q) THEN @ \cup {q} ELSE @]
<1>3. /\ DOMAIN links[f.p] \subseteq Plugins /\ links[f.p][q] \in Priorities
  <2>1. links[f.p] \in LinkSets
        BY <1>1 DEF FloodInv, Typed
  <2> QED BY <2>1 DEF LinkSets
<1>4. /\ n \in Frame /\ n.dest = {} /\ n.dispatch = {} /\ n.p = f.p /\ n.k = f.k /\ n.at = "scan"
      /\ n.keys = f.keys /\ n.seen = f.seen \cup {q} /\ f.todo \subseteq n.todo
      /\ Wanted(f, q) => q \in n.todo
      BY <1>1, <1>3 DEF Frame
<1>5. UNCHANGED <<links, dropped, direct, info, received, queue, got>>
      BY DEF Look, linkVars
<1>6. Replace(w, n)
      BY <1>2
<1> HIDE DEF f, n
<1>7. Becomes(w, {n})
      BY <1>1, <1>4, <1>6, Changes DEF FloodInv
<1>8. (\A g : Gone(g) => g = f) /\ n \in Held(stack'[w])
      BY <1>1, <1>7, OneBecomes DEF FloodInv, f
<1>9. Typed'
      BY <1>5, <1>7 DEF FloodInv, Typed, Becomes
<1>10. NoHops'
       BY <1>1, <1>4, <1>5, <1>7, Calm DEF FloodInv, NoHops
<1>11. Scans
  <2>1. links[f.p][q] >= 0 => q \in info[f.k].prev \/ q \in n.todo
        BY <1>1, <1>3, <1>4 DEF Wanted, Unvisited, Priorities
  <2>2. \A r \in n.seen : r \in DOMAIN links[f.p] /\ links[f.p][r] >= 0 =>
          r \in info[f.k].prev \/ r \in n.todo
        BY <1>1, <1>4, <2>1 DEF Scan
  <2>3. PICK m : m = n
        OBVIOUS
  <2>4. Becomes(w, {m})
        BY <1>7, <2>3
  <2>5. m.keys = DOMAIN links[f.p] /\ m.p = f.p /\ m.k = f.k
        BY <1>1, <1>4, <2>3 DEF Scan
  <2>6. Scan(m)'
        BY <1>5, <2>2, <2>3, <2>5 DEF Scan
  <2> QED BY <1>1, <2>4, <2>6, OneBecomes DEF FloodInv
<1>12. ASSUME NEW g, NEW p, NEW k, Gone(g), Before(g, p, k) PROVE Pending(p, k)'
  <2>1. Before(n, p, k)
        BY <1>4, <1>8, <1>12 DEF Before
  <2> QED BY <1>8, <2>1 DEF Pending
<1>13. \A g, p, q1, k : ~(Gone(g) /\ Sends(g, p, q1, k))
       BY <1>1, <1>8 DEF Sends
<1> QED BY <1>5, <1>8, <1>9, <1>10, <1>11, <1>12, <1>13, Keeps

(* All links have been looked at, and those of priority 1 and the unvisited ones of priority *)
(* 0 are selected.                                                                    *)
LEMMA FloodFound == ASSUME FloodInv, NEW w \in Workers, Found(w) PROVE FloodInv'
<1> DEFINE f == Top(w)
           n == [f EXCEPT !.at = "send"]
<1>1. /\ stack[w] # <<>> /\ f \in Frame /\ f.at = "scan" /\ f.dest = {} /\ f.dispatch = {}
      /\ f.p \in Plugins /\ f.k \in Packets /\ Table(f) = links[f.p] /\ Scan(f)
      BY FrameIs DEF Found
<1>2. /\ info \in [Packets -> Hops]
      /\ info' = [info EXCEPT ![f.k].prev = @ \cup {f.p}]
      /\ Replace(w, n) /\ DOMAIN links[f.p] \subseteq f.seen
      BY <1>1 DEF Found, FloodInv, Typed, Scan
<1>3. /\ info' \in [Packets -> Hops]
      /\ info'[f.k].prev = info[f.k].prev \cup {f.p}
      /\ \A k \in Packets : info'[k].dest = info[k].dest /\ info'[k].dispatch = info[k].dispatch
      /\ \A k \in Packets \ {f.k} : info'[k] = info[k]
      BY <1>1, <1>2 DEF Hops
<1>5. /\ n \in Frame /\ n.dest = {} /\ n.dispatch = {}
      /\ n.p = f.p /\ n.k = f.k /\ n.at = "send" /\ n.todo = f.todo
      BY <1>1 DEF Frame
<1>6. UNCHANGED <<links, dropped, direct, received, queue, got>>
      BY DEF Found, linkVars
<1> HIDE DEF f, n
<1>7. Becomes(w, {n})
      BY <1>1, <1>2, <1>5, Changes DEF FloodInv
<1>8. (\A g : Gone(g) => g = f) /\ n \in Held(stack'[w]) /\ Scans
      BY <1>1, <1>5, <1>7, OneBecomes DEF FloodInv, f
<1>9. Typed'
      BY <1>3, <1>6, <1>7 DEF FloodInv, Typed, Becomes
<1>10. NoHops'
       BY <1>1, <1>3, <1>5, <1>6, <1>7, Calm DEF FloodInv, NoHops
<1>11. \A g, p, k : Gone(g) /\ Before(g, p, k) => p \in info'[k].prev
       BY <1>3, <1>8 DEF Before
<1>12. \A g, p, q, k : ~(Gone(g) /\ Sends(g, p, q, k))
       BY <1>1, <1>8 DEF Sends
<1>13. ASSUME NEW k \in Packets, NEW p \in Plugins, NEW q \in Plugins,
              p \in info'[k].prev \ info[k].prev, q \in DOMAIN links[p], links[p][q] >= 0
       PROVE  q \in info'[k].prev \/ ToSend(p, q, k)'
  <2>1. k = f.k /\ p = f.p
        BY <1>3, <1>13
  <2>2. q \in info[k].prev \/ q \in f.todo
        BY <1>1, <1>2, <1>13, <2>1 DEF Scan
  <2>3. CASE q \in info[k].prev
        BY <1>3, <2>1, <2>3
  <2>4. CASE q \in f.todo
    <3>1. Sends(n, p, q, k)
          BY <1>5, <2>1, <2>4 DEF Sends
    <3> QED BY <1>8, <3>1 DEF ToSend
  <2> QED BY <2>2, <2>3, <2>4
<1>14. \A k \in Packets : info[k].prev \subseteq info'[k].prev
       BY <1>3
<1> QED BY <1>6, <1>8, <1>9, <1>10, <1>11, <1>12, <1>13, <1>14, Keeps

(* No link has come or gone. *)
LEMMA FloodChanged == ASSUME FloodInv, NEW w \in Workers PROVE ~Changed(w)
BY FrameIs DEF Changed, Scan

(* A plugin that has sent the packet to all it selected returns. *)
LEMMA FloodReturn == ASSUME FloodInv, NEW w \in Workers, Return(w) PROVE FloodInv'
<1> DEFINE f == Top(w)
<1>1. stack[w] # <<>> /\ f.at = "send" /\ f.todo = {}
      BY FrameIs DEF Return
<1>2. UNCHANGED <<links, dropped, direct, info, received, queue, got>> /\ Leave(w)
      BY DEF Return, linkVars
<1> HIDE DEF f
<1>3. Becomes(w, {})
      BY <1>1, <1>2, Changes DEF FloodInv
<1>4. /\ \A g : Gone(g) => g = f
      /\ Scans
      BY <1>1, <1>3, WhatBecomes DEF FloodInv, Scans, f
<1>5. Typed'
      BY <1>2, <1>3 DEF FloodInv, Typed, Becomes
<1>6. NoHops'
      BY <1>1, <1>2, <1>3, Calm DEF FloodInv, NoHops
<1>7. \A g, p, q, k : Gone(g) => ~Before(g, p, k) /\ ~Sends(g, p, q, k)
      BY <1>1, <1>4 DEF Before, Sends
<1> QED BY <1>2, <1>4, <1>5, <1>6, <1>7, Keeps

(* A packet is handed to the next plugin: to its queue, or in a call. *)
LEMMA FloodSend == ASSUME FloodInv, NEW w \in Workers, Send(w) PROVE FloodInv'
<1> DEFINE f == Top(w)
<1>1. /\ stack[w] # <<>> /\ f \in Frame /\ f.at = "send" /\ f.dest = {} /\ f.dispatch = {}
      /\ f.p \in Plugins /\ f.k \in Packets /\ f.todo \subseteq Plugins
      BY FrameIs DEF Send
<1>2. PICK q \in f.todo :
        /\ Hand(f.k, q)
        /\ IF q \in Queued
           THEN /\ queue' = [queue EXCEPT ![q] = Append(@, f.k)]
                /\ Replace(w, [f EXCEPT !.todo = @ \ {q}])
           ELSE /\ stack' = [stack EXCEPT ![w] =
                     <<NewFrame("handle", q, f.k), [f EXCEPT !.todo = @ \ {q}]>> \o Tail(@)]
                /\ UNCHANGED queue
      BY DEF Send
<1> DEFINE n == [f EXCEPT !.todo = @ \ {q}]
           h == NewFrame("handle", q, f.k)
<1>3. UNCHANGED <<links, dropped, direct, info, received>>
      BY DEF Send, linkVars
<1>4. /\ n \in Frame /\ n.dest = {} /\ n.dispatch = {}
      /\ n.p = f.p /\ n.k = f.k /\ n.at = "send" /\ n.todo = f.todo \ {q}
      BY <1>1 DEF Frame
<1>5. /\ h \in Frame /\ h.dest = {} /\ h.dispatch = {} /\ h.p = q /\ h.k = f.k /\ h.at = "handle"
      BY <1>1 DEF Frame, NewFrame
<1>6. q \in Plugins
      BY <1>1
<1>7. (q \in Queued /\ queue' = [queue EXCEPT ![q] = Append(@, f.k)] /\ Replace(w, n))
      \/ (stack' = [stack EXCEPT ![w] = <<h, n>> \o Tail(@)] /\ queue' = queue)
      BY <1>2
<1>8. /\ got' \in [Packets -> [Plugins -> 0..2]]
      /\ got'[f.k][q] > 0
      /\ \A j \in Packets, r \in Plugins :
           /\ got[j][r] > 0 => got'[j][r] > 0
           /\ got'[j][r] > 0 => got[j][r] > 0 \/ (j = f.k /\ r = q)
      BY <1>1, <1>2, <1>6, Handed DEF FloodInv
<1> HIDE DEF f, n, h
<1> PICK j \in Packets : j = f.k
      BY <1>1
<1>9. ASSUME NEW new, new = {n} \/ new = {h, n}, Becomes(w, new), Pending(q, j)',
             queue' \in [Queued -> Seq(Packets)],
             \A r \in Queued : Held(queue[r]) \subseteq Held(queue'[r])
      PROVE  FloodInv'
  <2>1. /\ (\A g : Gone(g) => g = f) /\ n \in Held(stack'[w])
        /\ Scans
        BY <1>1, <1>4, <1>5, <1>9, WhatBecomes DEF FloodInv, Scans, f
  <2>2. Typed'
        BY <1>3, <1>8, <1>9 DEF FloodInv, Typed, Becomes
  <2>3. \A g \in new : g.dest = {} /\ g.dispatch = {}
        BY <1>4, <1>5, <1>9
  <2>4. NoHops'
        BY <1>1, <1>3, <1>9, <2>3, Calm DEF FloodInv, NoHops
  <2>5. \A g, p, k : ~(Gone(g) /\ Before(g, p, k))
        BY <1>1, <2>1 DEF Before
  <2>6. ASSUME NEW g, NEW p, NEW r, NEW k, Gone(g), Sends(g, p, r, k)
        PROVE  got'[k][r] > 0 \/ ToSend(p, r, k)'
    <3>1. p = f.p /\ k = f.k /\ r \in f.todo
          BY <2>1, <2>6 DEF Sends
    <3>2. CASE r = q
          BY <1>8, <3>1, <3>2
    <3>3. CASE r # q
      <4>1. Sends(n, p, r, k)
            BY <1>4, <3>1, <3>3 DEF Sends
      <4> QED BY <2>1, <4>1 DEF ToSend
    <3> QED BY <3>2, <3>3
  <2>7. \A k \in Packets, p \in Plugins : got'[k][p] > 0 => got[k][p] > 0 \/ Pending(p, k)'
        BY <1>8, <1>9
  <2> QED BY <1>3, <1>8, <1>9, <2>1, <2>2, <2>4, <2>5, <2>6, <2>7, Keeps
<1>10. CASE q \in Queued /\ queue' = [queue EXCEPT ![q] = Append(@, f.k)] /\ Replace(w, n)
  <2>1. queue \in [Queued -> Seq(Packets)] /\ queue[q] \in Seq(Packets)
        BY <1>10 DEF FloodInv, Typed
  <2>2. Append(queue[q], f.k) \in Seq(Packets) /\ Held(Append(queue[q], f.k)) = Held(queue[q]) \cup {f.k}
        BY <1>1, <2>1, Appended
  <2>3. /\ queue' \in [Queued -> Seq(Packets)] /\ queue'[q] = Append(queue[q], f.k)
        /\ \A r \in Queued \ {q} : queue'[r] = queue[r]
        BY <1>10, <2>1, <2>2
  <2>4. Pending(q, j)'
        BY <1>10, <2>2, <2>3 DEF Pending
  <2>5. Becomes(w, {n})
        BY <1>1, <1>4, <1>10, Changes DEF FloodInv
  <2>6. \A r \in Queued : Held(queue[r]) \subseteq Held(queue'[r])
        BY <2>2, <2>3
  <2> QED BY <1>9, <2>3, <2>4, <2>5, <2>6
<1>11. CASE stack' = [stack EXCEPT ![w] = <<h, n>> \o Tail(@)] /\ queue' = queue
  <2>1. Becomes(w, {h, n})
        BY <1>1, <1>4, <1>5, <1>11, Changes DEF FloodInv
  <2>2. h \in Held(stack'[w]) /\ Before(h, q, j)
        BY <1>1, <1>5, <2>1, WhatBecomes DEF FloodInv, Before
  <2>3. Pending(q, j)'
        BY <2>2 DEF Pending
  <2> QED BY <1>9, <1>11, <2>1, <2>3 DEF FloodInv, Typed
<1> QED BY <1>7, <1>10, <1>11

-----------------------------------------------------------------------------
(* All steps together. *)
LEMMA FloodStep == ASSUME Plain, FloodInv, [Next]_vars PROVE FloodInv'
<1>1. CASE UNCHANGED vars
      BY <1>1 DEF vars, linkVars, FloodInv, Typed, NoHops, Handled, HandedOn, Pending, ToSend,
                  Scanned, Scan
<1>2. ASSUME NEW s \in Sources, Receive(s) PROVE FloodInv'
      BY <1>2, FloodReceive
<1>3. ASSUME NEW p \in Queued, Take(p) PROVE FloodInv'
      BY <1>3, FloodTake
<1>4. ASSUME NEW w \in Workers, Work(w) PROVE FloodInv'
      BY <1>4, FloodHandle, FloodRead, FloodSelect, FloodLook, FloodFound, FloodChanged,
         FloodSend, FloodReturn DEF Work
<1>5. CASE Control
      BY <1>5 DEF Control, Plain, Command, Link, LinkDirect, Unlink, UnlinkUnknown, UnlinkEverywhere
<1> QED BY <1>1, <1>2, <1>3, <1>4, <1>5 DEF Next

(* The prev information hides a packet from nobody (dispatch(), plugin.py 369-415): *)
(* when a packet has come to rest, every plugin that links of priority 0 or 1 lead   *)
(* to from a plugin that has it got it.                                              *)
THEOREM FloodedHolds == ASSUME Plain PROVE Spec => []Flooded
<1>1. Init => FloodInv
      BY FloodInit
<1>2. FloodInv /\ [Next]_vars => FloodInv'
      BY FloodStep
<1>3. FloodInv => Flooded
  <2> SUFFICES ASSUME FloodInv, NEW k \in 1..received, Quiet(k)
               PROVE  /\ \A p \in Plugins \ Interfaces : got[k][p] > 0 => p \in info[k].prev
                      /\ \A p \in info[k].prev : \A q \in DOMAIN links[p] :
                           links[p][q] >= 0 => q \in info[k].prev \/ got[k][q] > 0
      BY DEF Flooded
  <2>1. k \in Packets
        BY DispatchAssumption DEF FloodInv, Typed, Packets
  <2>2. \A p, q : ~Pending(p, k) /\ ~ToSend(p, q, k)
        BY DEF Quiet, Pending, ToSend, Before, Sends, Held
  <2>3. \A p \in Plugins \ Interfaces : got[k][p] > 0 => p \in info[k].prev
        BY <2>1, <2>2 DEF FloodInv, Handled
  <2>4. \A p \in info[k].prev : \A q \in DOMAIN links[p] :
          links[p][q] >= 0 => q \in info[k].prev \/ got[k][q] > 0
        BY <2>1, <2>2 DEF FloodInv, HandedOn
  <2> QED BY <2>3, <2>4
<1> QED BY <1>1, <1>2, <1>3, PTL DEF Spec

-----------------------------------------------------------------------------
(* Links are made and unmade. *)
LEMMA LinksTyped ==
  ASSUME NEW l \in LinkSets, NEW q \in Plugins, NEW pri \in Priorities
  PROVE  NewLink(l, q, pri) \in LinkSets /\ NoLink(l, q) \in LinkSets /\ <<>> \in LinkSets
<1> PICK D \in SUBSET Plugins : l \in [D -> Priorities]
    BY DEF LinkSets
<1>1. NewLink(l, q, pri) \in [D \cup {q} -> Priorities]
      BY DEF NewLink
<1>2. NoLink(l, q) \in [D \ {q} -> Priorities]
      BY DEF NoLink
<1>3. <<>> \in [{} -> Priorities]
      OBVIOUS
<1>4. D \cup {q} \in SUBSET Plugins /\ D \ {q} \in SUBSET Plugins /\ {} \in SUBSET Plugins
      OBVIOUS
<1> QED BY <1>1, <1>2, <1>3, <1>4 DEF LinkSets

LEMMA TypeControl == ASSUME TypeOK, Control PROVE TypeOK'
<1>1. PICK op \in {"link", "unlink", "stop"}, p \in Plugins, q \in Plugins \cup {None} : Command(op, p, q)
  <2>1. CASE \E p, q \in Plugins : LinkDirect(p, q)
        BY <2>1 DEF LinkDirect
  <2>2. CASE \E p, q \in Plugins, pri \in Priorities, b \in BOOLEAN : Link(p, q, pri, b)
        BY <2>2 DEF Link
  <2>3. CASE \E p, q \in Plugins, b \in BOOLEAN : Unlink(p, q, b)
        BY <2>3 DEF Unlink
  <2>4. CASE \E p \in Plugins : UnlinkUnknown(p) \/ UnlinkEverywhere(p)
        BY <2>4 DEF UnlinkUnknown, UnlinkEverywhere
  <2> QED BY <2>1, <2>2, <2>3, <2>4 DEF Control, Priorities
<1>2. /\ commands' \in 0..MaxCommands /\ UNCHANGED <<info, received, stack, queue, got, chosen, lost>>
      /\ last' \in [op : {"none", "link", "unlink", "stop"},
                    p : Plugins \cup {None}, q : Plugins \cup {None}]
      BY <1>1, DispatchAssumption DEF Command, TypeOK
<1>3. /\ links \in [Plugins -> LinkSets] /\ direct \in [Plugins -> Plugins \cup {None}]
      /\ dropped \in [Plugins -> Seq(LinkSets)]
      /\ \A r \in Plugins : links[r] \in LinkSets
      /\ \A x \in Plugins, l \in LinkSets, pri \in Priorities :
           NewLink(l, x, pri) \in LinkSets /\ NoLink(l, x) \in LinkSets /\ <<>> \in LinkSets
      BY LinksTyped DEF TypeOK
<1> DEFINE Goal == /\ links' \in [Plugins -> LinkSets] /\ direct' \in [Plugins -> Plugins \cup {None}]
                   /\ dropped' \in [Plugins -> Seq(LinkSets)]
<1>4. ASSUME NEW x \in Plugins, NoLinks(x) PROVE links' \in [Plugins -> LinkSets] /\ dropped' \in [Plugins -> Seq(LinkSets)]
  <2>1. <<>> \in LinkSets
        BY <1>3 DEF Priorities
  <2>2. links' \in [Plugins -> LinkSets]
        BY <1>3, <1>4, <2>1 DEF NoLinks
  <2>3. Append(dropped[x], links[x]) \in Seq(LinkSets)
    <3> HIDE DEF LinkSets
    <3> QED BY <1>3
  <2>4. dropped' \in [Plugins -> Seq(LinkSets)]
        BY <1>3, <1>4, <2>3 DEF NoLinks
  <2> QED BY <2>2, <2>4
<1>5. Goal
  <2>1. ASSUME NEW x \in Plugins, NEW y \in Plugins, NEW pri \in Priorities, NEW b \in BOOLEAN, Link(x, y, pri, b)
        PROVE  Goal
    <3>1. x # y /\ NewLink(links[x], y, pri) \in LinkSets /\ NewLink(links[y], x, pri) \in LinkSets
          BY <1>3, <2>1 DEF Link
    <3> QED BY <1>3, <2>1, <3>1 DEF Link
  <2>2. ASSUME NEW x \in Plugins, NEW y \in Plugins, NEW b \in BOOLEAN, Unlink(x, y, b)
        PROVE  Goal
    <3>1. x # y /\ NoLink(links[x], y) \in LinkSets /\ NoLink(links[y], x) \in LinkSets
          BY <1>3, <2>2 DEF Unlink, Priorities
    <3> QED BY <1>3, <2>2, <3>1 DEF Unlink
  <2>3. ASSUME NEW x \in Plugins, NEW y \in Plugins, LinkDirect(x, y)
        PROVE  Goal
        BY <1>3, <1>4, <2>3 DEF LinkDirect
  <2>4. ASSUME NEW x \in Plugins, UnlinkUnknown(x) PROVE Goal
        BY <1>3, <1>4, <2>4 DEF UnlinkUnknown
  <2>5. ASSUME NEW x \in Plugins, UnlinkEverywhere(x) PROVE Goal
        BY <1>3, <2>5 DEF UnlinkEverywhere, Priorities
  <2> QED BY <2>1, <2>2, <2>3, <2>4, <2>5 DEF Control, Priorities
<1> QED BY <1>2, <1>5 DEF TypeOK

(* The parts of the innermost handling. *)
LEMMA TopHas ==
  ASSUME TypeOK, NEW w \in Workers, NEW pc, At(w, pc)
  PROVE  /\ Typed /\ stack[w] # <<>> /\ Top(w) \in Frame /\ Top(w).at = pc
         /\ Top(w).p \in Plugins /\ Top(w).k \in Packets /\ Top(w).todo \subseteq Plugins
         /\ info[Top(w).k] \in Hops /\ DOMAIN Table(Top(w)) \subseteq Plugins
<1>1. stack[w] # <<>> /\ Top(w).at = pc /\ Typed
      BY DEF At, Typed, TypeOK, Hops
<1>2. Top(w) \in Frame
      BY <1>1, TopIs
<1>3. Top(w).p \in Plugins /\ Top(w).k \in Packets /\ Top(w).gen \in Nat /\ Top(w).todo \subseteq Plugins
      BY <1>2 DEF Frame
<1>4. info[Top(w).k] \in Hops /\ links[Top(w).p] \in LinkSets
      BY <1>1, <1>3 DEF Typed
<1>5. Table(Top(w)) \in LinkSets
  <2>1. CASE Top(w).gen < Len(dropped[Top(w).p])
    <3>1. dropped[Top(w).p] \in Seq(LinkSets)
          BY <1>3 DEF TypeOK
    <3>2. Top(w).gen + 1 \in 1..Len(dropped[Top(w).p])
          BY <1>3, <2>1, <3>1
    <3>3. dropped[Top(w).p][Top(w).gen + 1] \in LinkSets
      <4> HIDE DEF LinkSets
      <4> QED BY <3>1, <3>2
    <3> QED BY <2>1, <3>3 DEF Table
  <2>2. CASE ~(Top(w).gen < Len(dropped[Top(w).p]))
        BY <1>4, <2>2 DEF Table
  <2> QED BY <2>1, <2>2
<1>6. DOMAIN Table(Top(w)) \subseteq Plugins
      BY <1>5 DEF LinkSets
<1> QED BY <1>1, <1>2, <1>3, <1>4, <1>6

(* Whoever was selected for a packet has got it, or is still to be sent to. *)
Coming(k, q) == got[k][q] > 0 \/ \E p \in Plugins : ToSend(p, q, k)
ChosenInv == TypeOK /\ \A k \in Packets : \A q \in chosen[k] : Coming(k, q)

(* A step that takes away no handling with somebody left to send to, but sends. *)
Serves ==
  /\ \A k \in Packets, q \in Plugins : got[k][q] > 0 => got'[k][q] > 0
  /\ \A g, p, q, k : Gone(g) /\ Sends(g, p, q, k) => Coming(k, q)'
  /\ \A k \in Packets : \A q \in chosen'[k] : q \in chosen[k] \/ Coming(k, q)'

LEMMA ChosenKeeps == ASSUME ChosenInv, TypeOK', Serves PROVE ChosenInv'
<1> SUFFICES ASSUME NEW k \in Packets, NEW q \in chosen'[k], q \in chosen[k] PROVE Coming(k, q)'
    BY DEF ChosenInv, Serves
<1>1. Coming(k, q) /\ q \in Plugins
      BY DEF ChosenInv, TypeOK
<1>2. CASE got[k][q] > 0
      BY <1>1, <1>2 DEF Serves, Coming
<1>3. ASSUME NEW p \in Plugins, ToSend(p, q, k) PROVE Coming(k, q)'
  <2>1. PICK w \in Workers : \E f \in Held(stack[w]) : Sends(f, p, q, k)
        BY <1>3 DEF ToSend
  <2>2. PICK f \in Held(stack[w]) : Sends(f, p, q, k)
        BY <2>1
  <2>3. CASE f \in Held(stack'[w])
        BY <2>2, <2>3 DEF Coming, ToSend, Sends
  <2>4. CASE f \notin Held(stack'[w])
    <3>1. Gone(f)
          BY <2>4 DEF Gone
    <3> QED BY <2>2, <3>1 DEF Serves
  <2> QED BY <2>3, <2>4
<1> QED BY <1>1, <1>2, <1>3 DEF Coming

(* The innermost handling is not sending: nothing that is taken away has anybody to send to. *)
LEMMA NotSending ==
  ASSUME Typed, NEW w \in Workers, stack[w] # <<>>, NEW new, Becomes(w, new), Top(w).at # "send"
  PROVE  \A g, p, q, k : ~(Gone(g) /\ Sends(g, p, q, k))
BY WhatBecomes DEF Sends

(* handle_packet() *)
LEMMA HandleIs == ASSUME TypeOK, NEW w \in Workers, Handle(w) PROVE TypeOK' /\ Serves
<1> DEFINE f == Top(w)
           n == [f EXCEPT !.at = "read"]
<1>1. /\ Typed /\ stack[w] # <<>> /\ f \in Frame /\ f.at = "handle"
      /\ f.p \in Plugins /\ f.k \in Packets /\ info[f.k] \in Hops
      BY TopHas DEF Handle
<1>2. n \in Frame
      BY <1>1 DEF Frame
<1>3. UNCHANGED <<linkVars, received, queue, got, chosen, lost>>
      BY DEF Handle
<1>4. info' \in [Packets -> Hops]
  <2>1. info \in [Packets -> Hops]
        BY <1>1 DEF Typed
  <2>2. info' = info \/ \E r \in IF f.p \in Routers THEN Routes ELSE {{}} :
           \/ info' = [info EXCEPT ![f.k].dispatch = IF r = {} THEN @ ELSE r]
           \/ info' = [info EXCEPT ![f.k].dest = IF r = {} THEN @ ELSE r]
        BY DEF Handle
  <2>3. CASE info' = info
        BY <2>1, <2>3
  <2>4. ASSUME NEW r \in IF f.p \in Routers THEN Routes ELSE {{}},
               \/ info' = [info EXCEPT ![f.k].dispatch = IF r = {} THEN @ ELSE r]
               \/ info' = [info EXCEPT ![f.k].dest = IF r = {} THEN @ ELSE r]
        PROVE  info' \in [Packets -> Hops]
    <3>1. r \subseteq Plugins
          BY DispatchAssumption
    <3>2. CASE info' = [info EXCEPT ![f.k].dispatch = IF r = {} THEN @ ELSE r]
          BY <1>1, <2>1, <3>1, <3>2 DEF Hops
    <3>3. CASE info' = [info EXCEPT ![f.k].dest = IF r = {} THEN @ ELSE r]
          BY <1>1, <2>1, <3>1, <3>3 DEF Hops
    <3> QED BY <2>4, <3>2, <3>3
  <2> QED BY <2>2, <2>3, <2>4
<1>5. Leave(w) \/ Replace(w, n)
      BY DEF Handle
<1> HIDE DEF f, n
<1>6. ASSUME NEW new, Becomes(w, new) PROVE TypeOK' /\ Serves
  <2>1. TypeOK'
        BY <1>3, <1>4, <1>6 DEF TypeOK, linkVars, Becomes, Hops
  <2> QED BY <1>1, <1>3, <1>6, <2>1, NotSending DEF Serves, f
<1> QED BY <1>1, <1>2, <1>5, <1>6, Changes

(* dispatch() reads dest and dispatch, or calls the direct link. *)
LEMMA ReadIs == ASSUME TypeOK, NEW w \in Workers, Read(w) PROVE TypeOK' /\ Serves
<1> DEFINE f == Top(w)
           n == [f EXCEPT !.at = "select", !.dest = info[f.k].dest,
                          !.dispatch = info[f.k].dispatch, !.gen = Len(dropped[f.p])]
           h == NewFrame("handle", direct[f.p], f.k)
           g == [f EXCEPT !.at = "send"]
<1>1. /\ Typed /\ stack[w] # <<>> /\ f \in Frame /\ f.at = "read" /\ f.p \in Plugins /\ f.k \in Packets
      /\ info[f.k] \in Hops
      BY TopHas DEF Read
<1>2. UNCHANGED <<linkVars, info, received, queue, chosen, lost>>
      BY DEF Read
<1>3. CASE direct[f.p] # None
  <2>1. direct[f.p] \in Plugins /\ Hand(f.k, direct[f.p])
        BY <1>1, <1>3 DEF TypeOK, Read
  <2>2. h \in Frame /\ g \in Frame
        BY <1>1, <2>1 DEF Frame, NewFrame
  <2>3. stack' = [stack EXCEPT ![w] = <<h, g>> \o Tail(@)]
        BY <1>3 DEF Read
  <2> HIDE DEF f, h, g
  <2>4. Becomes(w, {h, g})
        BY <1>1, <2>2, <2>3, Changes
  <2>5. /\ got' \in [Packets -> [Plugins -> 0..2]]
        /\ \A j \in Packets, r \in Plugins : got[j][r] > 0 => got'[j][r] > 0
        BY <1>1, <2>1, Handed
  <2>6. TypeOK'
        BY <1>2, <2>4, <2>5 DEF TypeOK, linkVars, Becomes
  <2>7. \A a, p, q, k : ~(Gone(a) /\ Sends(a, p, q, k))
        BY <1>1, <2>4, NotSending DEF f
  <2> QED BY <1>2, <2>5, <2>6, <2>7 DEF Serves
<1>4. CASE direct[f.p] = None
  <2>1. Replace(w, n) /\ got' = got
        BY <1>4 DEF Read
  <2>2. n \in Frame
    <3>1. dropped[f.p] \in Seq(LinkSets)
          BY <1>1 DEF TypeOK
    <3>2. Len(dropped[f.p]) \in Nat
      <4> HIDE DEF LinkSets
      <4> QED BY <3>1
    <3> QED BY <1>1, <3>2 DEF Frame, Hops
  <2> HIDE DEF f, n
  <2>3. Becomes(w, {n})
        BY <1>1, <2>1, <2>2, Changes
  <2>4. TypeOK'
        BY <1>2, <2>1, <2>3 DEF TypeOK, linkVars, Becomes
  <2>5. \A a, p, q, k : ~(Gone(a) /\ Sends(a, p, q, k))
        BY <1>1, <2>3, NotSending DEF f
  <2> QED BY <1>2, <2>1, <2>4, <2>5 DEF Serves
<1> QED BY <1>3, <1>4

(* The iteration over the links begins; an exception ends the dispatch if somebody else has *)
(* deleted dispatch.                                                                  *)
LEMMA SelectIs == ASSUME TypeOK, NEW w \in Workers, Select(w) PROVE TypeOK' /\ Serves
<1> DEFINE f == Top(w)
           n == [f EXCEPT !.at = "scan", !.keys = DOMAIN Table(f), !.seen = {}, !.todo = {}]
<1>1. /\ Typed /\ stack[w] # <<>> /\ f \in Frame /\ f.at = "select" /\ f.p \in Plugins /\ f.k \in Packets
      /\ info[f.k] \in Hops /\ DOMAIN Table(f) \subseteq Plugins
      BY TopHas DEF Select
<1>2. UNCHANGED <<linkVars, received, queue, got, chosen>>
      BY DEF Select
<1>3. n \in Frame
      BY <1>1 DEF Frame
<1>4. /\ (Leave(w) /\ lost' = lost + 1) \/ (Replace(w, n) /\ lost' = lost)
      /\ info' = info \/ info' = [info EXCEPT ![f.k].dispatch = {}]
      BY DEF Select, Raises, Iterate
<1>5. info' \in [Packets -> Hops]
  <2>1. info \in [Packets -> Hops]
        BY <1>1 DEF Typed
  <2> QED BY <1>1, <1>4, <2>1 DEF Hops
<1>6. lost' \in Nat
      BY <1>4 DEF TypeOK
<1> HIDE DEF f, n
<1>7. ASSUME NEW new, Becomes(w, new) PROVE TypeOK' /\ Serves
  <2>1. TypeOK'
        BY <1>2, <1>5, <1>6, <1>7 DEF TypeOK, linkVars, Becomes, Hops
  <2> QED BY <1>1, <1>2, <1>7, <2>1, NotSending DEF Serves, f
<1> QED BY <1>1, <1>3, <1>4, <1>7, Changes

(* A link is looked at. *)
LEMMA LookIs == ASSUME TypeOK, NEW w \in Workers, Look(w) PROVE TypeOK' /\ Serves
<1> DEFINE f == Top(w)
<1>1. /\ Typed /\ stack[w] # <<>> /\ f \in Frame /\ f.at = "scan" /\ DOMAIN Table(f) \subseteq Plugins
      BY TopHas DEF Look
<1>2. UNCHANGED <<linkVars, info, received, queue, got, chosen, lost>>
      BY DEF Look
<1>3. PICK q \in DOMAIN Table(f) \ f.seen :
        Replace(w, [f EXCEPT !.seen = @ \cup {q}, !.todo = IF Wanted(f, q) THEN @ \cup {q} ELSE @])
      BY DEF Look
<1> DEFINE n == [f EXCEPT !.seen = @ \cup {q}, !.todo = IF Wanted(f, q) THEN @ \cup {q} ELSE @]
<1>4. n \in Frame /\ Replace(w, n)
      BY <1>1, <1>3 DEF Frame
<1> HIDE DEF f, n
<1>5. Becomes(w, {n})
      BY <1>1, <1>4, Changes
<1>6. TypeOK'
      BY <1>2, <1>5 DEF TypeOK, linkVars, Becomes
<1>7. \A a, p, r, k : ~(Gone(a) /\ Sends(a, p, r, k))
      BY <1>1, <1>5, NotSending DEF f
<1> QED BY <1>2, <1>6, <1>7 DEF Serves

(* The links are selected: whoever is chosen is to be sent to. *)
LEMMA FoundIs == ASSUME TypeOK, NEW w \in Workers, Found(w) PROVE TypeOK' /\ Serves
<1> DEFINE f == Top(w)
           n == [f EXCEPT !.at = "send"]
           m == [f EXCEPT !.at = "select", !.dest = {}]
<1>1. /\ Typed /\ stack[w] # <<>> /\ f \in Frame /\ f.at = "scan" /\ f.p \in Plugins /\ f.k \in Packets
      /\ f.todo \subseteq Plugins /\ info[f.k] \in Hops
      BY TopHas DEF Found
<1>2. UNCHANGED <<linkVars, received, queue, got, lost>>
      BY DEF Found
<1>3. /\ n \in Frame /\ n.at = "send" /\ n.p = f.p /\ n.k = f.k /\ n.todo = f.todo /\ m \in Frame
      BY <1>1 DEF Frame
<1>4. \/ Replace(w, m) /\ info' = info /\ chosen' = chosen
      \/ /\ Replace(w, n) /\ info' = [info EXCEPT ![f.k].prev = @ \cup {f.p}]
         /\ chosen' = [chosen EXCEPT ![f.k] = @ \cup f.todo]
      BY DEF Found
<1>5. info' \in [Packets -> Hops]
  <2>1. info \in [Packets -> Hops]
        BY <1>1 DEF Typed
  <2> QED BY <1>1, <1>4, <2>1 DEF Hops
<1>6. /\ chosen' \in [Packets -> SUBSET Plugins]
      /\ \A k \in Packets : \A q \in chosen'[k] : q \in chosen[k] \/ (k = f.k /\ q \in f.todo)
  <2>1. chosen \in [Packets -> SUBSET Plugins]
        BY DEF TypeOK
  <2>2. chosen' = chosen \/ chosen' = [chosen EXCEPT ![f.k] = @ \cup f.todo]
        BY <1>4
  <2> HIDE DEF f, n, m
  <2> QED BY <1>1, <2>1, <2>2
<1> HIDE DEF f, n, m
<1>7. ASSUME NEW new, Becomes(w, new) PROVE TypeOK' /\ \A a, p, q, k : ~(Gone(a) /\ Sends(a, p, q, k))
  <2>1. TypeOK'
        BY <1>2, <1>5, <1>6, <1>7 DEF TypeOK, linkVars, Becomes, Hops
  <2> QED BY <1>1, <1>7, <2>1, NotSending DEF f
<1>8. CASE Replace(w, m) /\ chosen' = chosen
  <2>1. Becomes(w, {m})
        BY <1>1, <1>3, <1>8, Changes
  <2> QED BY <1>2, <1>7, <1>8, <2>1 DEF Serves
<1>9. CASE Replace(w, n)
  <2>1. PICK x : x = n
        OBVIOUS
  <2>2. Becomes(w, {x})
        BY <1>1, <1>3, <1>9, <2>1, Changes
  <2>3. x \in Held(stack'[w])
        BY <1>1, <2>2, OneBecomes
  <2>4. ASSUME NEW k \in Packets, NEW q \in chosen'[k], q \notin chosen[k] PROVE Coming(k, q)'
    <3>1. Sends(x, f.p, q, k)
          BY <1>3, <1>6, <2>1, <2>4 DEF Sends
    <3>2. PICK p \in Plugins : p = f.p
          BY <1>1
    <3>3. Sends(x, p, q, k)
          BY <3>1, <3>2
    <3>4. ToSend(p, q, k)'
          BY <2>3, <3>3 DEF ToSend, Sends
    <3> QED BY <3>4 DEF Coming
  <2> QED BY <1>2, <1>7, <2>2, <2>4 DEF Serves
<1> QED BY <1>4, <1>8, <1>9

(* A link came or went: the dispatch is over. *)
LEMMA ChangedIs == ASSUME TypeOK, NEW w \in Workers, Changed(w) PROVE TypeOK' /\ Serves
<1>1. /\ Typed /\ stack[w] # <<>> /\ Top(w).at = "scan"
      BY TopHas DEF Changed
<1>2. UNCHANGED <<linkVars, info, received, queue, got, chosen>> /\ Leave(w) /\ lost' \in Nat
      BY DEF Changed, Raises, TypeOK
<1>3. Becomes(w, {})
      BY <1>1, <1>2, Changes
<1>4. TypeOK'
      BY <1>2, <1>3 DEF TypeOK, linkVars, Becomes
<1>5. \A a, p, q, k : ~(Gone(a) /\ Sends(a, p, q, k))
      BY <1>1, <1>3, NotSending
<1> QED BY <1>2, <1>4, <1>5 DEF Serves

(* A selected link gets the packet: in a call, or in its queue. *)
LEMMA SendIs == ASSUME TypeOK, NEW w \in Workers, Send(w) PROVE TypeOK' /\ Serves
<1> DEFINE f == Top(w)
<1>1. /\ Typed /\ stack[w] # <<>> /\ f \in Frame /\ f.at = "send" /\ f.p \in Plugins /\ f.k \in Packets
      /\ f.todo \subseteq Plugins
      BY TopHas DEF Send
<1>2. PICK q \in f.todo :
        /\ Hand(f.k, q)
        /\ IF q \in Queued
           THEN /\ queue' = [queue EXCEPT ![q] = Append(@, f.k)]
                /\ Replace(w, [f EXCEPT !.todo = @ \ {q}])
           ELSE /\ stack' = [stack EXCEPT ![w] =
                     <<NewFrame("handle", q, f.k), [f EXCEPT !.todo = @ \ {q}]>> \o Tail(@)]
                /\ UNCHANGED queue
      BY DEF Send
<1> DEFINE n == [f EXCEPT !.todo = @ \ {q}]
           h == NewFrame("handle", q, f.k)
<1>3. UNCHANGED <<linkVars, info, received, chosen, lost>>
      BY DEF Send
<1>4. /\ n \in Frame /\ n.p = f.p /\ n.k = f.k /\ n.at = "send" /\ n.todo = f.todo \ {q} /\ q \in Plugins
      BY <1>1 DEF Frame
<1>5. h \in Frame
      BY <1>1 DEF Frame, NewFrame
<1>6. \/ q \in Queued /\ queue' = [queue EXCEPT ![q] = Append(@, f.k)] /\ Replace(w, n)
      \/ stack' = [stack EXCEPT ![w] = <<h, n>> \o Tail(@)] /\ queue' = queue
      BY <1>2
<1>7. /\ got' \in [Packets -> [Plugins -> 0..2]] /\ got'[f.k][q] > 0
      /\ \A j \in Packets, r \in Plugins : got[j][r] > 0 => got'[j][r] > 0
      BY <1>1, <1>2, <1>4, Handed
<1> HIDE DEF f, n, h
<1>8. queue' \in [Queued -> Seq(Packets)]
  <2>1. queue \in [Queued -> Seq(Packets)]
        BY <1>1 DEF Typed
  <2>2. CASE queue' = [queue EXCEPT ![q] = Append(@, f.k)] /\ q \in Queued
    <3>1. Append(queue[q], f.k) \in Seq(Packets)
          BY <1>1, <2>1, <2>2, Appended
    <3> QED BY <2>1, <2>2, <3>1
  <2> QED BY <1>6, <2>1, <2>2
<1>9. ASSUME NEW new, n \in new, Becomes(w, new) PROVE TypeOK' /\ Serves
  <2>1. TypeOK'
        BY <1>3, <1>7, <1>8, <1>9 DEF TypeOK, linkVars, Becomes
  <2>2. (\A g : Gone(g) => g = f) /\ n \in Held(stack'[w])
        BY <1>1, <1>9, WhatBecomes DEF f
  <2>3. ASSUME NEW g, NEW p, NEW r, NEW k, Gone(g), Sends(g, p, r, k) PROVE Coming(k, r)'
    <3>1. p = f.p /\ k = f.k /\ r \in f.todo
          BY <2>2, <2>3 DEF Sends
    <3>2. CASE r = q
          BY <1>7, <3>1, <3>2 DEF Coming
    <3>3. CASE r # q
      <4>1. Sends(n, p, r, k)
            BY <1>4, <3>1, <3>3 DEF Sends
      <4>2. ToSend(p, r, k)' /\ p \in Plugins
            BY <1>1, <2>2, <3>1, <4>1 DEF ToSend
      <4> QED BY <4>2 DEF Coming
    <3> QED BY <3>2, <3>3
  <2> QED BY <1>3, <1>7, <2>1, <2>3 DEF Serves
<1>10. CASE Replace(w, n)
  <2>1. Becomes(w, {n})
        BY <1>1, <1>4, <1>10, Changes
  <2> QED BY <1>9, <2>1
<1>11. CASE stack' = [stack EXCEPT ![w] = <<h, n>> \o Tail(@)]
  <2>1. Becomes(w, {h, n})
        BY <1>1, <1>4, <1>5, <1>11, Changes
  <2> QED BY <1>9, <2>1
<1> QED BY <1>6, <1>10, <1>11

LEMMA ReturnIs == ASSUME TypeOK, NEW w \in Workers, Return(w) PROVE TypeOK' /\ Serves
<1>1. Typed /\ stack[w] # <<>> /\ Leave(w) /\ Top(w).todo = {}
      BY TopHas DEF Return
<1>2. Becomes(w, {})
      BY <1>1, Changes
<1>3. TypeOK'
      BY <1>2 DEF Return, TypeOK, linkVars, Becomes
<1>4. \A a, p, q, k : ~(Gone(a) /\ Sends(a, p, q, k))
      BY <1>1, <1>2, WhatBecomes DEF Sends
<1> QED BY <1>3, <1>4 DEF Serves, Return

LEMMA ChosenStep == ASSUME ChosenInv, [Next]_vars PROVE ChosenInv'
<1>0. TypeOK
      BY DEF ChosenInv
<1>1. CASE UNCHANGED vars
      BY <1>1 DEF vars, linkVars, ChosenInv, TypeOK, Coming, ToSend
<1>2. ASSUME UNCHANGED <<got, chosen>>, TypeOK', \A g : ~Gone(g) PROVE ChosenInv'
  <2>1. Serves
        BY <1>2 DEF Serves
  <2> QED BY <1>2, <2>1, ChosenKeeps
<1>3. ASSUME NEW s \in Sources, Receive(s) PROVE ChosenInv'
  <2> DEFINE w == <<"capture", s>>
             f == NewFrame("read", s, received + 1)
  <2>1. /\ stack[w] = <<>> /\ stack' = [stack EXCEPT ![w] = <<f>>] /\ received' = received + 1
        /\ UNCHANGED <<linkVars, info, queue, got, chosen, lost>>
        BY <1>3 DEF Receive
  <2>2. f \in Frame /\ received + 1 \in 0..MaxPackets
        BY <1>0, <1>3, DispatchAssumption DEF TypeOK, Receive, NewFrame, Frame, Packets
  <2> HIDE DEF f, w
  <2>3. <<f>> \in Seq(Frame)
        BY <2>2
  <2> HIDE DEF Frame
  <2>4. stack' \in [Workers -> Seq(Frame)] /\ \A u \in Workers : u # w => stack'[u] = stack[u]
        BY <1>0, <2>1, <2>3 DEF TypeOK
  <2>5. TypeOK'
        BY <1>0, <2>1, <2>2, <2>4 DEF TypeOK, linkVars
  <2>6. \A g : ~Gone(g)
        BY <2>1, <2>4 DEF Gone, Held
  <2> QED BY <1>2, <2>1, <2>5, <2>6
<1>4. ASSUME NEW p \in Queued, Take(p) PROVE ChosenInv'
  <2> DEFINE w == <<"packet", p>>
             f == NewFrame("handle", p, Head(queue[p]))
  <2>1. /\ stack[w] = <<>> /\ stack' = [stack EXCEPT ![w] = <<f>>] /\ queue' = [queue EXCEPT ![p] = Tail(@)]
        /\ UNCHANGED <<linkVars, info, received, got, chosen, lost>>
        BY <1>4 DEF Take
  <2>2. queue[p] \in Seq(Packets) /\ queue[p] # <<>>
        BY <1>0, <1>4 DEF TypeOK, Take
  <2>3. Head(queue[p]) \in Packets /\ Tail(queue[p]) \in Seq(Packets)
        BY <2>2, Ends
  <2>4. f \in Frame
        BY <2>3, DispatchAssumption DEF NewFrame, Frame
  <2> HIDE DEF f, w
  <2>5. <<f>> \in Seq(Frame)
        BY <2>4
  <2>6. /\ stack' \in [Workers -> Seq(Frame)] /\ queue' \in [Queued -> Seq(Packets)]
        /\ \A u \in Workers : u # w => stack'[u] = stack[u]
        BY <1>0, <2>1, <2>3, <2>5 DEF TypeOK
  <2>7. TypeOK'
        BY <1>0, <2>1, <2>6 DEF TypeOK, linkVars
  <2>8. \A g : ~Gone(g)
        BY <2>1, <2>6 DEF Gone, Held
  <2> QED BY <1>2, <2>1, <2>7, <2>8
<1>5. ASSUME NEW w \in Workers, Work(w) PROVE ChosenInv'
  <2>1. TypeOK' /\ Serves
        BY <1>0, <1>5, HandleIs, ReadIs, SelectIs, LookIs, FoundIs, ChangedIs, SendIs, ReturnIs DEF Work
  <2> QED BY <2>1, ChosenKeeps
<1>6. CASE Control
  <2>1. UNCHANGED <<stack, got, chosen>>
        BY <1>6 DEF Control, Command, Link, LinkDirect, Unlink, UnlinkUnknown, UnlinkEverywhere
  <2>2. \A g : ~Gone(g)
        BY <2>1 DEF Gone
  <2> QED BY <1>0, <1>2, <1>6, <2>1, <2>2, TypeControl
<1> QED BY <1>1, <1>3, <1>4, <1>5, <1>6 DEF Next

LEMMA ChosenInit == ASSUME Init PROVE ChosenInv
<1>1. TypeOK
      BY DispatchAssumption DEF Init, TypeOK
<1>2. \A k \in Packets : chosen[k] = {}
      BY DEF Init
<1> QED BY <1>1, <1>2 DEF ChosenInv

(* The type invariant (plugin.py, framework.py): whatever links are made and unmade. *)
THEOREM TypesHold == Spec => []TypeOK
<1>1. ChosenInv => TypeOK
      BY DEF ChosenInv
<1> QED BY <1>1, ChosenInit, ChosenStep, PTL DEF Spec

(* Failures stay where they are (the loop of __dispatch(), plugin.py 408-415): whatever      *)
(* links are made and unmade, however many threads share a packet and whichever dispatches    *)
(* end in an exception, everybody that a plugin selected for a packet has got it when the     *)
(* packet has come to rest.                                                              *)
THEOREM SelectedGetItHolds == Spec => []SelectedGetIt
<1>1. ChosenInv => SelectedGetIt
  <2> SUFFICES ASSUME ChosenInv, NEW k \in 1..received, Quiet(k), NEW q \in chosen[k]
               PROVE  got[k][q] > 0
      BY DEF SelectedGetIt
  <2>1. k \in Packets
        BY DispatchAssumption DEF ChosenInv, TypeOK, Packets
  <2>2. Coming(k, q)
        BY <2>1 DEF ChosenInv
  <2>3. \A p : ~ToSend(p, q, k)
        BY DEF Quiet, ToSend, Sends, Held
  <2> QED BY <2>2, <2>3 DEF Coming
<1> QED BY <1>1, ChosenInit, ChosenStep, PTL DEF Spec
=============================================================================
