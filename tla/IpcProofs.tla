------------------------------ MODULE IpcProofs -----------------------------
(***************************************************************************)
(* Proofs about Ipc, for any plugins, callers and methods: whoever waits for   *)
(* an answer holds the lock, and the answer it finds is its own.              *)
(***************************************************************************)
EXTENDS Ipc, TLAPS

(* A nested call makes no call of its own; its number is one of the second half. *)
Fits(n, m) == n <= MaxCalls \/ Nested[m] = NoCall

Depth ==
  /\ \A s \in Servers : \A i \in DOMAIN req[s] : Fits(req[s][i].id, req[s][i].m)
  /\ \A t \in Threads : pc[t] = "lock" => Fits(id[t], call[t].m)

TypeInv == TypeOK /\ Depth

-----------------------------------------------------------------------------
LEMMA Names ==
  /\ Plugins \subseteq Servers /\ Servers \subseteq Threads /\ Callers \subseteq Threads
  /\ None \notin Threads /\ Callers \cap Servers = {}
  /\ NoCall \notin Calls
  /\ \A a \in Calls : a.via \in Plugins /\ a.to \in Servers /\ a.m \in Methods
  /\ MaxCalls \in Nat
  BY IpcAssumption DEF Servers, Threads, Calls, NoCall

LEMMA InitType == Init => TypeInv
<1> SUFFICES ASSUME Init PROVE TypeInv
  OBVIOUS
<1>1. 0 \in 0..MaxCalls
  BY Names
<1>2. TypeOK
  <2>1. req \in [Servers -> Seq(Requests)] /\ ret \in [Plugins -> Seq(Ids)]
    BY DEF Init
  <2>2. /\ holder \in [Plugins -> Threads \cup {None}]
        /\ job \in [Servers -> Requests \cup {NoJob}]
        /\ call \in [Threads -> Calls \cup {NoCall}] /\ id \in [Threads -> Ids \cup {0}]
    BY DEF Init
  <2>3. /\ \A t \in Threads : pc[t] = "free"
        /\ \A s \in Servers : pc[s] = "free"
    BY Names DEF Init
  <2> QED BY <1>1, <2>1, <2>2, <2>3 DEF Init, TypeOK
<1>3. Depth
  BY DEF Init, Depth
<1> QED BY <1>2, <1>3 DEF TypeInv

(* A queue with an element more, or without its first one. *)
LEMMA Appended ==
  ASSUME NEW S, NEW q \in Seq(S), NEW x \in S
  PROVE  /\ Append(q, x) \in Seq(S)
         /\ DOMAIN Append(q, x) = DOMAIN q \cup {Len(q) + 1}
         /\ \A i \in DOMAIN q : Append(q, x)[i] = q[i]
         /\ Append(q, x)[Len(q) + 1] = x
         /\ Len(q) + 1 \notin DOMAIN q
  OBVIOUS

LEMMA Removed ==
  ASSUME NEW S, NEW q \in Seq(S), q # <<>>
  PROVE  /\ Tail(q) \in Seq(S) /\ Head(q) \in S
         /\ 1 \in DOMAIN q /\ Head(q) = q[1]
         /\ \A i \in DOMAIN Tail(q) : i \in Nat /\ i + 1 \in DOMAIN q /\ i + 1 # 1
                                        /\ Tail(q)[i] = q[i + 1]
  OBVIOUS

LEMMA AskType ==
  ASSUME TypeInv, NEW c \in Callers, NEW a \in Asks[c], Ask(c, a)
  PROVE  TypeInv'
<1>1. a \in Calls /\ c \in Threads /\ c \notin Servers
  BY Names, IpcAssumption
<1>2. issued + 1 \in Ids /\ issued + 1 \in 0..MaxCalls /\ issued + 1 <= MaxCalls
      /\ issued + 1 # 0
  BY Names DEF TypeInv, TypeOK, Ask, Ids
<1>3. TypeOK'
  BY <1>1, <1>2, Names DEF TypeInv, TypeOK, Ask, Begin
<1>4. Depth'
  BY <1>1, <1>2 DEF TypeInv, TypeOK, Depth, Fits, Ask, Begin
<1> QED BY <1>3, <1>4 DEF TypeInv

(* The request that a thread puts in the queue of who is to serve it. *)
RequestOf(t) == [id |-> id[t], ret |-> call[t].via, m |-> call[t].m]

LEMMA TakeLockType ==
  ASSUME TypeInv, NEW t \in Threads, TakeLock(t)
  PROVE  TypeInv'
<1>1. /\ call[t] \in Calls /\ id[t] \in Ids /\ pc[t] = "lock"
      /\ t \in Servers => job[t] # NoJob
  BY DEF TypeInv, TypeOK, TakeLock
<1>2. RequestOf(t) \in Requests /\ call[t].to \in Servers
  BY <1>1, Names DEF RequestOf, Requests
<1>3. /\ req' = [req EXCEPT ![call[t].to] = Append(@, RequestOf(t))]
      /\ pc' = [pc EXCEPT ![t] = "wait"]
      /\ holder' = [holder EXCEPT ![call[t].via] = t]
      /\ UNCHANGED <<ret, call, id, job, shutdown, dead, issued>>
  BY DEF TakeLock, Put, RequestOf
<1>4. req' \in [Servers -> Seq(Requests)]
  <2>1. req[call[t].to] \in Seq(Requests)
    BY <1>2 DEF TypeInv, TypeOK
  <2> QED BY <1>2, <1>3, <2>1, Appended DEF TypeInv, TypeOK
<1>5. TypeOK'
  BY <1>1, <1>3, <1>4, Names DEF TypeInv, TypeOK
<1>6. Depth'
  <2>1. \A u \in Threads : pc'[u] = "lock" => Fits(id'[u], call'[u].m)
    BY <1>3 DEF TypeInv, TypeOK, Depth
  <2>2. ASSUME NEW s \in Servers, NEW i \in DOMAIN req'[s]
        PROVE  Fits(req'[s][i].id, req'[s][i].m)
    <3>1. req[s] \in Seq(Requests)
      BY DEF TypeInv, TypeOK
    <3>2. CASE s # call[t].to
      BY <1>3, <3>2 DEF TypeInv, TypeOK, Depth
    <3>3. CASE s = call[t].to
      <4>1. req'[s] = Append(req[s], RequestOf(t))
        BY <1>3, <3>3 DEF TypeInv, TypeOK
      <4>2. CASE i \in DOMAIN req[s]
        BY <1>2, <3>1, <4>1, <4>2, Appended DEF TypeInv, Depth
      <4>3. CASE i = Len(req[s]) + 1
        <5>1. req'[s][i] = RequestOf(t)
          BY <1>2, <3>1, <4>1, <4>3, Appended
        <5> QED BY <1>1, <5>1 DEF TypeInv, Depth, RequestOf
      <4> QED BY <1>2, <3>1, <4>1, <4>2, <4>3, Appended
    <3> QED BY <3>2, <3>3
  <2> QED BY <2>1, <2>2 DEF Depth
<1> QED BY <1>5, <1>6 DEF TypeInv

LEMMA AnswerType ==
  ASSUME TypeInv, NEW t \in Threads, Answer(t)
  PROVE  TypeInv'
<1>1. /\ call[t] \in Calls /\ pc[t] = "wait"
      /\ t \in Servers => job[t] # NoJob
      /\ ret[call[t].via] # <<>>
  BY DEF TypeInv, TypeOK, Answer
<1>2. ret' \in [Plugins -> Seq(Ids)]
  <2>1. ret[call[t].via] \in Seq(Ids)
    BY <1>1, Names DEF TypeInv, TypeOK
  <2>2. Tail(ret[call[t].via]) \in Seq(Ids)
    BY <1>1, <2>1, Removed
  <2> QED BY <2>2 DEF TypeInv, TypeOK, Answer
<1>3. TypeOK'
  BY <1>1, <1>2, Names DEF TypeInv, TypeOK, Answer
<1>4. Depth'
  BY DEF TypeInv, TypeOK, Depth, Answer
<1> QED BY <1>3, <1>4 DEF TypeInv

LEMMA ServeType ==
  ASSUME TypeInv, NEW s \in Servers, Serve(s)
  PROVE  TypeInv'
<1> DEFINE r == Head(req[s])
<1>1. req[s] \in Seq(Requests) /\ req[s] # <<>> /\ pc[s] = "free" /\ s \in Threads
  BY Names DEF TypeInv, TypeOK, Serve
<1>2. r \in Requests /\ Tail(req[s]) \in Seq(Requests) /\ Fits(r.id, r.m)
  <2>1. 1 \in DOMAIN req[s] /\ r = req[s][1]
    BY <1>1, Removed
  <2> QED BY <1>1, <2>1, Removed DEF TypeInv, Depth
<1>3. r # NoJob /\ r.m \in Methods /\ r.id \in Ids
  <2>1. r.id \in Ids /\ r.m \in Methods
    BY <1>2 DEF Requests
  <2>2. 0 \notin Ids
    BY DEF Ids
  <2> QED BY <2>1, <2>2 DEF NoJob
<1>4. /\ job' = [job EXCEPT ![s] = r]
      /\ shutdown' = [shutdown EXCEPT ![s] = @ \/ r.m \in Shutdown]
      /\ req' = [req EXCEPT ![s] = Tail(@)]
      /\ UNCHANGED <<holder, ret, dead, issued>>
  BY DEF Serve
<1>5. req' \in [Servers -> Seq(Requests)]
  BY <1>2, <1>4 DEF TypeInv, TypeOK
<1>6. \A u \in Servers : \A i \in DOMAIN req'[u] : Fits(req'[u][i].id, req'[u][i].m)
  <2> SUFFICES ASSUME NEW u \in Servers, NEW i \in DOMAIN req'[u]
               PROVE  Fits(req'[u][i].id, req'[u][i].m)
    OBVIOUS
  <2>1. CASE u # s
    BY <1>4, <2>1 DEF TypeInv, TypeOK, Depth
  <2>2. CASE u = s
    <3>1. req'[s] = Tail(req[s])
      BY <1>4 DEF TypeInv, TypeOK
    <3>2. i + 1 \in DOMAIN req[s] /\ req'[s][i] = req[s][i + 1]
      BY <1>1, <2>2, <3>1, Removed
    <3> QED BY <2>2, <3>2 DEF TypeInv, Depth
  <2> QED BY <2>1, <2>2
<1>7. shutdown' \in [Servers -> BOOLEAN] /\ job' \in [Servers -> Requests \cup {NoJob}]
  BY <1>2, <1>4 DEF TypeInv, TypeOK
<1>8. CASE Nested[r.m] = NoCall
  <2>1. pc' = [pc EXCEPT ![s] = "reply"] /\ UNCHANGED <<call, id>>
    BY <1>8 DEF Serve
  <2>2. TypeOK'
    BY <1>1, <1>3, <1>4, <1>5, <1>7, <2>1 DEF TypeInv, TypeOK
  <2>3. Depth'
    BY <1>6, <2>1 DEF TypeInv, TypeOK, Depth
  <2> QED BY <2>2, <2>3 DEF TypeInv
<1>9. CASE Nested[r.m] # NoCall
  <2>1. /\ call' = [call EXCEPT ![s] = Nested[r.m]]
        /\ id' = [id EXCEPT ![s] = r.id + MaxCalls]
        /\ pc' = [pc EXCEPT ![s] = "lock"]
    BY <1>9 DEF Serve, Begin
  <2>2. Nested[r.m] \in Calls /\ Nested[Nested[r.m].m] = NoCall
    BY <1>3, <1>9, IpcAssumption
  <2>3. r.id + MaxCalls \in Ids /\ r.id + MaxCalls # 0
    BY <1>2, <1>3, <1>9, Names DEF Ids, Fits
  <2>4. TypeOK'
    BY <1>1, <1>3, <1>4, <1>5, <1>7, <1>9, <2>1, <2>2, <2>3 DEF TypeInv, TypeOK
  <2>5. Depth'
    BY <1>1, <1>6, <2>1, <2>2 DEF TypeInv, TypeOK, Depth, Fits
  <2> QED BY <2>4, <2>5 DEF TypeInv
<1> QED BY <1>8, <1>9

LEMMA ReplyType ==
  ASSUME TypeInv, NEW s \in Servers, Reply(s)
  PROVE  TypeInv'
<1>1. job[s] \in Requests /\ s \in Threads /\ pc[s] = "reply"
  BY Names DEF TypeInv, TypeOK, Reply
<1>2. job[s].ret \in Plugins /\ job[s].id \in Ids
  BY <1>1 DEF Requests
<1>3. ret' \in [Plugins -> Seq(Ids)]
  <2>1. ret[job[s].ret] \in Seq(Ids)
    BY <1>2 DEF TypeInv, TypeOK
  <2>2. Append(ret[job[s].ret], job[s].id) \in Seq(Ids)
    BY <1>2, <2>1, Appended
  <2> QED BY <2>2 DEF TypeInv, TypeOK, Reply
<1>4. TypeOK'
  BY <1>1, <1>3 DEF TypeInv, TypeOK, Reply
<1>5. Depth'
  BY DEF TypeInv, TypeOK, Depth, Reply
<1> QED BY <1>4, <1>5 DEF TypeInv

LEMMA EndType ==
  ASSUME TypeInv, (\E s \in Servers : ServerExit(s) \/ StopServer(s))
                     \/ \E p \in Plugins : PluginDies(p)
  PROVE  TypeInv'
<1>1. CASE \E s \in Servers : ServerExit(s)
  BY <1>1, Names DEF TypeInv, TypeOK, Depth, ServerExit
<1>2. CASE \E s \in Servers : StopServer(s)
  BY <1>2 DEF TypeInv, TypeOK, Depth, StopServer
<1>3. CASE \E p \in Plugins : PluginDies(p)
  BY <1>3 DEF TypeInv, TypeOK, Depth, PluginDies
<1> QED BY <1>1, <1>2, <1>3

LEMMA StepType == TypeInv /\ [Next]_vars => TypeInv'
<1> SUFFICES ASSUME TypeInv, [Next]_vars PROVE TypeInv'
  OBVIOUS
<1>1. CASE UNCHANGED vars
  BY <1>1 DEF TypeInv, TypeOK, Depth, vars
<1> QED BY <1>1, AskType, TakeLockType, AnswerType, ServeType, ReplyType, EndType
        DEF Next, Server

(* The types; numbers of calls stay in their range because a method that a nested *)
(* call runs makes no call.                                                      *)
THEOREM Types == Spec => []TypeOK
<1>1. TypeInv => TypeOK
  BY DEF TypeInv
<1> QED BY <1>1, InitType, StepType, PTL DEF Spec
-----------------------------------------------------------------------------
(* A lock is held by the thread that waits for an answer under it. *)
Holders ==
  /\ \A t \in Threads : pc[t] = "wait" => holder[call[t].via] = t
  /\ \A p \in Plugins : holder[p] # None =>
       pc[holder[p]] = "wait" /\ call[holder[p]].via = p

Busy(s) == pc[s] \in {"lock", "wait", "reply"}

(* What is on its way through a return queue was put there by the holder of its    *)
(* lock; p is the plugin, n the number of the call.                               *)
HeldBy(p, n) == holder[p] # None /\ n = id[holder[p]]

(* A request in a queue is all there is on its way through its return queue, *)
Waiting ==
  \A s \in Servers : \A i \in DOMAIN req[s] :
    /\ HeldBy(req[s][i].ret, req[s][i].id)
    /\ ret[req[s][i].ret] = <<>>
    /\ \A u \in Servers : Busy(u) => job[u].ret # req[s][i].ret
    /\ \A u \in Servers : \A j \in DOMAIN req[u] :
         req[u][j].ret = req[s][i].ret => u = s /\ j = i

(* and so is a request being served, *)
InService ==
  \A s \in Servers : Busy(s) =>
    /\ HeldBy(job[s].ret, job[s].id)
    /\ ret[job[s].ret] = <<>>
    /\ \A u \in Servers : Busy(u) /\ job[u].ret = job[s].ret => u = s

(* and an answer. *)
Answered ==
  \A p \in Plugins : ret[p] # <<>> =>
    /\ holder[p] # None
    /\ ret[p] = <<id[holder[p]]>>

AnswerInv == TypeInv /\ Holders /\ Waiting /\ InService /\ Answered

LEMMA InitAnswer == Init => AnswerInv
  BY InitType, Names DEF Init, AnswerInv, Holders, Waiting, InService, Answered, Busy

(* Typing facts in the form the steps need them. *)
LEMMA Typing ==
  ASSUME TypeInv
  PROVE  /\ \A s \in Servers : req[s] \in Seq(Requests)
         /\ \A s \in Servers : \A i \in DOMAIN req[s] : req[s][i] \in Requests
         /\ \A s \in Servers : Busy(s) => job[s] \in Requests
         /\ \A t \in Threads : pc[t] \in {"lock", "wait"} => call[t] \in Calls
         /\ \A p \in Plugins : ret[p] \in Seq(Ids)
         /\ \A x \in Requests : x.ret \in Plugins
<1>1. \A s \in Servers : req[s] \in Seq(Requests)
  BY DEF TypeInv, TypeOK
<1>2. \A s \in Servers : Busy(s) => job[s] \in Requests
  BY DEF TypeInv, TypeOK, Busy
<1>3. \A t \in Threads : pc[t] \in {"lock", "wait"} => call[t] \in Calls
  BY DEF TypeInv, TypeOK
<1>4. \A p \in Plugins : ret[p] \in Seq(Ids)
  BY DEF TypeInv, TypeOK
<1>5. \A x \in Requests : x.ret \in Plugins
  BY DEF Requests
<1> QED BY <1>1, <1>2, <1>3, <1>4, <1>5

(* A step that begins or ends a thread's work, but not a wait, and leaves the      *)
(* queues, locks and jobs alone.                                                  *)
LEMMA AskAnswer ==
  ASSUME AnswerInv, NEW c \in Callers, NEW a \in Asks[c], Ask(c, a)
  PROVE  Holders' /\ Waiting' /\ InService' /\ Answered'
<1>1. /\ c \in Threads /\ c \notin Servers /\ pc[c] = "free"
      /\ \A p \in Plugins : holder[p] # None => holder[p] # c /\ holder[p] \in Threads
  BY Names DEF AnswerInv, TypeInv, TypeOK, Holders, Ask
<1>2. /\ UNCHANGED <<holder, req, ret, job>>
      /\ \A t \in Threads \ {c} : pc'[t] = pc[t] /\ id'[t] = id[t] /\ call'[t] = call[t]
      /\ pc'[c] = "lock"
  BY <1>1 DEF AnswerInv, TypeInv, TypeOK, Ask, Begin
<1>3. Holders'
  BY <1>1, <1>2 DEF AnswerInv, Holders
<1>4. \A s \in Servers : Busy(s)' = Busy(s)
  BY <1>1, <1>2, Names DEF Busy
<1>5. \A p \in Plugins : holder[p] # None => id'[holder'[p]] = id[holder[p]]
  BY <1>1, <1>2
<1>6. Waiting'
  BY <1>2, <1>4, <1>5, Typing DEF AnswerInv, Waiting, HeldBy
<1>7. InService'
  BY <1>2, <1>4, <1>5, Typing DEF AnswerInv, InService, HeldBy
<1>8. Answered'
  BY <1>2, <1>5 DEF AnswerInv, Answered
<1> QED BY <1>3, <1>6, <1>7, <1>8

LEMMA TakeLockAnswer ==
  ASSUME AnswerInv, NEW t \in Threads, TakeLock(t)
  PROVE  Holders' /\ Waiting' /\ InService' /\ Answered'
<1> DEFINE v == call[t].via
           w == call[t].to
<1>1. /\ call[t] \in Calls /\ id[t] \in Ids /\ pc[t] = "lock" /\ holder[v] = None
      /\ v \in Plugins /\ w \in Servers
  BY Names DEF AnswerInv, TypeInv, TypeOK, TakeLock
<1>2. RequestOf(t) \in Requests
  BY <1>1, Names DEF RequestOf, Requests
<1>3. /\ req' = [req EXCEPT ![w] = Append(@, RequestOf(t))]
      /\ pc' = [pc EXCEPT ![t] = "wait"]
      /\ holder' = [holder EXCEPT ![v] = t]
      /\ UNCHANGED <<ret, call, id, job>>
  BY DEF TakeLock, Put, RequestOf
<1>4. /\ holder'[v] = t
      /\ \A p \in Plugins \ {v} : holder'[p] = holder[p]
      /\ pc'[t] = "wait"
      /\ \A u \in Threads \ {t} : pc'[u] = pc[u]
  BY <1>1, <1>3 DEF AnswerInv, TypeInv, TypeOK
<1>5. \A s \in Servers : Busy(s)' = Busy(s)
  BY <1>1, <1>4, Names DEF Busy
<1>6. \A p \in Plugins : holder[p] # None => p # v /\ holder[p] \in Threads /\ holder[p] # t
  BY <1>1 DEF AnswerInv, TypeInv, TypeOK, Holders
<1>7. Holders'
  <2>1. ASSUME NEW u \in Threads, pc'[u] = "wait" PROVE holder'[call'[u].via] = u
    <3>1. CASE u = t
      BY <1>3, <1>4, <3>1
    <3>2. CASE u # t
      <4>1. pc[u] = "wait" /\ holder[call[u].via] = u /\ call[u].via \in Plugins
        BY <1>4, <2>1, <3>2, Typing, Names DEF AnswerInv, Holders
      <4>2. call[u].via # v
        BY <1>1, <4>1, Names
      <4> QED BY <1>3, <1>4, <4>1, <4>2
    <3> QED BY <3>1, <3>2
  <2>2. ASSUME NEW p \in Plugins, holder'[p] # None
        PROVE  pc'[holder'[p]] = "wait" /\ call'[holder'[p]].via = p
    BY <1>3, <1>4, <1>6, <2>2 DEF AnswerInv, Holders
  <2> QED BY <2>1, <2>2 DEF Holders
(* Nothing was on its way through v's return queue. *)
<1>8. /\ ret[v] = <<>>
      /\ \A s \in Servers : Busy(s) => job[s].ret # v
      /\ \A s \in Servers : \A i \in DOMAIN req[s] : req[s][i].ret # v
  BY <1>1 DEF AnswerInv, Waiting, InService, Answered, HeldBy
<1>9. /\ \A s \in Servers \ {w} : req'[s] = req[s]
      /\ DOMAIN req'[w] = DOMAIN req[w] \cup {Len(req[w]) + 1}
      /\ \A i \in DOMAIN req[w] : req'[w][i] = req[w][i]
      /\ req'[w][Len(req[w]) + 1] = RequestOf(t)
      /\ Len(req[w]) + 1 \notin DOMAIN req[w]
  <2>1. req[w] \in Seq(Requests)
    BY <1>1, Typing DEF AnswerInv
  <2>2. req'[w] = Append(req[w], RequestOf(t)) /\ \A s \in Servers \ {w} : req'[s] = req[s]
    BY <1>1, <1>3 DEF AnswerInv, TypeInv, TypeOK
  <2> QED BY <1>2, <2>1, <2>2, Appended
<1>10. RequestOf(t).ret = v /\ RequestOf(t).id = id[t]
  BY DEF RequestOf
(* An element of a queue is the new one, or an old one, of another plugin. *)
<1>11. ASSUME NEW s \in Servers, NEW i \in DOMAIN req'[s]
       PROVE  \/ s = w /\ i = Len(req[w]) + 1 /\ req'[s][i] = RequestOf(t)
              \/ /\ i \in DOMAIN req[s] /\ req'[s][i] = req[s][i]
                 /\ req[s][i].ret \in Plugins \ {v}
                 /\ holder[req[s][i].ret] # None
  <2>1. CASE i \in DOMAIN req[s]
    <3>1. req'[s][i] = req[s][i]
      BY <1>9, <2>1
    <3>2. req[s][i].ret \in Plugins \ {v} /\ holder[req[s][i].ret] # None
      BY <1>8, <2>1, Typing DEF AnswerInv, Waiting, HeldBy
    <3> QED BY <2>1, <3>1, <3>2
  <2>2. CASE i \notin DOMAIN req[s]
    BY <1>9, <2>2
  <2> QED BY <2>1, <2>2
<1>12. Waiting'
  <2> SUFFICES ASSUME NEW s \in Servers, NEW i \in DOMAIN req'[s]
               PROVE  /\ HeldBy(req[s][i].ret, req[s][i].id)'
                      /\ ret'[req'[s][i].ret] = <<>>
                      /\ \A u \in Servers : Busy(u)' => job'[u].ret # req'[s][i].ret
                      /\ \A u \in Servers : \A j \in DOMAIN req'[u] :
                           req'[u][j].ret = req'[s][i].ret => u = s /\ j = i
    BY DEF Waiting
  <2>1. CASE s = w /\ i = Len(req[w]) + 1 /\ req'[s][i] = RequestOf(t)
    <3>1. HeldBy(req[s][i].ret, req[s][i].id)'
      <4>1. req'[s][i].ret = v /\ req'[s][i].id = id[t]
        BY <1>10, <2>1
      <4>2. holder'[v] = t /\ id'[t] = id[t] /\ t # None
        BY <1>3, <1>4, Names
      <4> QED BY <4>1, <4>2 DEF HeldBy
    <3>2. ret'[req'[s][i].ret] = <<>> /\ \A u \in Servers : Busy(u)' => job'[u].ret # req'[s][i].ret
      BY <1>3, <1>5, <1>8, <1>10, <2>1
    <3>3. \A u \in Servers : \A j \in DOMAIN req'[u] :
            req'[u][j].ret = req'[s][i].ret => u = s /\ j = i
      BY <1>10, <1>11, <2>1
    <3> QED BY <3>1, <3>2, <3>3
  <2>2. CASE /\ i \in DOMAIN req[s] /\ req'[s][i] = req[s][i]
             /\ req[s][i].ret \in Plugins \ {v}
             /\ holder[req[s][i].ret] # None
    <3>1. HeldBy(req[s][i].ret, req[s][i].id)'
      <4>1. HeldBy(req[s][i].ret, req[s][i].id)
        BY <2>2 DEF AnswerInv, Waiting
      <4>2. holder'[req[s][i].ret] = holder[req[s][i].ret] /\ id' = id
        BY <1>3, <1>4, <2>2
      <4> QED BY <2>2, <4>1, <4>2 DEF HeldBy
    <3>2. ret'[req'[s][i].ret] = <<>> /\ \A u \in Servers : Busy(u)' => job'[u].ret # req'[s][i].ret
      BY <1>3, <1>5, <2>2 DEF AnswerInv, Waiting
    <3>3. \A u \in Servers : \A j \in DOMAIN req'[u] :
            req'[u][j].ret = req'[s][i].ret => u = s /\ j = i
      BY <1>10, <1>11, <2>2 DEF AnswerInv, Waiting
    <3> QED BY <3>1, <3>2, <3>3
  <2> QED BY <1>11, <2>1, <2>2
<1>13. InService'
  <2> SUFFICES ASSUME NEW s \in Servers, Busy(s)
               PROVE  /\ HeldBy(job[s].ret, job[s].id)'
                      /\ ret'[job'[s].ret] = <<>>
                      /\ \A u \in Servers : Busy(u) /\ job'[u].ret = job'[s].ret => u = s
    BY <1>5 DEF InService
  <2>1. job[s].ret \in Plugins \ {v} /\ holder[job[s].ret] # None
    BY <1>8, Typing DEF AnswerInv, InService, HeldBy
  <2> QED BY <1>3, <1>4, <2>1 DEF AnswerInv, InService, HeldBy
<1>14. Answered'
  BY <1>3, <1>4, <1>8 DEF AnswerInv, Answered
<1> QED BY <1>7, <1>12, <1>13, <1>14

LEMMA TakeAnswer ==
  ASSUME AnswerInv, NEW t \in Threads, Answer(t)
  PROVE  Holders' /\ Waiting' /\ InService' /\ Answered'
<1> DEFINE v == call[t].via
<1>1. pc[t] = "wait" /\ v \in Plugins /\ holder[v] = t /\ ret[v] # <<>> /\ ret[v] = <<id[t]>>
  BY Typing, Names DEF AnswerInv, Holders, Answered, Answer
<1>2. /\ ret' = [ret EXCEPT ![v] = <<>>]
      /\ holder' = [holder EXCEPT ![v] = None]
      /\ pc' = [pc EXCEPT ![t] = IF t \in Servers THEN "reply" ELSE "free"]
      /\ UNCHANGED <<req, call, id, job>>
  <2>1. Tail(ret[v]) = <<>>
    BY <1>1
  <2> QED BY <2>1 DEF Answer
<1>3. /\ holder'[v] = None /\ ret'[v] = <<>>
      /\ \A p \in Plugins \ {v} : holder'[p] = holder[p] /\ ret'[p] = ret[p]
      /\ pc'[t] # "wait"
      /\ \A u \in Threads \ {t} : pc'[u] = pc[u]
      /\ t \in Servers => pc'[t] = "reply"
  BY <1>1, <1>2 DEF AnswerInv, TypeInv, TypeOK
<1>4. \A s \in Servers : Busy(s)' = Busy(s)
  BY <1>1, <1>3, Names DEF Busy
<1>5. Holders'
  <2>1. ASSUME NEW u \in Threads, pc'[u] = "wait" PROVE holder'[call'[u].via] = u
    <3>1. u # t /\ pc[u] = "wait" /\ holder[call[u].via] = u /\ call[u].via \in Plugins
      BY <1>3, <2>1, Typing, Names DEF AnswerInv, Holders
    <3>2. call[u].via # v
      BY <1>1, <3>1
    <3> QED BY <1>2, <1>3, <3>1, <3>2
  <2>2. ASSUME NEW p \in Plugins, holder'[p] # None
        PROVE  pc'[holder'[p]] = "wait" /\ call'[holder'[p]].via = p
    <3>1. p # v /\ holder'[p] = holder[p] /\ pc[holder[p]] = "wait" /\ call[holder[p]].via = p
      BY <1>3, <2>2 DEF AnswerInv, Holders
    <3>2. holder[p] # t /\ holder[p] \in Threads
      BY <2>2, <3>1 DEF AnswerInv, TypeInv, TypeOK
    <3> QED BY <1>2, <1>3, <3>1, <3>2
  <2> QED BY <2>1, <2>2 DEF Holders
(* The answer was all that was on its way. *)
<1>6. /\ \A s \in Servers : Busy(s) => job[s].ret \in Plugins \ {v}
      /\ \A s \in Servers : \A i \in DOMAIN req[s] : req[s][i].ret \in Plugins \ {v}
  <2>1. ASSUME NEW s \in Servers, Busy(s) PROVE job[s].ret \in Plugins \ {v}
    BY <1>1, <2>1, Typing DEF AnswerInv, InService
  <2>2. ASSUME NEW s \in Servers, NEW i \in DOMAIN req[s]
        PROVE  req[s][i].ret \in Plugins \ {v}
    <3>1. req[s][i].ret \in Plugins
      BY Typing DEF AnswerInv
    <3>2. ret[req[s][i].ret] = <<>>
      BY DEF AnswerInv, Waiting
    <3> QED BY <1>1, <3>1, <3>2
  <2> QED BY <2>1, <2>2
<1>7. Waiting'
  BY <1>2, <1>3, <1>4, <1>6 DEF AnswerInv, Waiting, HeldBy
<1>8. InService'
  BY <1>2, <1>3, <1>4, <1>6 DEF AnswerInv, InService, HeldBy
<1>9. Answered'
  BY <1>2, <1>3 DEF AnswerInv, Answered
<1> QED BY <1>5, <1>7, <1>8, <1>9

LEMMA ServeAnswer ==
  ASSUME AnswerInv, NEW s \in Servers, Serve(s)
  PROVE  Holders' /\ Waiting' /\ InService' /\ Answered'
<1> DEFINE r == Head(req[s])
<1>1. /\ s \in Threads /\ pc[s] = "free" /\ ~Busy(s)
      /\ \A p \in Plugins : holder[p] # None => holder[p] # s /\ holder[p] \in Threads
  BY Names DEF AnswerInv, TypeInv, TypeOK, Holders, Serve, Busy
<1>2. /\ job' = [job EXCEPT ![s] = r]
      /\ req' = [req EXCEPT ![s] = Tail(@)]
      /\ UNCHANGED <<holder, ret>>
  BY DEF Serve
<1>3. /\ \A u \in Threads \ {s} : pc'[u] = pc[u] /\ id'[u] = id[u] /\ call'[u] = call[u]
      /\ pc'[s] \in {"lock", "reply"}
  <2>1. CASE Nested[r.m] = NoCall
    BY <1>1, <2>1 DEF AnswerInv, TypeInv, TypeOK, Serve
  <2>2. CASE Nested[r.m] # NoCall
    BY <1>1, <2>2 DEF AnswerInv, TypeInv, TypeOK, Serve, Begin
  <2> QED BY <2>1, <2>2
<1>4. Holders'
  <2>1. ASSUME NEW u \in Threads, pc'[u] = "wait" PROVE holder'[call'[u].via] = u
    BY <1>2, <1>3, <2>1 DEF AnswerInv, Holders
  <2>2. ASSUME NEW p \in Plugins, holder'[p] # None
        PROVE  pc'[holder'[p]] = "wait" /\ call'[holder'[p]].via = p
    BY <1>1, <1>2, <1>3, <2>2 DEF AnswerInv, Holders
  <2> QED BY <2>1, <2>2 DEF Holders
<1>5. /\ Busy(s)'
      /\ \A u \in Servers \ {s} : Busy(u)' = Busy(u) /\ job'[u] = job[u] /\ req'[u] = req[u]
      /\ job'[s] = r
  BY <1>2, <1>3, Names DEF AnswerInv, TypeInv, TypeOK, Busy
<1>6. \A p \in Plugins : holder[p] # None =>
        holder'[p] = holder[p] /\ id'[holder'[p]] = id[holder[p]]
  BY <1>1, <1>2, <1>3
(* The request was the first of its queue. *)
<1>7. /\ 1 \in DOMAIN req[s] /\ r = req[s][1] /\ req'[s] = Tail(req[s])
      /\ \A i \in DOMAIN req'[s] : /\ i \in Nat /\ i + 1 \in DOMAIN req[s] /\ i + 1 # 1
                                   /\ req'[s][i] = req[s][i + 1]
  <2>1. req[s] \in Seq(Requests) /\ req[s] # <<>> /\ req'[s] = Tail(req[s])
    BY <1>2, Typing DEF AnswerInv, TypeInv, TypeOK, Serve
  <2> QED BY <2>1, Removed
<1>8. /\ r.ret \in Plugins /\ HeldBy(r.ret, r.id) /\ ret[r.ret] = <<>>
      /\ \A u \in Servers : Busy(u) => job[u].ret # r.ret
      /\ \A u \in Servers : \A j \in DOMAIN req[u] :
           req[u][j].ret = r.ret => u = s /\ j = 1
  BY <1>7, Typing DEF AnswerInv, Waiting
<1>9. InService'
  <2> SUFFICES ASSUME NEW u \in Servers, Busy(u)'
               PROVE  /\ HeldBy(job[u].ret, job[u].id)'
                      /\ ret'[job'[u].ret] = <<>>
                      /\ \A x \in Servers : Busy(x)' /\ job'[x].ret = job'[u].ret => x = u
    BY DEF InService
  <2>1. CASE u = s
    BY <1>2, <1>5, <1>6, <1>8, <2>1 DEF HeldBy
  <2>2. CASE u # s
    <3>1. /\ Busy(u) /\ job'[u] = job[u] /\ job[u].ret \in Plugins
          /\ HeldBy(job[u].ret, job[u].id) /\ ret[job[u].ret] = <<>>
          /\ \A x \in Servers : Busy(x) /\ job[x].ret = job[u].ret => x = u
      BY <1>5, <2>2, Typing DEF AnswerInv, InService
    <3>2. HeldBy(job[u].ret, job[u].id)'
      BY <1>6, <3>1 DEF HeldBy
    <3>3. \A x \in Servers : Busy(x)' /\ job'[x].ret = job'[u].ret => x = u
      BY <1>5, <1>8, <3>1
    <3> QED BY <1>2, <3>1, <3>2, <3>3
  <2> QED BY <2>1, <2>2
(* Every other element of a queue is one that was there before. *)
<1>10. \A u \in Servers : \A i \in DOMAIN req'[u] :
         \E k \in DOMAIN req[u] : /\ req'[u][i] = req[u][k]
                                  /\ u = s => k = i + 1 /\ k # 1 /\ i \in Nat
                                  /\ u # s => k = i
  BY <1>5, <1>7
<1>11. Waiting'
  <2> SUFFICES ASSUME NEW u \in Servers, NEW i \in DOMAIN req'[u]
               PROVE  /\ HeldBy(req[u][i].ret, req[u][i].id)'
                      /\ ret'[req'[u][i].ret] = <<>>
                      /\ \A x \in Servers : Busy(x)' => job'[x].ret # req'[u][i].ret
                      /\ \A x \in Servers : \A j \in DOMAIN req'[x] :
                           req'[x][j].ret = req'[u][i].ret => x = u /\ j = i
    BY DEF Waiting
  <2>1. PICK k \in DOMAIN req[u] : /\ req'[u][i] = req[u][k]
                                   /\ u = s => k = i + 1 /\ k # 1 /\ i \in Nat
                                   /\ u # s => k = i
    BY <1>10
  <2>2. /\ req[u][k].ret \in Plugins
        /\ HeldBy(req[u][k].ret, req[u][k].id) /\ ret[req[u][k].ret] = <<>>
        /\ \A x \in Servers : Busy(x) => job[x].ret # req[u][k].ret
        /\ \A x \in Servers : \A j \in DOMAIN req[x] :
             req[x][j].ret = req[u][k].ret => x = u /\ j = k
    BY Typing DEF AnswerInv, Waiting
  <2>3. HeldBy(req[u][i].ret, req[u][i].id)'
    <3>1. /\ holder[req[u][k].ret] # None /\ req[u][k].id = id[holder[req[u][k].ret]]
      BY <2>2 DEF HeldBy
    <3>2. /\ holder'[req[u][k].ret] # None
          /\ req[u][k].id = id'[holder'[req[u][k].ret]]
      BY <1>6, <2>2, <3>1
    <3>3. req'[u][i] = req[u][k]
      BY <2>1
    <3> QED BY <3>2, <3>3 DEF HeldBy
  <2>4. r.ret # req[u][k].ret
    <3> SUFFICES ASSUME r.ret = req[u][k].ret PROVE FALSE
      OBVIOUS
    <3>1. u = s /\ k = 1
      BY <1>8
    <3> QED BY <2>1, <3>1
  <2>5. \A x \in Servers : Busy(x)' => job'[x].ret # req'[u][i].ret
    <3>1. req'[u][i] = req[u][k]
      BY <2>1
    <3> QED BY <1>5, <2>2, <2>4, <3>1
  <2>6. ASSUME NEW x \in Servers, NEW j \in DOMAIN req'[x], req'[x][j].ret = req'[u][i].ret
        PROVE  x = u /\ j = i
    <3>1. PICK l \in DOMAIN req[x] : /\ req'[x][j] = req[x][l]
                                     /\ x = s => l = j + 1 /\ l # 1 /\ j \in Nat
                                     /\ x # s => l = j
      BY <1>10
    <3>2. req[x][l].ret = req[u][k].ret
      BY <2>1, <2>6, <3>1
    <3>3. x = u /\ l = k
      BY <2>2, <3>2
    <3>4. CASE u = s
      BY <2>1, <3>1, <3>3, <3>4
    <3>5. CASE u # s
      BY <2>1, <3>1, <3>3, <3>5
    <3> QED BY <3>4, <3>5
  <2>7. ret'[req'[u][i].ret] = <<>>
    <3>1. req'[u][i] = req[u][k]
      BY <2>1
    <3> QED BY <1>2, <2>2, <3>1
  <2> QED BY <2>3, <2>5, <2>6, <2>7
<1>12. Answered'
  BY <1>2, <1>6 DEF AnswerInv, Answered
<1> QED BY <1>4, <1>9, <1>11, <1>12

LEMMA ReplyAnswer ==
  ASSUME AnswerInv, NEW s \in Servers, Reply(s)
  PROVE  Holders' /\ Waiting' /\ InService' /\ Answered'
<1> DEFINE v == job[s].ret
<1>1. pc[s] = "reply" /\ s \in Threads /\ Busy(s) /\ v \in Plugins
  BY Typing, Names DEF AnswerInv, Reply, Busy
<1>2. /\ HeldBy(v, job[s].id) /\ ret[v] = <<>>
      /\ \A u \in Servers \ {s} : Busy(u) => job[u].ret # v
      /\ \A u \in Servers : \A i \in DOMAIN req[u] : req[u][i].ret # v
  BY <1>1 DEF AnswerInv, InService, Waiting
<1>3. /\ ret' = [ret EXCEPT ![v] = Append(@, job[s].id)]
      /\ pc' = [pc EXCEPT ![s] = "free"]
      /\ UNCHANGED <<holder, req, call, id, job>>
  BY DEF Reply
<1>4. /\ ret'[v] = <<id[holder[v]]>>
      /\ \A p \in Plugins \ {v} : ret'[p] = ret[p]
      /\ pc'[s] = "free" /\ \A u \in Threads \ {s} : pc'[u] = pc[u]
  <2>1. Append(ret[v], job[s].id) = <<id[holder[v]]>>
    BY <1>2 DEF HeldBy
  <2> QED BY <1>1, <1>3, <2>1 DEF AnswerInv, TypeInv, TypeOK
<1>5. /\ ~Busy(s)'
      /\ \A u \in Servers \ {s} : Busy(u)' = Busy(u)
  BY <1>4, Names DEF Busy
<1>6. Holders'
  <2>1. \A p \in Plugins : holder[p] # None => holder[p] # s /\ holder[p] \in Threads
    BY <1>1 DEF AnswerInv, TypeInv, TypeOK, Holders
  <2> QED BY <1>1, <1>3, <1>4, <2>1 DEF AnswerInv, Holders
<1>7. Waiting'
  <2>1. \A u \in Servers : \A i \in DOMAIN req[u] : req[u][i].ret \in Plugins \ {v}
    BY <1>2, Typing DEF AnswerInv
  <2> QED BY <1>3, <1>4, <1>5, <2>1 DEF AnswerInv, Waiting, HeldBy
<1>8. InService'
  <2>1. \A u \in Servers \ {s} : Busy(u) => job[u].ret \in Plugins \ {v}
    BY <1>2, Typing DEF AnswerInv
  <2> QED BY <1>3, <1>4, <1>5, <2>1 DEF AnswerInv, InService, HeldBy
<1>9. Answered'
  BY <1>2, <1>3, <1>4 DEF AnswerInv, Answered, HeldBy
<1> QED BY <1>6, <1>7, <1>8, <1>9

LEMMA EndAnswer ==
  ASSUME AnswerInv, (\E s \in Servers : ServerExit(s) \/ StopServer(s))
                       \/ \E p \in Plugins : PluginDies(p)
  PROVE  Holders' /\ Waiting' /\ InService' /\ Answered'
<1>1. CASE \E s \in Servers : ServerExit(s)
  <2>1. PICK s \in Servers : ServerExit(s)
    BY <1>1
  <2>2. /\ pc[s] = "free" /\ pc'[s] = "exited" /\ s \in Threads
        /\ \A u \in Threads \ {s} : pc'[u] = pc[u]
        /\ UNCHANGED <<holder, req, ret, call, id, job>>
    BY <2>1, Names DEF AnswerInv, TypeInv, TypeOK, ServerExit
  <2>3. \A u \in Servers : Busy(u)' = Busy(u)
    BY <2>2, Names DEF Busy
  <2>4. Holders'
    <3>1. \A p \in Plugins : holder[p] # None => holder[p] # s /\ holder[p] \in Threads
      BY <2>2 DEF AnswerInv, TypeInv, TypeOK, Holders
    <3> QED BY <2>2, <3>1 DEF AnswerInv, Holders
  <2> QED BY <2>2, <2>3, <2>4 DEF AnswerInv, Waiting, InService, Answered, HeldBy
<1>2. CASE (\E s \in Servers : StopServer(s)) \/ \E p \in Plugins : PluginDies(p)
  <2>1. UNCHANGED <<holder, req, ret, pc, call, id, job>>
    BY <1>2 DEF StopServer, PluginDies
  <2> QED BY <2>1 DEF AnswerInv, Holders, Waiting, InService, Answered, HeldBy, Busy
<1> QED BY <1>1, <1>2

LEMMA StepAnswer == AnswerInv /\ [Next]_vars => AnswerInv'
<1> SUFFICES ASSUME AnswerInv, [Next]_vars PROVE AnswerInv'
  OBVIOUS
<1>1. TypeInv'
  BY StepType DEF AnswerInv
<1>2. Holders' /\ Waiting' /\ InService' /\ Answered'
  <2>1. CASE UNCHANGED vars
    BY <2>1 DEF AnswerInv, Holders, Waiting, InService, Answered, HeldBy, Busy, vars
  <2> QED BY <2>1, AskAnswer, TakeLockAnswer, TakeAnswer, ServeAnswer, ReplyAnswer, EndAnswer
          DEF Next, Server
<1> QED BY <1>1, <1>2 DEF AnswerInv

(* What is on its way through a return queue is one request or answer, and it is    *)
(* that of the thread that holds the plugin's _ipc_lock.                           *)
THEOREM AnswerInvariant == Spec => []AnswerInv
<1> QED BY InitAnswer, StepAnswer, PTL DEF Spec

(* "lock IPC so we know the response will be to us": what a thread that waits     *)
(* finds in the return queue is the answer to its own call, whatever is called,    *)
(* nested, stopped or dead.                                                       *)
THEOREM OwnAnswerHolds == Spec => []OwnAnswer
<1>1. AnswerInv => OwnAnswer
  <2> SUFFICES ASSUME AnswerInv, NEW t \in Threads, pc[t] = "wait",
                      NEW i \in DOMAIN ret[call[t].via]
               PROVE  ret[call[t].via][i] = id[t]
    BY DEF OwnAnswer
  <2>1. call[t].via \in Plugins /\ holder[call[t].via] = t
    BY Typing, Names DEF AnswerInv, Holders
  <2>2. ret[call[t].via] # <<>>
    OBVIOUS
  <2>3. ret[call[t].via] = <<id[t]>>
    BY <2>1, <2>2 DEF AnswerInv, Answered
  <2> QED BY <2>3
<1> QED BY <1>1, AnswerInvariant, PTL

(* A thread that waits for an answer holds the lock; so no two wait under one.     *)
THEOREM WaitsWithLockHolds == Spec => []WaitsWithLock
<1>1. AnswerInv => WaitsWithLock
  BY DEF AnswerInv, Holders, WaitsWithLock
<1> QED BY <1>1, AnswerInvariant, PTL
=============================================================================
