--------------------------- MODULE ServicesProofs ---------------------------
(***************************************************************************)
(* Proofs about the services of MCServices, for any number of threads, flows, *)
(* plugins, clients, commands, saves and crashes.  The parts share no state, so  *)
(* each has an invariant of its own, which the steps of the others leave alone.  *)
(***************************************************************************)
EXTENDS MCServices, Sequences, FiniteSets, TLAPS, FiniteSetTheorems, SequenceTheorems

(* A step is a step of a part, or leaves its variables alone. *)
LEMMA PartSteps ==
  ASSUME [Next]_vars
  PROVE  /\ Flow!FlowNext \/ UNCHANGED FlowVars
         /\ Snap!SnapNext \/ UNCHANGED SnapVars
         /\ Udp!ChNext \/ UNCHANGED UdpVars
         /\ Turn!RedirNext \/ UNCHANGED TurnVars
         /\ Runner!JobNext \/ UNCHANGED RunnerVars
<1>1. CASE UNCHANGED vars
      BY <1>1 DEF vars
<1>2. CASE Next
      BY <1>2 DEF Next, FlowStep, SnapshotStep, ChannelStep, LinkStep, TcpStep, RedirStep,
                 ParallelStep, Others
<1> QED BY <1>1, <1>2

-----------------------------------------------------------------------------
(* FlowState: with a table before the first packet there is only one. *)
FlowInv ==
  /\ flows = 1 /\ Len(tables) = 1 /\ tables \in Seq(SUBSET Flow!FlowKeys)
  /\ \A t \in FlowThreads : flowCall[t] # Flow!NoFlowCall => flowCall[t].table = 1
  /\ flowCall \in [FlowThreads -> {Flow!NoFlowCall} \cup
       [pc : {"look", "reverse", "use", "put"}, key : Flow!FlowKeys, op : {"add", "check", "remove"},
        table : Nat]]

LEMMA FlowBegins ==
  ASSUME TableThere, Init PROVE FlowInv
<1>1. tables = <<{}>> /\ flows = 1 /\ flowCall = [t \in FlowThreads |-> Flow!NoFlowCall]
      BY DEF Init, Flow!FlowInit
<1>2. <<{}>> \in Seq(SUBSET Flow!FlowKeys) /\ Len(<<{}>>) = 1
      OBVIOUS
<1> QED BY <1>1, <1>2 DEF FlowInv

LEMMA FirstReplaced ==
  ASSUME NEW S, NEW q \in Seq(S), Len(q) = 1, NEW x \in S
  PROVE  [q EXCEPT ![1] = x] \in Seq(S) /\ Len([q EXCEPT ![1] = x]) = 1
OBVIOUS

LEMMA FlowKept ==
  ASSUME FlowInv, [Next]_vars PROVE FlowInv'
<1> USE DEF FlowInv
<1>1. CASE UNCHANGED FlowVars
      BY <1>1 DEF FlowVars
<1>2. ASSUME NEW t \in FlowThreads, NEW k \in Flow!FlowKeys, NEW op \in {"add", "check", "remove"},
             Flow!GetTable(t, k, op)
      PROVE  FlowInv'
      BY <1>2 DEF Flow!GetTable
<1>3. ASSUME NEW t \in FlowThreads, Flow!Look(t) PROVE FlowInv'
      BY <1>3 DEF Flow!Look, Flow!At, Flow!Goto
<1>4. ASSUME NEW t \in FlowThreads, Flow!LookReverse(t) PROVE FlowInv'
  <2>1. Flow!Reverse(flowCall[t].key) \in Flow!FlowKeys
        BY <1>4 DEF Flow!LookReverse, Flow!At, Flow!Reverse, Flow!FlowKeys
  <2>2. PICK c : c = flowCall[t]
        OBVIOUS
  <2>3. c \in [pc : {"look", "reverse", "use", "put"}, key : Flow!FlowKeys,
               op : {"add", "check", "remove"}, table : Nat] /\ c.table = 1
        BY <1>4, <2>2 DEF Flow!LookReverse, Flow!At
  <2>4. PICK new : /\ flowCall' = [flowCall EXCEPT ![t] = new]
                   /\ new \in {[[c EXCEPT !.pc = "use"] EXCEPT !.key = Flow!Reverse(c.key)],
                               [c EXCEPT !.pc = "use"], Flow!NoFlowCall}
        BY <1>4, <2>2 DEF Flow!LookReverse, Flow!Goto, Flow!Return
  <2>5. \/ new = Flow!NoFlowCall
        \/ new \in [pc : {"look", "reverse", "use", "put"}, key : Flow!FlowKeys,
                    op : {"add", "check", "remove"}, table : Nat] /\ new.table = 1
        BY <2>1, <2>2, <2>3, <2>4
  <2>6. UNCHANGED <<tables, flows>>
        BY <1>4 DEF Flow!LookReverse
  <2>7. flowCall' = [flowCall EXCEPT ![t] = new]
        BY <2>4
  <2> QED BY <2>5, <2>6, <2>7
<1>5. ASSUME NEW t \in FlowThreads, Flow!Enter(t) PROVE FlowInv'
      BY <1>5 DEF Flow!Enter, Flow!At, Flow!Goto
<1>6. ASSUME NEW t \in FlowThreads, Flow!Remove(t) PROVE FlowInv'
  <2>1. flowCall[t] # Flow!NoFlowCall /\ flowCall[t].table = 1 /\ UNCHANGED flows
        BY <1>6 DEF Flow!Remove, Flow!At
  <2>2. \/ tables' = [tables EXCEPT ![1] = @ \ {flowCall[t].key}] /\ Flow!Goto(t, "put")
        \/ tables' = tables /\ Flow!Return(t)
        BY <1>6, <2>1 DEF Flow!Remove
  <2> DEFINE rest == tables[1] \ {flowCall[t].key}
  <2>6. rest \in SUBSET Flow!FlowKeys
        OBVIOUS
  <2>7. tables' = [tables EXCEPT ![1] = rest] \/ tables' = tables
        BY <2>2
  <2> HIDE DEF rest
  <2>3. tables' \in Seq(SUBSET Flow!FlowKeys) /\ Len(tables') = 1
    <3>1. PICK S : S = SUBSET Flow!FlowKeys
          OBVIOUS
    <3>2. tables \in Seq(S) /\ Len(tables) = 1 /\ rest \in S
          BY <2>6, <3>1
    <3>3. [tables EXCEPT ![1] = rest] \in Seq(S) /\ Len([tables EXCEPT ![1] = rest]) = 1
          BY ONLY <3>2, FirstReplaced
    <3> QED BY <2>7, <3>1, <3>2, <3>3
  <2>4. CASE Flow!Goto(t, "put")
        BY <2>1, <2>3, <2>4 DEF Flow!Goto
  <2>5. CASE Flow!Return(t)
        BY <2>1, <2>3, <2>5 DEF Flow!Return
  <2> QED BY <2>2, <2>4, <2>5
<1>7. ASSUME NEW t \in FlowThreads, Flow!PutTable(t) PROVE FlowInv'
      BY <1>7 DEF Flow!PutTable, Flow!At, Flow!Return
<1> QED BY <1>1, <1>2, <1>3, <1>4, <1>5, <1>6, <1>7, PartSteps DEF Flow!FlowNext

(* The entry of a flow stays until a thread removes that flow, for any number of threads,    *)
(* if the state has a table when they begin (flow_state()): all of them have the same one.    *)
THEOREM EntriesKeptHolds ==
  ASSUME TableThere PROVE Spec => EntriesKept
<1> DEFINE Kept == \A k \in Flow!Table : k \in Flow!Table' \/ \E t \in FlowThreads : Flow!Remove(t) /\ flowCall[t].key = k
<1>1. Init => FlowInv
      BY FlowBegins
<1>2. FlowInv /\ [Next]_vars => FlowInv'
      BY FlowKept
<1>3. FlowInv /\ [Next]_vars => [Kept]_(Flow!flowVars)
  <2> SUFFICES ASSUME FlowInv, Flow!FlowNext PROVE Kept
      BY PartSteps DEF FlowVars, Flow!flowVars
  <2> USE DEF FlowInv, Flow!Table
  <2>1. ASSUME NEW t \in FlowThreads, NEW k \in Flow!FlowKeys, NEW op \in {"add", "check", "remove"},
               Flow!GetTable(t, k, op)
        PROVE  Kept
        BY <2>1 DEF Flow!GetTable
  <2>2. ASSUME NEW t \in FlowThreads, Flow!Look(t) \/ Flow!LookReverse(t) PROVE Kept
        BY <2>2 DEF Flow!Look, Flow!LookReverse
  <2>3. ASSUME NEW t \in FlowThreads, Flow!Enter(t) PROVE Kept
        BY <2>3 DEF Flow!Enter, Flow!At
  <2>4. ASSUME NEW t \in FlowThreads, Flow!Remove(t) PROVE Kept
    <3>1. flowCall[t].table = 1 /\ UNCHANGED flows
          BY <2>4 DEF Flow!Remove, Flow!At
    <3>2. tables' \in {[tables EXCEPT ![1] = @ \ {flowCall[t].key}], tables}
          BY <2>4, <3>1 DEF Flow!Remove
    <3> DEFINE rest == tables[1] \ {flowCall[t].key}
    <3>3. tables' = [tables EXCEPT ![1] = rest] \/ tables' = tables
          BY <3>2
    <3>4. tables'[1] = rest \/ tables'[1] = tables[1]
          BY <3>3
    <3> QED BY <2>4, <3>1, <3>4
  <2>5. ASSUME NEW t \in FlowThreads, Flow!PutTable(t) PROVE Kept
        BY <2>5 DEF Flow!PutTable, Flow!At
  <2> QED BY <2>1, <2>2, <2>3, <2>4, <2>5 DEF Flow!FlowNext
<1> QED BY <1>1, <1>2, <1>3, PTL DEF Spec, EntriesKept, Flow!EntriesKept

-----------------------------------------------------------------------------
(* Redir: what the redirect host has, and what was sent back, say who asked whom. *)
OwnPorts ==
  /\ "nobody" \notin RedirClients
  /\ \A c, d \in RedirClients : SportOf[c] = SportOf[d] => c = d

Redirected(q) == q.by \in RedirClients /\ q.port = SportOf[q.by] /\ q.src = q.to

RedirInv ==
  /\ portState \in [Turn!Ports -> RedirClients \cup {Turn!NoAddress}]
  /\ \A p \in Turn!Ports : portState[p] # Turn!NoAddress => SportOf[portState[p]] = p
  /\ \A q \in atPot : Redirected(q)
  /\ Turn!ResponseReturns

LEMMA RedirInit ==
  ASSUME Init PROVE RedirInv
BY DEF Init, Turn!RedirInit, RedirInv, Turn!ResponseReturns, Turn!NoAddress

LEMMA RedirKept ==
  ASSUME OwnPorts, RedirInv, [Next]_vars PROVE RedirInv'
<1> USE DEF RedirInv
<1>1. CASE UNCHANGED TurnVars
      BY <1>1 DEF TurnVars, Redirected, Turn!ResponseReturns
<1>2. ASSUME NEW c \in RedirClients, NEW h \in RedirHosts, NEW matching \in SUBSET Rules,
             Turn!FromClient(c, h, matching)
      PROVE  RedirInv'
  <2>1. SportOf[c] \in Turn!Ports /\ c # Turn!NoAddress
        BY DEF Turn!Ports, Turn!NoAddress, OwnPorts
  <2>2. /\ portState' \in [Turn!Ports -> RedirClients \cup {Turn!NoAddress}]
        /\ \A p \in Turn!Ports : portState'[p] # Turn!NoAddress => SportOf[portState'[p]] = p
        BY <1>2, <2>1 DEF Turn!FromClient
  <2>3. \A q \in atPot' : Redirected(q)
        BY <1>2 DEF Turn!FromClient, Redirected
  <2>4. Turn!ResponseReturns'
        BY <1>2 DEF Turn!FromClient, Turn!ResponseReturns
  <2> QED BY <2>2, <2>3, <2>4
<1>3. ASSUME NEW q \in atPot, Turn!FromPot(q)
      PROVE  RedirInv'
  <2>1. UNCHANGED portState /\ atPot' \subseteq atPot
        BY <1>3 DEF Turn!FromPot
  <2> DEFINE p == [q EXCEPT !.src = Pot, !.dst = q.src]
  <2>2. \A r \in Turn!Returned(p) : r.dst = r.by /\ r.src = r.to
    <3>1. p.port = q.port /\ p.by = q.by /\ p.to = q.to /\ p.dst = q.src
          BY <1>3 DEF Redirected
    <3>2. q.by \in RedirClients /\ q.port = SportOf[q.by] /\ q.src = q.to /\ q.port \in Turn!Ports
          BY DEF Redirected, Turn!Ports
    <3>3. portState[q.port] # Turn!NoAddress => portState[q.port] = q.by
          BY <3>2 DEF OwnPorts
    <3> HIDE DEF p
    <3> QED BY <3>1, <3>2, <3>3 DEF Turn!Returned
  <2>3. Turn!ResponseReturns'
        BY <1>3, <2>2 DEF Turn!FromPot, Turn!ResponseReturns
  <2> QED BY <2>1, <2>3
<1>4. CASE Turn!StateFlushed
      BY <1>4 DEF Turn!StateFlushed, Redirected, Turn!ResponseReturns
<1> QED BY <1>1, <1>2, <1>3, <1>4, PartSteps DEF Turn!RedirNext

(* A response of the redirect host goes to the client that asked, and from the host it   *)
(* asked, if no two clients send from one port (redir.py's effect()).                  *)
THEOREM ResponseReturnsHolds ==
  ASSUME OwnPorts PROVE Spec => []ResponseReturns
<1>1. Init => RedirInv
      BY RedirInit
<1>2. RedirInv /\ [Next]_vars => RedirInv'
      BY RedirKept
<1>3. RedirInv => ResponseReturns
      BY DEF RedirInv, ResponseReturns
<1> QED BY <1>1, <1>2, <1>3, PTL DEF Spec

-----------------------------------------------------------------------------
(* Parallel: a file, and a thread that has ended, stand for a command that was tried. *)
OwnNames ==
  /\ \E n \in Nat : Jobs = 1..n
  /\ \A i, j \in Jobs : JobName[i] = JobName[j] => i = j
  /\ Retry \in Nat

Tried(j) == j \in succeeded \cup gaveUp

JobInv ==
  /\ jobs \in [Jobs -> [pc : {"none", "check", "run", "done"}, retries : Nat]]
  /\ nextJob \in Nat
  /\ \A j \in Jobs : JobName[j] \in doneFiles \/ jobs[j].pc = "done" => Tried(j)
  /\ \A j \in Jobs : j < nextJob /\ jobs[j].pc = "none" => Tried(j) \/ j \in raised

LEMMA JobsInit ==
  ASSUME OwnNames, Init PROVE JobInv
BY DEF Init, Runner!JobInit, JobInv, OwnNames, Runner!NoThread

LEMMA JobsKept ==
  ASSUME OwnNames, JobInv, [Next]_vars PROVE JobInv'
<1> USE DEF JobInv
<1>1. CASE UNCHANGED RunnerVars
      BY <1>1 DEF RunnerVars, Tried
<1>2. \A j \in Jobs : j \in Nat /\ ~(j < 1)
      BY DEF OwnNames
<1>3. ASSUME NEW j \in Jobs, Runner!StartJob(j) PROVE JobInv'
      BY <1>2, <1>3 DEF Runner!StartJob, Tried
<1>4. ASSUME NEW j \in Jobs, Runner!CheckDone(j) PROVE JobInv'
      BY <1>2, <1>4 DEF Runner!CheckDone, Tried
<1>5. ASSUME NEW j \in Jobs, Runner!Succeed(j) PROVE JobInv'
      BY <1>2, <1>5 DEF Runner!Succeed, Tried
<1>6. ASSUME NEW j \in Jobs, Runner!Fail(j) PROVE JobInv'
      BY <1>2, <1>6 DEF Runner!Fail, Tried, OwnNames
<1>7. ASSUME NEW j \in Jobs, NEW ok \in BOOLEAN, Runner!WriteStatus(j, ok) PROVE JobInv'
      BY <1>2, <1>7 DEF Runner!WriteStatus, Runner!NoThread, Tried, OwnNames
<1>9. ASSUME NEW j \in Jobs, Runner!Raise(j) PROVE JobInv'
      BY <1>2, <1>9 DEF Runner!Raise, Runner!NoThread, Tried
<1>8. CASE Runner!StartAgain
      BY <1>2, <1>8 DEF Runner!StartAgain, Runner!NoThread, Tried
<1> QED BY <1>1, <1>3, <1>4, <1>5, <1>6, <1>7, <1>8, <1>9, PartSteps DEF Runner!JobNext

(* When a start ends every command has succeeded or was given up, or could not be run in   *)
(* this start, and one that neither succeeded nor was given up has no file, however often   *)
(* the program crashed and was started again, if no two commands share a file            *)
(* (adf_parallel.py).                                                                   *)
THEOREM EveryJobTriedHolds ==
  ASSUME OwnNames PROVE Spec => []EveryJobTried
<1>1. Init => JobInv
      BY JobsInit
<1>2. JobInv /\ [Next]_vars => JobInv'
      BY JobsKept
<1>3. JobInv => EveryJobTried
  <2> SUFFICES ASSUME JobInv, Runner!Ended, NEW j \in Jobs PROVE Tried(j) \/ j \in raised
      BY DEF EveryJobTried, Runner!EveryJobTried, Tried, JobInv
  <2>1. PICK n \in Nat : Jobs = 1..n
        BY DEF OwnNames
  <2>2. Cardinality(Jobs) = n
        BY <2>1, FS_Interval
  <2>3. j < nextJob /\ jobs[j].pc = "none"
    <3>1. nextJob > n /\ nextJob \in Nat /\ j \in 1..n
      <4>1. nextJob > Cardinality(Jobs)
            BY DEF Runner!Ended, Cardinality, Runner!Cardinality
      <4>2. nextJob \in Nat
            BY DEF JobInv
      <4> QED BY <2>1, <2>2, <4>1, <4>2
    <3>2. jobs[j].pc = "none"
      <4>1. jobs[j].pc \in {"none", "check", "run", "done"}
            BY DEF JobInv
      <4>2. jobs[j].pc \notin {"check", "run", "done"}
            BY DEF Runner!Ended, Runner!Busy
      <4> QED BY <4>1, <4>2
    <3> QED BY <3>1, <3>2
  <2> QED BY <2>3 DEF JobInv
<1> QED BY <1>1, <1>2, <1>3, PTL DEF Spec

-----------------------------------------------------------------------------
(* Snapshot: types. *)
States == UNION {[S -> Nat] : S \in SUBSET Plugins}
Snaps == [states : States, plugins : SUBSET Plugins]
SaveRecords ==
  [pc : {"idle", "dump", "write"}, snap : Snaps, left : SUBSET Plugins, seen : SUBSET Plugins]
Saves == {r \in SaveRecords : r.left \subseteq r.seen}
Loads == [pc : Nat, snap : Snaps, left : SUBSET Plugins]
Files == [kind : {"none", "part", "saved"}, snap : Snaps]

SnapTyped ==
  /\ state \in States /\ saver \in [Savers -> Saves] /\ file \in Files
  /\ loader \in Loads /\ (loader.pc = 4 => loader.left \subseteq DOMAIN loader.snap.states)
  /\ saved \in Snaps /\ touched \in BOOLEAN /\ changes \in Nat

LEMMA StatesAre ==
  ASSUME NEW f \in States
  PROVE  /\ DOMAIN f \in SUBSET Plugins /\ f \in [DOMAIN f -> Nat]
         /\ \A p \in Plugins, v \in Nat : /\ Snap!Having(f, p, v) \in States
                                         /\ DOMAIN Snap!Having(f, p, v) = DOMAIN f \cup {p}
                                         /\ Snap!Having(f, p, v)[p] = v
                                         /\ \A q \in DOMAIN f \ {p} : Snap!Having(f, p, v)[q] = f[q]
         /\ \A p : /\ Snap!Dropping(f, p) \in States
                  /\ DOMAIN Snap!Dropping(f, p) = DOMAIN f \ {p}
                  /\ \A q \in DOMAIN f \ {p} : Snap!Dropping(f, p)[q] = f[q]
         /\ \A p \in DOMAIN f, v \in Nat : [f EXCEPT ![p] = v] \in States
<1>1. PICK S \in SUBSET Plugins : f \in [S -> Nat]
      BY DEF States
<1>2. DOMAIN f = S
      BY <1>1
<1>3. ASSUME NEW p \in Plugins, NEW v \in Nat
      PROVE  /\ Snap!Having(f, p, v) \in [S \cup {p} -> Nat] /\ S \cup {p} \in SUBSET Plugins
             /\ Snap!Having(f, p, v)[p] = v
             /\ \A q \in S \ {p} : Snap!Having(f, p, v)[q] = f[q]
      BY <1>1, <1>2 DEF Snap!Having
<1>4. ASSUME NEW p
      PROVE  /\ Snap!Dropping(f, p) \in [S \ {p} -> Nat] /\ S \ {p} \in SUBSET Plugins
             /\ \A q \in S \ {p} : Snap!Dropping(f, p)[q] = f[q]
      BY <1>1, <1>2 DEF Snap!Dropping
<1>5. ASSUME NEW p \in S, NEW v \in Nat PROVE [f EXCEPT ![p] = v] \in [S -> Nat]
      BY <1>1
<1>6. \A p \in Plugins, v \in Nat : Snap!Having(f, p, v) \in States /\ DOMAIN Snap!Having(f, p, v) = S \cup {p}
      BY <1>3 DEF States
<1>7. \A p : Snap!Dropping(f, p) \in States /\ DOMAIN Snap!Dropping(f, p) = S \ {p}
      BY <1>4 DEF States
<1>8. \A p \in S, v \in Nat : [f EXCEPT ![p] = v] \in States
      BY <1>5 DEF States
<1> QED BY <1>1, <1>2, <1>3, <1>4, <1>6, <1>7, <1>8

LEMMA HavingIs ==
  ASSUME NEW f \in States, NEW p \in Plugins, NEW v \in Nat
  PROVE  /\ DOMAIN Snap!Having(f, p, v) = DOMAIN f \cup {p}
         /\ Snap!Having(f, p, v)[p] = v
         /\ \A q \in DOMAIN f \ {p} : Snap!Having(f, p, v)[q] = f[q]
BY DEF Snap!Having

LEMMA EmptySnap ==
  /\ Snap!NoSnap \in Snaps /\ Snap!NoSave \in Saves /\ Snap!NoLoad \in Loads
  /\ Snap!NoFile \in Files /\ Snap!NoState \in Nat
  /\ Snap!NoSave.pc = "idle" /\ Snap!NoLoad.pc = 0
<1>1. [p \in {} |-> Snap!NoState] \in States
      BY DEF States, Snap!NoState
<1>2. Snap!NoSnap \in Snaps
      BY <1>1 DEF Snap!NoSnap, Snaps
<1> QED BY <1>2 DEF Snap!NoSave, Snap!NoLoad, Snap!NoFile, Snap!NoState, Saves, Loads, Files, SaveRecords

LEMMA EmptyStates ==
  ASSUME Configured \subseteq Plugins PROVE [p \in Configured |-> Snap!NoState] \in States
BY DEF States, Snap!NoState

LEMMA SnapTypedInit ==
  ASSUME Configured \subseteq Plugins, Init PROVE SnapTyped
<1>1. /\ state = [p \in Configured |-> Snap!NoState] /\ saver = [s \in Savers |-> Snap!NoSave]
      /\ loader = Snap!NoLoad /\ file = Snap!NoFile /\ saved = Snap!NoSnap
      /\ touched = FALSE /\ changes = 0
      BY DEF Init, Snap!SnapInit
<1>2. state \in States /\ saver \in [Savers -> Saves] /\ file \in Files
      BY <1>1, EmptySnap, EmptyStates
<1>3. loader \in Loads /\ loader.pc # 4 /\ saved \in Snaps
      BY <1>1, EmptySnap
<1> QED BY <1>1, <1>2, <1>3 DEF SnapTyped

(* What a save changes of the state of its thread. *)
LEMMA SaverSteps ==
  ASSUME SnapTyped, NEW s \in Savers
  PROVE  /\ Snap!SaveBegin(s) => /\ saver' \in [Savers -> Saves] /\ saver'[s].pc = "dump"
                                /\ \A r \in Savers \ {s} : saver'[r] = saver[r]
         /\ Snap!DumpOne(s) => /\ saver' \in [Savers -> Saves] /\ saver'[s].pc # "write"
                              /\ \A r \in Savers \ {s} : saver'[r] = saver[r]
         /\ Snap!OpenFile(s) => /\ saver' \in [Savers -> Saves] /\ saver'[s].pc = "write"
                               /\ \A r \in Savers \ {s} : saver'[r] = saver[r]
         /\ Snap!WriteFile(s) \/ Snap!SaveFails(s) =>
              /\ saver' \in [Savers -> Saves] /\ saver'[s].pc = "idle"
              /\ \A r \in Savers \ {s} : saver'[r] = saver[r]
<1> USE DEF SnapTyped
<1>0. /\ saver[s] \in Saves /\ saver[s].snap \in Snaps /\ Snap!Loaded \in SUBSET Plugins
      BY StatesAre DEF Saves, SaveRecords, Snap!Loaded
<1>1. ASSUME Snap!SaveBegin(s)
      PROVE  /\ saver' \in [Savers -> Saves] /\ saver'[s].pc = "dump"
             /\ \A r \in Savers \ {s} : saver'[r] = saver[r]
      BY <1>0, <1>1, EmptySnap DEF Snap!SaveBegin, Saves, SaveRecords
<1>2. ASSUME Snap!DumpOne(s)
      PROVE  /\ saver' \in [Savers -> Saves] /\ saver'[s].pc # "write"
             /\ \A r \in Savers \ {s} : saver'[r] = saver[r]
  <2>1. CASE saver' = [saver EXCEPT ![s] = Snap!NoSave]
        BY <2>1, EmptySnap
  <2>2. ASSUME NEW p \in saver[s].left, Snap!Loaded = saver[s].seen,
               saver' = [saver EXCEPT ![s].snap.states = Snap!Having(@, p, state[p]), ![s].left = @ \ {p}]
        PROVE  /\ saver' \in [Savers -> Saves] /\ saver'[s].pc = saver[s].pc
               /\ \A r \in Savers \ {s} : saver'[r] = saver[r]
    <3> DEFINE f == Snap!Having(saver[s].snap.states, p, state[p])
    <3>1. p \in Plugins /\ p \in DOMAIN state /\ state[p] \in Nat
          BY <1>0, <2>2, StatesAre DEF Snap!Loaded, Saves, SaveRecords
    <3>2. f \in States
          BY <1>0, <3>1, StatesAre DEF Snaps
    <3> DEFINE r == [saver[s] EXCEPT !.snap = [saver[s].snap EXCEPT !.states = f], !.left = saver[s].left \ {p}]
    <3>3. saver' = [saver EXCEPT ![s] = r]
          BY <1>0, <2>2 DEF Saves, SaveRecords, Snaps
    <3> HIDE DEF f
    <3>4. [saver[s].snap EXCEPT !.states = f] \in Snaps
          BY <1>0, <3>2 DEF Snaps
    <3>5. r \in Saves /\ r.pc = saver[s].pc
          BY <1>0, <3>4 DEF Saves, SaveRecords
    <3> HIDE DEF r
    <3> QED BY <3>3, <3>5
  <2>3. CASE \E p \in saver[s].left : Snap!Loaded = saver[s].seen /\
          saver' = [saver EXCEPT ![s].snap.states = Snap!Having(@, p, state[p]), ![s].left = @ \ {p}]
        BY <1>2, <2>2, <2>3 DEF Snap!DumpOne
  <2> QED BY <1>2, <2>1, <2>3, EmptySnap DEF Snap!DumpOne
<1>3. ASSUME Snap!OpenFile(s)
      PROVE  /\ saver' \in [Savers -> Saves] /\ saver'[s].pc = "write"
             /\ \A r \in Savers \ {s} : saver'[r] = saver[r]
      BY <1>0, <1>3 DEF Snap!OpenFile, Saves, SaveRecords, Snaps
<1>4. ASSUME Snap!WriteFile(s) \/ Snap!SaveFails(s)
      PROVE  /\ saver' \in [Savers -> Saves] /\ saver'[s].pc = "idle"
             /\ \A r \in Savers \ {s} : saver'[r] = saver[r]
      BY <1>4, EmptySnap DEF Snap!WriteFile, Snap!SaveFails
<1> QED BY <1>1, <1>2, <1>3, <1>4

(* The stages of a load, in their order. *)
LEMMA FourStages ==
  /\ Len(Snap!Stages) = 4 /\ Snap!Finished = 5
  /\ Snap!Stages[1] = "flush" /\ Snap!Stages[2] = "stop"
  /\ Snap!Stages[3] = "start" /\ Snap!Stages[4] = "set"
BY DEF Snap!Stages, Snap!Finished

LEMMA WorkIsOfPlugins ==
  ASSUME SnapTyped, NEW n \in 1..4, NEW snap \in Snaps
  PROVE  Snap!Work(Snap!Stages[n], snap) \in SUBSET Plugins
<1>1. snap.plugins \in SUBSET Plugins /\ DOMAIN snap.states \in SUBSET Plugins
      BY StatesAre DEF Snaps
<1>2. Snap!Loaded \in SUBSET Plugins
      BY StatesAre DEF Snap!Loaded, SnapTyped
<1> QED BY <1>1, <1>2, FourStages DEF Snap!Work

(* One plugin of a load's stage. *)
Flushed(p) == IF p \in Snap!Loaded THEN [state EXCEPT ![p] = Snap!NoState] ELSE state
Given(p) == IF p \in Snap!Loaded THEN [state EXCEPT ![p] = loader.snap.states[p]] ELSE state

LEMMA LoadOneDoes ==
  ASSUME SnapTyped, NEW p \in Plugins, Snap!LoadOne(p)
  PROVE  /\ loader.pc \in 1..4 /\ p \in loader.left
         /\ \/ loader' = Snap!NoLoad /\ UNCHANGED state
            \/ /\ loader' = [loader EXCEPT !.left = @ \ {p}]
               /\ loader.pc = 1 => state' = Flushed(p)
               /\ loader.pc = 2 => state' = Snap!Dropping(state, p)
               /\ loader.pc = 3 => state' = Snap!Having(state, p, Snap!NoState)
               /\ loader.pc = 4 => state' = Given(p)
<1>1. loader.pc \in 1..4 /\ p \in loader.left
      BY FourStages DEF Snap!LoadOne, Snap!Midway
<1>2. \/ loader' = Snap!NoLoad /\ UNCHANGED state
      \/ /\ loader' = [loader EXCEPT !.left = @ \ {p}]
         /\ Snap!Stages[loader.pc] = "flush" => state' = Flushed(p)
         /\ Snap!Stages[loader.pc] = "stop" => state' = Snap!Dropping(state, p)
         /\ Snap!Stages[loader.pc] = "start" => state' = Snap!Having(state, p, Snap!NoState)
         /\ Snap!Stages[loader.pc] = "set" => state' = Given(p)
      BY <1>1, FourStages DEF Snap!LoadOne, Flushed, Given
<1> QED BY <1>1, <1>2, FourStages

LEMMA LoadOneTyped ==
  ASSUME SnapTyped, NEW p \in Plugins, Snap!LoadOne(p)
  PROVE  state' \in States /\ loader' \in Loads
<1>1. /\ loader.pc \in 1..4 /\ loader.left \in SUBSET Plugins /\ loader.snap \in Snaps
      BY LoadOneDoes DEF SnapTyped, Loads
<1>2. loader' \in Loads
      BY <1>1, LoadOneDoes, EmptySnap DEF SnapTyped, Loads
<1>3. CASE loader' = Snap!NoLoad /\ UNCHANGED state
      BY <1>2, <1>3 DEF SnapTyped
<1>4. state \in States /\ Snap!NoState \in Nat /\ Snap!Loaded = DOMAIN state
      BY EmptySnap DEF SnapTyped, Snap!Loaded
<1>5. CASE loader.pc = 1 /\ state' = Flushed(p)
      BY <1>2, <1>4, <1>5, StatesAre DEF Flushed
<1>6. CASE loader.pc = 2 /\ state' = Snap!Dropping(state, p)
      BY <1>2, <1>4, <1>6, StatesAre
<1>7. CASE loader.pc = 3 /\ state' = Snap!Having(state, p, Snap!NoState)
      BY <1>2, <1>4, <1>7, StatesAre
<1>8. CASE loader.pc = 4 /\ state' = Given(p)
  <2>1. p \in DOMAIN loader.snap.states /\ loader.snap.states[p] \in Nat
        BY <1>1, <1>8, StatesAre, LoadOneDoes DEF Snaps, SnapTyped
  <2> QED BY <1>2, <1>4, <1>8, <2>1, StatesAre DEF Given
<1> QED BY <1>1, <1>3, <1>5, <1>6, <1>7, <1>8, LoadOneDoes

LEMMA SnapTypedKept ==
  ASSUME Configured \subseteq Plugins, SnapTyped, [Next]_vars PROVE SnapTyped'
<1> USE DEF SnapTyped
<1>0. Snap!Loaded = DOMAIN state /\ Snap!Loaded \in SUBSET Plugins
      BY StatesAre DEF Snap!Loaded
<1>1. CASE UNCHANGED SnapVars
      BY <1>1 DEF SnapVars
<1>2. ASSUME NEW p \in Plugins, Snap!Change(p) PROVE SnapTyped'
  <2>1. state' \in States
    <3>1. p \in DOMAIN state /\ changes + 1 \in Nat /\ state' = [state EXCEPT ![p] = changes + 1]
          BY <1>0, <1>2 DEF Snap!Change
    <3> QED BY <3>1, StatesAre
  <2> QED BY <1>2, <2>1 DEF Snap!Change
<1>3. ASSUME NEW p \in Plugins, Snap!LoadPlugin(p) PROVE SnapTyped'
  <2>1. state' \in States
        BY <1>3, StatesAre, EmptySnap DEF Snap!LoadPlugin
  <2> QED BY <1>3, <2>1 DEF Snap!LoadPlugin
<1>4. ASSUME NEW p \in Plugins, Snap!LoadOne(p) PROVE SnapTyped'
  <2>1. UNCHANGED <<saver, file, saved, broken, touched, changes>>
        BY <1>4 DEF Snap!LoadOne, Snap!snapBounds
  <2>2. loader'.pc = 4 => loader'.left \subseteq DOMAIN loader'.snap.states
        BY <1>4, LoadOneDoes, EmptySnap DEF Loads
  <2> QED BY <1>4, <2>1, <2>2, LoadOneTyped
<1>5. ASSUME NEW s \in Savers,
             Snap!SaveBegin(s) \/ Snap!DumpOne(s) \/ Snap!OpenFile(s) \/ Snap!WriteFile(s)
               \/ Snap!SaveFails(s)
      PROVE  SnapTyped'
  <2>1. saver' \in [Savers -> Saves] /\ UNCHANGED <<state, loader, touched, changes>>
        BY <1>5, SaverSteps
        DEF Snap!SaveBegin, Snap!DumpOne, Snap!OpenFile, Snap!WriteFile, Snap!SaveFails, Snap!snapBounds
  <2>2. saver[s].snap \in Snaps
        BY DEF Saves, SaveRecords
  <2>3. file' \in Files /\ saved' \in Snaps
        BY <1>5, <2>2, EmptySnap
        DEF Snap!SaveBegin, Snap!DumpOne, Snap!OpenFile, Snap!WriteFile, Snap!SaveFails, Files
  <2> QED BY <2>1, <2>3
<1>6. CASE Snap!LoadBegin
  <2>1. UNCHANGED <<state, saver, file, saved, changes>> /\ touched' = FALSE
        BY <1>6 DEF Snap!LoadBegin
  <2>2. file.snap \in Snaps /\ Snap!Work(Snap!Stages[1], file.snap) \in SUBSET Plugins
        BY WorkIsOfPlugins DEF Files
  <2>3. \/ loader' = [pc |-> 1, snap |-> file.snap, left |-> Snap!Work(Snap!Stages[1], file.snap)]
        \/ loader' = loader
        BY <1>6 DEF Snap!LoadBegin
  <2>4. loader' \in Loads /\ (loader'.pc = 4 => loader' = loader)
        BY <2>2, <2>3 DEF Loads
  <2> QED BY <2>1, <2>4
<1>7. CASE Snap!NextStage
  <2>1. UNCHANGED <<state, saver, file, saved, broken, touched, changes>>
        BY <1>7 DEF Snap!NextStage, Snap!snapBounds
  <2>2. loader.pc \in 1..4 /\ loader.snap \in Snaps
        BY <1>7, FourStages DEF Snap!NextStage, Snap!Midway, Loads
  <2> DEFINE left == IF loader.pc = 4 THEN {} ELSE Snap!Work(Snap!Stages[loader.pc + 1], loader.snap)
  <2>3. left \in SUBSET Plugins
        BY <2>2, WorkIsOfPlugins
  <2>4. loader.pc = 3 => left \subseteq DOMAIN loader.snap.states
        BY FourStages DEF Snap!Work
  <2>5. loader' = [loader EXCEPT !.pc = loader.pc + 1, !.left = left]
        BY <1>7, FourStages DEF Snap!NextStage
  <2> HIDE DEF left
  <2>6. loader' \in Loads
    <3>1. loader \in Loads /\ loader.pc + 1 \in Nat
          BY <2>2
    <3> QED BY <2>3, <2>5, <3>1 DEF Loads
  <2>7. loader'.pc = loader.pc + 1 /\ loader'.snap = loader.snap /\ loader'.left = left
        BY <2>5 DEF Loads
  <2> QED BY <2>1, <2>2, <2>4, <2>6, <2>7
<1>8. CASE Snap!LoadEnd
      BY <1>8, EmptySnap DEF Snap!LoadEnd, Snap!snapBounds
<1>9. CASE Snap!Crash
      BY <1>9, EmptySnap, EmptyStates DEF Snap!Crash
<1> QED BY <1>1, <1>2, <1>3, <1>4, <1>5, <1>6, <1>7, <1>8, <1>9, PartSteps DEF Snap!SnapNext

-----------------------------------------------------------------------------
(* The file has what was last saved, or is being written, or a save was cut short.  *)
Writing == \E s \in Savers : saver[s].pc = "write"
LastSaved == Writing \/ broken \/ saved = Snap!NoSnap \/ file = [kind |-> "saved", snap |-> saved]

LEMMA LastSavedKept ==
  ASSUME SnapTyped, LastSaved, [Next]_vars PROVE LastSaved'
<1>1. CASE UNCHANGED <<saver, file, saved, broken>>
      BY <1>1 DEF LastSaved, Writing
<1>2. ASSUME NEW s \in Savers, Snap!SaveBegin(s) \/ Snap!DumpOne(s) PROVE LastSaved'
  <2>1. UNCHANGED <<file, saved, broken>> /\ saver[s].pc # "write" /\ \A r \in Savers \ {s} : saver'[r] = saver[r]
        BY <1>2, SaverSteps, EmptySnap DEF Snap!SaveBegin, Snap!DumpOne
  <2> QED BY <2>1 DEF LastSaved, Writing
<1>3. ASSUME NEW s \in Savers, Snap!OpenFile(s) PROVE LastSaved'
      BY <1>3, SaverSteps DEF LastSaved, Writing
<1>4. ASSUME NEW s \in Savers, Snap!WriteFile(s) PROVE LastSaved'
      BY <1>4 DEF Snap!WriteFile, LastSaved
<1>5. CASE Snap!Crash
      BY <1>5 DEF Snap!Crash, LastSaved, Writing
<1>9. ASSUME NEW s \in Savers, Snap!SaveFails(s) PROVE LastSaved'
  <2>1. CASE saver[s].pc = "write"
        BY <1>9, <2>1 DEF Snap!SaveFails, LastSaved
  <2>2. CASE saver[s].pc = "dump"
    <3>1. UNCHANGED <<file, saved, broken>> /\ \A r \in Savers \ {s} : saver'[r] = saver[r]
          BY <1>9, <2>2, SaverSteps DEF Snap!SaveFails
    <3> QED BY <2>2, <3>1 DEF LastSaved, Writing
  <2> QED BY <1>9, <2>1, <2>2 DEF Snap!SaveFails
<1>6. ASSUME NEW p \in Plugins, Snap!Change(p) \/ Snap!LoadPlugin(p) \/ Snap!LoadOne(p) PROVE LastSaved'
      BY <1>1, <1>6 DEF Snap!Change, Snap!LoadPlugin, Snap!LoadOne
<1>7. CASE Snap!LoadBegin \/ Snap!NextStage \/ Snap!LoadEnd
      BY <1>1, <1>7 DEF Snap!LoadBegin, Snap!NextStage, Snap!LoadEnd
<1>8. CASE UNCHANGED SnapVars
      BY <1>1, <1>8 DEF SnapVars
<1> QED BY <1>2, <1>3, <1>4, <1>5, <1>6, <1>7, <1>8, <1>9, PartSteps DEF Snap!SnapNext

(* What the file has, when no save is writing, is what was last saved, unless a save was cut   *)
(* short by a crash or an exception while it wrote (save_state()).                            *)
THEOREM KeepsLastSaveHolds ==
  ASSUME Configured \subseteq Plugins PROVE Spec => []KeepsLastSave
<1>1. Init => SnapTyped /\ LastSaved
      BY SnapTypedInit DEF Init, Snap!SnapInit, LastSaved
<1>2. SnapTyped /\ LastSaved /\ [Next]_vars => (SnapTyped /\ LastSaved)'
      BY SnapTypedKept, LastSavedKept
<1>3. LastSaved => KeepsLastSave
      BY DEF LastSaved, Writing, KeepsLastSave, Snap!KeepsLastSave
<1> QED BY <1>1, <1>2, <1>3, PTL DEF Spec

-----------------------------------------------------------------------------
(* How far a load has come, while the plugins rest. *)
StateOf(p) == IF p \in DOMAIN loader.snap.states \ loader.left THEN loader.snap.states[p] ELSE Snap!NoState
Blank(p) == state[p] = Snap!NoState

Progress ==
  ~touched =>
    /\ loader.pc = 1 => \A p \in Snap!Loaded : p \in loader.left \/ Blank(p)
    /\ loader.pc \in {2, 3} => \A p \in Snap!Loaded : Blank(p)
    /\ loader.pc = 2 /\ Restore => Snap!Loaded \subseteq loader.left
    /\ loader.pc = 3 /\ Restore => Snap!Loaded \cup loader.left = loader.snap.plugins
    /\ loader.pc \in {4, 5} => \A p \in Snap!Loaded : state[p] = StateOf(p)
    /\ loader.pc \in {4, 5} /\ Restore => Snap!Loaded = loader.snap.plugins
    /\ loader.pc = 5 => loader.left = {}

LEMMA LoadOneProgress ==
  ASSUME SnapTyped, Progress, NEW p \in Plugins, Snap!LoadOne(p) PROVE Progress'
<1>1. /\ UNCHANGED touched /\ loader.pc \in 1..4 /\ p \in loader.left
      /\ loader \in Loads /\ loader.snap \in Snaps /\ state \in States
      BY LoadOneDoes DEF Snap!LoadOne, SnapTyped, Loads
<1>2. CASE loader' = Snap!NoLoad
      BY <1>2, EmptySnap DEF Progress
<1>3. CASE loader' = [loader EXCEPT !.left = @ \ {p}]
           /\ (loader.pc = 1 => state' = Flushed(p))
           /\ (loader.pc = 2 => state' = Snap!Dropping(state, p))
           /\ (loader.pc = 3 => state' = Snap!Having(state, p, Snap!NoState))
           /\ (loader.pc = 4 => state' = Given(p))
  <2> SUFFICES ASSUME ~touched PROVE Progress'
      BY <1>1 DEF Progress
  <2>1. loader'.pc = loader.pc /\ loader'.snap = loader.snap /\ loader'.left = loader.left \ {p}
        BY <1>1, <1>3 DEF Loads
  <2>2. DOMAIN state = Snap!Loaded /\ DOMAIN state' = Snap!Loaded' /\ Snap!NoState \in Nat
        BY EmptySnap DEF Snap!Loaded
  <2>3. CASE loader.pc = 1
    <3>1. /\ DOMAIN state' = DOMAIN state
          /\ \A q \in DOMAIN state : state'[q] = IF q = p THEN Snap!NoState ELSE state[q]
          BY <1>1, <1>3, <2>2, <2>3, StatesAre DEF Flushed
    <3> QED BY <2>1, <2>2, <2>3, <3>1 DEF Progress, Blank
  <2>4. CASE loader.pc = 2
    <3>1. /\ DOMAIN state' = DOMAIN state \ {p}
          /\ \A q \in DOMAIN state \ {p} : state'[q] = state[q]
      <4>1. /\ DOMAIN Snap!Dropping(state, p) = DOMAIN state \ {p}
            /\ \A q \in DOMAIN state \ {p} : Snap!Dropping(state, p)[q] = state[q]
            BY <1>1, StatesAre
      <4> QED BY <1>3, <2>4, <4>1
    <3> QED BY <2>1, <2>2, <2>4, <3>1 DEF Progress, Blank
  <2>5. CASE loader.pc = 3
    <3>1. /\ DOMAIN state' = DOMAIN state \cup {p} /\ state'[p] = Snap!NoState
          /\ \A q \in DOMAIN state \ {p} : state'[q] = state[q]
      <4> DEFINE f == Snap!Having(state, p, Snap!NoState)
      <4>1. /\ DOMAIN f = DOMAIN state \cup {p} /\ f[p] = Snap!NoState
            /\ \A q \in DOMAIN state \ {p} : f[q] = state[q]
            BY <1>1, <2>2, HavingIs
      <4>2. state' = f
            BY <1>3, <2>5
      <4> HIDE DEF f
      <4> QED BY <4>1, <4>2
    <3> QED BY <1>1, <2>1, <2>2, <2>5, <3>1 DEF Progress, Blank
  <2>6. CASE loader.pc = 4
    <3>1. p \in DOMAIN loader.snap.states
          BY <1>1, <2>6 DEF SnapTyped
    <3>2. /\ DOMAIN state' = DOMAIN state
          /\ \A q \in DOMAIN state : state'[q] = IF q = p THEN loader.snap.states[p] ELSE state[q]
          BY <1>1, <1>3, <2>2, <2>6, StatesAre DEF Given
    <3>3. \A q \in DOMAIN state : state[q] = StateOf(q)
          BY <2>2, <2>6 DEF Progress
    <3>4. \A q \in DOMAIN state' : state'[q] = StateOf(q)'
          BY <1>1, <2>1, <3>1, <3>2, <3>3 DEF StateOf
    <3> QED BY <2>1, <2>2, <2>6, <3>2, <3>4 DEF Progress
  <2> QED BY <1>1, <2>3, <2>4, <2>5, <2>6
<1> QED BY <1>2, <1>3, LoadOneDoes

LEMMA NextStageProgress ==
  ASSUME SnapTyped, Progress, Snap!NextStage PROVE Progress'
<1>1. /\ UNCHANGED <<state, touched>> /\ loader.left = {}
      /\ loader.pc \in 1..4 /\ loader \in Loads
      BY FourStages DEF Snap!NextStage, Snap!Midway, SnapTyped
<1> DEFINE left == IF loader.pc = 4 THEN {} ELSE Snap!Work(Snap!Stages[loader.pc + 1], loader.snap)
<1>2. loader'.pc = loader.pc + 1 /\ loader'.snap = loader.snap /\ loader'.left = left
  <2>1. loader' = [loader EXCEPT !.pc = loader.pc + 1, !.left = left]
        BY FourStages DEF Snap!NextStage
  <2> HIDE DEF left
  <2> QED BY <1>1, <2>1 DEF Loads
<1>3. /\ loader.pc = 1 /\ Restore => left = Snap!Loaded
      /\ loader.pc = 2 /\ Restore => left = loader.snap.plugins
      /\ loader.pc = 3 => left = DOMAIN loader.snap.states
      /\ loader.pc = 4 => left = {}
      BY FourStages DEF Snap!Work
<1> HIDE DEF left
<1> SUFFICES ASSUME ~touched PROVE Progress'
    BY <1>1 DEF Progress
<1>4. Snap!Loaded' = Snap!Loaded
      BY <1>1 DEF Snap!Loaded
<1>5. CASE loader.pc = 1
      BY <1>1, <1>2, <1>3, <1>4, <1>5 DEF Progress, Blank
<1>6. CASE loader.pc = 2
      BY <1>1, <1>2, <1>3, <1>4, <1>6 DEF Progress, Blank
<1>7. CASE loader.pc = 3
      BY <1>1, <1>2, <1>3, <1>4, <1>7 DEF Progress, Blank, StateOf
<1>8. CASE loader.pc = 4
      BY <1>1, <1>2, <1>3, <1>4, <1>8 DEF Progress, StateOf
<1> QED BY <1>1, <1>5, <1>6, <1>7, <1>8

LEMMA ProgressKept ==
  ASSUME SnapTyped, Progress, [Next]_vars PROVE Progress'
<1>1. CASE UNCHANGED <<state, loader, touched>>
      BY <1>1 DEF Progress, Snap!Loaded, Blank, StateOf
<1>2. CASE touched' \/ loader'.pc = 0
      BY <1>2 DEF Progress
<1>3. ASSUME NEW p \in Plugins, Snap!Change(p) \/ Snap!LoadPlugin(p) PROVE Progress'
      BY <1>2, <1>3 DEF Snap!Change, Snap!LoadPlugin
<1>4. ASSUME NEW p \in Plugins, Snap!LoadOne(p) PROVE Progress'
      BY <1>4, LoadOneProgress
<1>5. ASSUME NEW s \in Savers,
             Snap!SaveBegin(s) \/ Snap!DumpOne(s) \/ Snap!OpenFile(s) \/ Snap!WriteFile(s)
               \/ Snap!SaveFails(s)
      PROVE  Progress'
      BY <1>1, <1>5 DEF Snap!SaveBegin, Snap!DumpOne, Snap!OpenFile, Snap!WriteFile, Snap!SaveFails
<1>6. CASE Snap!LoadBegin
  <2>1. UNCHANGED state /\ loader = Snap!NoLoad
        BY <1>6 DEF Snap!LoadBegin
  <2>2. \/ loader' = [pc |-> 1, snap |-> file.snap, left |-> Snap!Loaded]
        \/ loader' = loader
        BY <1>6, FourStages DEF Snap!LoadBegin, Snap!Work
  <2> QED BY <1>2, <2>1, <2>2, EmptySnap DEF Progress, Snap!Loaded
<1>7. CASE Snap!NextStage
      BY <1>7, NextStageProgress
<1>8. CASE Snap!LoadEnd \/ Snap!Crash
      BY <1>2, <1>8, EmptySnap DEF Snap!LoadEnd, Snap!Crash
<1>9. CASE UNCHANGED SnapVars
      BY <1>1, <1>9 DEF SnapVars
<1> QED BY <1>3, <1>4, <1>5, <1>6, <1>7, <1>8, <1>9, PartSteps DEF Snap!SnapNext

(* A load that ends while the plugins rest has given every plugin of the snapshot its state, *)
(* and left nothing of what was there before (load_state()).                             *)
THEOREM LoadedIsSavedHolds ==
  ASSUME Configured \subseteq Plugins PROVE Spec => []LoadedIsSaved
<1>1. Init => SnapTyped /\ Progress
  <2>1. Init => loader.pc = 0
        BY EmptySnap DEF Init, Snap!SnapInit
  <2>2. loader.pc = 0 => Progress
        BY DEF Progress
  <2> QED BY <2>1, <2>2, SnapTypedInit
<1>2. SnapTyped /\ Progress /\ [Next]_vars => (SnapTyped /\ Progress)'
      BY SnapTypedKept, ProgressKept
<1>3. Progress => LoadedIsSaved
      BY FourStages DEF Progress, StateOf, LoadedIsSaved, Snap!LoadedIsSaved
<1> QED BY <1>1, <1>2, <1>3, PTL DEF Spec

-----------------------------------------------------------------------------
(* Channel: the packets of a sender are on their way in order, and the buffer has the     *)
(* chunks that came since the last event was passed up.                                *)
Fifo == ~Overtaking /\ MaxChLost <= 1

ChEvent == [by : ChSenders, size : Nat \ {0}]
ChPacket == [seq : Nat, chunk : Nat \X Nat, fin : BOOLEAN]
Sender(E, s) == {id \in DOMAIN E : E[id].by = s}
IdOf(p) == p.chunk[1]

(* E: the events; N: the packets on their way; b: the buffer; h: what was heard; L: the     *)
(* events that lost a packet; each of sender s.                                         *)
Before(id, k, p) == id < IdOf(p) \/ (id = IdOf(p) /\ k < p.seq)
OnWay(N, id, k) == \E i \in DOMAIN N : IdOf(N[i]) = id /\ N[i].seq = k
Has(b, id, k) == k \in DOMAIN b /\ b[k] = <<id, k + 1>>
Heard(h, id) == \E i \in DOMAIN h : h[i] = id

PacketOK(E, s, p) ==
  /\ p.seq \in Nat /\ IdOf(p) \in Sender(E, s) /\ p.chunk = <<IdOf(p), p.seq + 1>>
  /\ p.seq < E[IdOf(p)].size
  /\ (p.fin <=> p.seq + 1 = E[IdOf(p)].size)
LineOK(E, s, N) ==
  /\ \A i \in DOMAIN N : i \in Nat \ {0} /\ PacketOK(E, s, N[i])
  /\ \A i, j \in DOMAIN N : i < j => Before(IdOf(N[i]), N[i].seq, N[j])
ChunkOK(E, s, N, b, h, k) ==
  \E id \in Sender(E, s) : /\ Has(b, id, k) /\ k < E[id].size /\ ~Heard(h, id)
                           /\ \A i \in DOMAIN N : Before(id, k, N[i])
BufOK(E, s, N, b, h) ==
  /\ IsFiniteSet(DOMAIN b) /\ DOMAIN b \subseteq Nat
  /\ \A k \in DOMAIN b : ChunkOK(E, s, N, b, h, k)
HeardOK(E, s, N, h, L) ==
  /\ \A i \in DOMAIN h : i \in Nat /\ h[i] \in Sender(E, s) \ L /\ \A j \in DOMAIN N : h[i] < IdOf(N[j])
  /\ \A i, j \in DOMAIN h : i < j => h[i] < h[j]

(* An event that lost nothing was heard, or all of it is on its way or in the buffer.       *)
Unhurt(E, N, b, h, id) ==
  \/ Heard(h, id)
  \/ /\ OnWay(N, id, E[id].size - 1)
     /\ \A k \in 0..(E[id].size - 1) : OnWay(N, id, k) \/ Has(b, id, k)
(* Of one that did something is nowhere.                                                *)
Hurt(E, N, b, l) == \E k \in 0..(E[l].size - 1) : ~OnWay(N, l, k) /\ ~Has(b, l, k)

SenderOK(E, s, N, b, h, L) ==
  /\ LineOK(E, s, N) /\ BufOK(E, s, N, b, h) /\ HeardOK(E, s, N, h, L)
  /\ \A id \in Sender(E, s) \ L : Unhurt(E, N, b, h, id)
  /\ L = {} \/ \E l \in Sender(E, s) : L = {l} /\ Hurt(E, N, b, l)

ChInv ==
  /\ chEvents \in Seq(ChEvent) /\ net \in [ChSenders -> Seq(ChPacket)] /\ chHeard \in [ChSenders -> Seq(Nat)]
  /\ DOMAIN buf = ChSenders /\ DOMAIN chLost = ChSenders
  /\ \A s \in ChSenders : SenderOK(chEvents, s, net[s], buf[s], chHeard[s], chLost[s])

(* r is q without its first packet. *)
Popped(q, r) ==
  /\ \A i \in DOMAIN r : i \in Nat \ {0} /\ i + 1 \in DOMAIN q /\ r[i] = q[i + 1]
  /\ \A i \in DOMAIN q : i # 1 => i - 1 \in DOMAIN r /\ r[i - 1] = q[i]

LEMMA TailPops ==
  ASSUME NEW S, NEW q \in Seq(S), 1 \in DOMAIN q
  PROVE  /\ Tail(q) \in Seq(S) /\ Popped(q, Tail(q))
         /\ Udp!RemoveAt(q, 1) \in Seq(S) /\ Popped(q, Udp!RemoveAt(q, 1))
<1>1. Len(q) \in Nat /\ Len(q) >= 1 /\ DOMAIN q = 1..Len(q)
      OBVIOUS
<1>2. Tail(q) \in Seq(S) /\ DOMAIN Tail(q) = 1..(Len(q) - 1) /\ \A i \in 1..(Len(q) - 1) : Tail(q)[i] = q[i + 1]
      BY <1>1
<1>3. Popped(q, Tail(q))
  <2> DEFINE r == Tail(q)
  <2>1. DOMAIN r = 1..(Len(q) - 1) /\ \A i \in 1..(Len(q) - 1) : r[i] = q[i + 1]
        BY <1>2
  <2> HIDE DEF r
  <2>2. \A i \in DOMAIN q : i # 1 => i - 1 \in DOMAIN r /\ r[i - 1] = q[(i - 1) + 1] /\ (i - 1) + 1 = i
        BY <1>1, <2>1
  <2>3. \A i \in DOMAIN r : i \in Nat \ {0} /\ i + 1 \in DOMAIN q /\ r[i] = q[i + 1]
        BY <1>1, <2>1
  <2> QED BY <2>2, <2>3 DEF Popped, r
<1>4. SubSeq(q, 1, 0) = <<>>
      BY SubSeqEmpty
<1>5. SubSeq(q, 2, Len(q)) = Tail(q)
      BY <1>1, TailIsSubSeq
<1>6. Udp!RemoveAt(q, 1) = SubSeq(q, 1, 0) \o SubSeq(q, 2, Len(q))
      BY DEF Udp!RemoveAt
<1>7. Udp!RemoveAt(q, 1) = Tail(q)
      BY <1>2, <1>4, <1>5, <1>6, ConcatEmptySeq
<1> QED BY <1>2, <1>3, <1>7

LEMMA PopWay ==
  ASSUME NEW N, NEW N2, Popped(N, N2), 1 \in DOMAIN N
  PROVE  /\ \A id, k : OnWay(N2, id, k) => OnWay(N, id, k)
         /\ \A id, k : OnWay(N, id, k) => OnWay(N2, id, k) \/ (id = IdOf(N[1]) /\ k = N[1].seq)
BY DEF OnWay, Popped

LEMMA PopLine ==
  ASSUME NEW E, NEW s, NEW N, NEW N2, LineOK(E, s, N), Popped(N, N2), 1 \in DOMAIN N
  PROVE  /\ LineOK(E, s, N2) /\ PacketOK(E, s, N[1])
         /\ \A i \in DOMAIN N2 : Before(IdOf(N[1]), N[1].seq, N2[i])
<1>1. \A i \in DOMAIN N2 : /\ i \in Nat /\ i + 1 \in DOMAIN N /\ N2[i] = N[i + 1] /\ 1 < i + 1
                           /\ \A j \in Nat : i < j => i + 1 < j + 1
      BY DEF LineOK, Popped
<1>2. PacketOK(E, s, N[1]) /\ \A i \in DOMAIN N2 : PacketOK(E, s, N2[i])
      BY <1>1 DEF LineOK
<1>3. \A i \in DOMAIN N2 : Before(IdOf(N[1]), N[1].seq, N2[i])
      BY <1>1 DEF LineOK
<1>4. \A i, j \in DOMAIN N2 : i < j => Before(IdOf(N2[i]), N2[i].seq, N2[j])
      BY <1>1 DEF LineOK
<1> QED BY <1>1, <1>2, <1>3, <1>4 DEF LineOK

-----------------------------------------------------------------------------
(* What the buffer is worth. *)
LEMMA SameCardinality == \A S : Udp!Cardinality(S) = Cardinality(S)
BY DEF Udp!Cardinality, Cardinality

LEMMA Counted ==
  ASSUME NEW n \in Nat
  PROVE  IsFiniteSet(0..(n - 1)) /\ Cardinality(0..(n - 1)) = n
<1>1. 0 \in Int /\ n - 1 \in Int
      OBVIOUS
<1>2. /\ IsFiniteSet(0..(n - 1))
      /\ Cardinality(0..(n - 1)) = IF 0 > n - 1 THEN 0 ELSE n - 1 - 0 + 1
      BY <1>1, FS_Interval
<1> QED BY <1>2

LEMMA PlaceIs ==
  ASSUME NEW b, IsFiniteSet(DOMAIN b), DOMAIN b \subseteq Nat, NEW n \in Nat \ {0}, 0..(n - 1) \subseteq DOMAIN b
  PROVE  /\ Cardinality(DOMAIN b) >= n
         /\ \A k \in DOMAIN b : (k < n => Udp!Place(b, k) = k + 1) /\ (Udp!Place(b, k) <= n => k < n)
<1>1. Cardinality(0..(n - 1)) = n
      BY Counted
<1>2. Cardinality(DOMAIN b) \in Nat /\ Cardinality(DOMAIN b) >= n
      BY <1>1, FS_Subset, FS_CardinalityType
<1>3. ASSUME NEW k \in DOMAIN b PROVE (k < n => Udp!Place(b, k) = k + 1) /\ (Udp!Place(b, k) <= n => k < n)
  <2> DEFINE low == {j \in DOMAIN b : j < k}
  <2>1. IsFiniteSet(low) /\ Cardinality(low) \in Nat
        BY FS_Subset, FS_CardinalityType
  <2>2. CASE k < n
    <3>1. low = 0..(k - 1)
          BY <2>2
    <3>2. k \in Nat /\ Cardinality(0..(k - 1)) = k
          BY Counted
    <3>3. Udp!Place(b, k) = k + 1
          BY <3>1, <3>2, SameCardinality DEF Udp!Place
    <3> QED BY <2>2, <3>2, <3>3
  <2>3. CASE ~(k < n)
    <3>1. 0..(n - 1) \subseteq low
          BY <2>3
    <3>2. Cardinality(low) >= n
          BY <1>1, <2>1, <3>1, FS_Subset
    <3>3. Udp!Place(b, k) = Cardinality(low) + 1
          BY SameCardinality DEF Udp!Place
    <3> QED BY <2>1, <2>3, <3>2, <3>3
  <2> QED BY <2>2, <2>3
<1> QED BY <1>2, <1>3

LEMMA WholeEvent ==
  ASSUME NEW b, IsFiniteSet(DOMAIN b), DOMAIN b \subseteq Nat, NEW id \in DOMAIN chEvents, chEvents[id].size \in Nat \ {0},
         \A k \in 0..(chEvents[id].size - 1) : Has(b, id, k)
  PROVE  Udp!EventOf(b) = <<id>>
<1> DEFINE n == chEvents[id].size
           said == {i \in DOMAIN chEvents : Udp!Begins(b, i) /\ Udp!IsLong(b, i)}
<1>1. 0..(n - 1) \subseteq DOMAIN b /\ 0 \in DOMAIN b /\ b[0] = <<id, 1>>
      BY DEF Has
<1>2. /\ Cardinality(DOMAIN b) >= n
      /\ \A k \in DOMAIN b : (k < n => Udp!Place(b, k) = k + 1) /\ (Udp!Place(b, k) <= n => k < n)
      BY <1>1, PlaceIs
<1>3. Udp!Begins(b, id) /\ Udp!IsLong(b, id)
  <2>1. \A j \in DOMAIN b : 0 <= j
        OBVIOUS
  <2>2. Udp!Begins(b, id)
        BY <1>1, <2>1 DEF Udp!Begins, Udp!ChunkAt
  <2>3. Udp!Cardinality(DOMAIN b) >= n
        BY <1>2, SameCardinality
  <2> QED BY <2>2, <2>3 DEF Udp!IsLong
<1>4. \A i : Udp!Begins(b, i) => i = id
  <2> SUFFICES ASSUME NEW i, Udp!Begins(b, i) PROVE i = id
      OBVIOUS
  <2>1. PICK k \in DOMAIN b : b[k] = <<i, 1>> /\ \A j \in DOMAIN b : k <= j
        BY DEF Udp!Begins, Udp!ChunkAt
  <2>2. k = 0
        BY <1>1, <2>1
  <2> QED BY <1>1, <2>1, <2>2
<1>5. said = {id}
      BY <1>3, <1>4
<1>6. Udp!IsWhole(b, id)
      BY <1>2 DEF Udp!IsWhole, Udp!ChunkAt, Has
<1> HIDE DEF said
<1>7. said # {} /\ (CHOOSE i \in said : TRUE) = id
      BY <1>5
<1>8. Udp!EventOf(b) = IF said = {} THEN <<>> ELSE IF Udp!IsWhole(b, CHOOSE i \in said : TRUE)
                       THEN <<CHOOSE i \in said : TRUE>> ELSE <<0>>
      BY DEF Udp!EventOf, said
<1> QED BY <1>6, <1>7, <1>8

LEMMA CutEvent ==
  ASSUME NEW b, NEW id \in DOMAIN chEvents, NEW n \in Nat, chEvents[id].size = n,
         \A k \in DOMAIN b : k \in 0..(n - 1) /\ b[k] = <<id, k + 1>>, NEW g \in 0..(n - 1), g \notin DOMAIN b
  PROVE  Udp!EventOf(b) = <<>>
<1> DEFINE rest == (0..(n - 1)) \ {g}
<1>1. IsFiniteSet(0..(n - 1)) /\ Cardinality(0..(n - 1)) = n
      BY Counted
<1>2. IsFiniteSet(rest) /\ Cardinality(rest) = n - 1
  <2> DEFINE all == 0..(n - 1)
  <2>1. IsFiniteSet(all) /\ g \in all /\ Cardinality(all) = n
        BY <1>1
  <2> HIDE DEF all
  <2>2. IsFiniteSet(all \ {g}) /\ Cardinality(all \ {g}) = Cardinality(all) - 1
        BY <2>1, FS_RemoveElement
  <2> QED BY <2>1, <2>2 DEF all
<1>3. DOMAIN b \subseteq rest
      OBVIOUS
<1>4. Cardinality(DOMAIN b) \in Nat /\ Cardinality(DOMAIN b) <= n - 1
      BY <1>2, <1>3, FS_Subset, FS_CardinalityType
<1>5. \A i : Udp!Begins(b, i) => i = id
      BY DEF Udp!Begins, Udp!ChunkAt
<1>6. ~Udp!IsLong(b, id)
      BY <1>4, SameCardinality DEF Udp!IsLong
<1> QED BY <1>5, <1>6 DEF Udp!EventOf

-----------------------------------------------------------------------------
(* What the packet that comes next says of the others. *)
LEMMA NextPacket ==
  ASSUME NEW E, NEW s, NEW N, NEW b, NEW h, NEW L, E \in Seq(ChEvent), SenderOK(E, s, N, b, h, L), 1 \in DOMAIN N
  PROVE  /\ IdOf(N[1]) \in Sender(E, s) /\ ~Heard(h, IdOf(N[1])) /\ \A i \in DOMAIN h : h[i] < IdOf(N[1])
         /\ \A id \in Sender(E, s) : id \in Nat /\ E[id].size \in Nat \ {0}
         /\ \A id, k : OnWay(N, id, k) =>
              id \in Nat /\ k \in Nat /\ (IdOf(N[1]) < id \/ (IdOf(N[1]) = id /\ N[1].seq <= k))
         /\ \A id, k : Has(b, id, k) =>
              k \in Nat /\ id \in Nat /\ ~Heard(h, id) /\ (id < IdOf(N[1]) \/ (id = IdOf(N[1]) /\ k < N[1].seq))
<1>1. PacketOK(E, s, N[1]) /\ \A i \in DOMAIN N : i \in Nat \ {0} /\ PacketOK(E, s, N[i])
      BY DEF SenderOK, LineOK
<1>2. \A id \in Sender(E, s) : id \in Nat /\ E[id].size \in Nat \ {0}
  <2>1. \A id \in DOMAIN E : id \in Nat /\ E[id] \in ChEvent
        OBVIOUS
  <2> QED BY <2>1 DEF Sender, ChEvent
<1>3. \A i \in DOMAIN h : h[i] < IdOf(N[1])
      BY DEF SenderOK, HeardOK
<1>4. ~Heard(h, IdOf(N[1])) /\ IdOf(N[1]) \in Sender(E, s)
      BY <1>1, <1>2, <1>3 DEF Heard, PacketOK
<1>5. ASSUME NEW id, NEW k, OnWay(N, id, k)
      PROVE  id \in Nat /\ k \in Nat /\ (IdOf(N[1]) < id \/ (IdOf(N[1]) = id /\ N[1].seq <= k))
  <2>1. PICK i \in DOMAIN N : IdOf(N[i]) = id /\ N[i].seq = k
        BY <1>5 DEF OnWay
  <2>2. id \in Nat /\ k \in Nat
        BY <1>1, <1>2, <2>1 DEF PacketOK
  <2>3. i = 1 \/ Before(IdOf(N[1]), N[1].seq, N[i])
    <3>1. i \in Nat /\ (\A u, v \in DOMAIN N : u < v => Before(IdOf(N[u]), N[u].seq, N[v]))
          BY <1>1 DEF SenderOK, LineOK
    <3>2. i = 1 \/ 1 < i
          BY <1>1
    <3> QED BY <3>1, <3>2
  <2>4. IdOf(N[1]) \in Nat /\ N[1].seq \in Nat
        BY <1>1, <1>2 DEF PacketOK
  <2> QED BY <2>1, <2>2, <2>3, <2>4 DEF Before
<1>6. ASSUME NEW id, NEW k, Has(b, id, k)
      PROVE  k \in Nat /\ id \in Nat /\ ~Heard(h, id) /\ (id < IdOf(N[1]) \/ (id = IdOf(N[1]) /\ k < N[1].seq))
  <2>1. k \in DOMAIN b /\ k \in Nat /\ ChunkOK(E, s, N, b, h, k)
        BY <1>6 DEF Has, SenderOK, BufOK
  <2>2. PICK j \in Sender(E, s) : Has(b, j, k) /\ ~Heard(h, j) /\ Before(j, k, N[1])
        BY <2>1 DEF ChunkOK
  <2>3. j = id
        BY <1>6, <2>2 DEF Has
  <2> QED BY <1>2, <2>1, <2>2, <2>3 DEF Before
<1> QED BY <1>2, <1>3, <1>4, <1>5, <1>6

LEMMA LoseKeeps ==
  ASSUME NEW E, NEW s, NEW N, NEW b, NEW h, E \in Seq(ChEvent), SenderOK(E, s, N, b, h, {}), 1 \in DOMAIN N,
         NEW N2, Popped(N, N2)
  PROVE  SenderOK(E, s, N2, b, h, {IdOf(N[1])})
<1> DEFINE p == N[1]
           l == IdOf(p)
<1>1. /\ l \in Sender(E, s) /\ ~Heard(h, l) /\ \A i \in DOMAIN h : h[i] < l
      /\ \A id \in Sender(E, s) : id \in Nat /\ E[id].size \in Nat \ {0}
      /\ \A id, k : Has(b, id, k) =>
           k \in Nat /\ id \in Nat /\ ~Heard(h, id) /\ (id < IdOf(N[1]) \/ (id = IdOf(N[1]) /\ k < N[1].seq))
      BY NextPacket
<1>2. /\ LineOK(E, s, N2) /\ PacketOK(E, s, p) /\ \A i \in DOMAIN N2 : Before(l, p.seq, N2[i])
      BY PopLine DEF SenderOK
<1>3. /\ \A id, k : OnWay(N2, id, k) => OnWay(N, id, k)
      /\ \A id, k : OnWay(N, id, k) => OnWay(N2, id, k) \/ (id = l /\ k = p.seq)
      BY PopWay
<1>4. \A i \in DOMAIN N2 : \E j \in DOMAIN N : N2[i] = N[j]
      BY DEF Popped
<1>5. BufOK(E, s, N2, b, h)
      BY <1>4 DEF SenderOK, BufOK, ChunkOK
<1>6. HeardOK(E, s, N2, h, {l})
  <2>1. \A i \in DOMAIN h : i \in Nat /\ h[i] \in Sender(E, s) /\ \A j \in DOMAIN N2 : h[i] < IdOf(N2[j])
        BY <1>4 DEF SenderOK, HeardOK
  <2>2. \A i, j \in DOMAIN h : i < j => h[i] < h[j]
        BY DEF SenderOK, HeardOK
  <2>3. \A i \in DOMAIN h : h[i] # l
        BY <1>1 DEF Heard
  <2> HIDE DEF l
  <2> QED BY <2>1, <2>2, <2>3 DEF HeardOK
<1>7. ASSUME NEW id \in Sender(E, s) \ {l} PROVE Unhurt(E, N2, b, h, id)
  <2>1. Unhurt(E, N, b, h, id)
        BY DEF SenderOK
  <2> HIDE DEF l, p
  <2> QED BY <1>3, <2>1 DEF Unhurt
<1>8. Hurt(E, N2, b, l)
  <2>1. p.seq \in Nat /\ p.seq < E[l].size /\ E[l].size \in Nat
        BY <1>1, <1>2 DEF PacketOK
  <2>2. p.seq \in 0..(E[l].size - 1)
        BY <2>1
  <2>3. ~OnWay(N2, l, p.seq)
        BY <1>1, <1>2, <2>1 DEF OnWay, Before
  <2>4. ~Has(b, l, p.seq)
        BY <1>1, <2>1
  <2> QED BY <2>2, <2>3, <2>4 DEF Hurt
<1> HIDE DEF l
<1>9. SenderOK(E, s, N2, b, h, {l})
      BY <1>1, <1>2, <1>5, <1>6, <1>7, <1>8 DEF SenderOK
<1> QED BY <1>9 DEF l

(* A packet that makes no event. *)
LEMMA ReceiveKeeps ==
  ASSUME NEW E, NEW s, NEW N, NEW b, NEW h, NEW L, E \in Seq(ChEvent), SenderOK(E, s, N, b, h, L), 1 \in DOMAIN N,
         NEW N2, Popped(N, N2), N[1].fin => IdOf(N[1]) \in L
  PROVE  SenderOK(E, s, N2, Udp!Put(b, N[1]), h, L)
<1> DEFINE p == N[1]
           l == IdOf(p)
           c == Udp!Put(b, p)
<1>1. /\ l \in Sender(E, s) /\ ~Heard(h, l)
      /\ \A id \in Sender(E, s) : id \in Nat /\ E[id].size \in Nat \ {0}
      /\ \A id, k : OnWay(N, id, k) =>
           id \in Nat /\ k \in Nat /\ (IdOf(N[1]) < id \/ (IdOf(N[1]) = id /\ N[1].seq <= k))
      /\ \A id, k : Has(b, id, k) =>
           k \in Nat /\ id \in Nat /\ ~Heard(h, id) /\ (id < IdOf(N[1]) \/ (id = IdOf(N[1]) /\ k < N[1].seq))
      BY NextPacket
<1>2. /\ LineOK(E, s, N2) /\ PacketOK(E, s, p) /\ \A i \in DOMAIN N2 : Before(l, p.seq, N2[i])
      BY PopLine DEF SenderOK
<1>3. /\ \A id, k : OnWay(N2, id, k) => OnWay(N, id, k)
      /\ \A id, k : OnWay(N, id, k) => OnWay(N2, id, k) \/ (id = l /\ k = p.seq)
      BY PopWay
<1>4. \A i \in DOMAIN N2 : \E j \in DOMAIN N : N2[i] = N[j]
      BY DEF Popped
<1>5. /\ DOMAIN c = DOMAIN b \cup {p.seq} /\ c[p.seq] = <<l, p.seq + 1>>
      /\ \A k \in DOMAIN b : k # p.seq => c[k] = b[k]
      BY <1>2 DEF Udp!Put, PacketOK
<1> HIDE DEF c
<1>6. /\ p.seq \in Nat /\ p.seq < E[l].size /\ (p.fin <=> p.seq + 1 = E[l].size)
      BY <1>2 DEF PacketOK
<1>7. BufOK(E, s, N2, c, h)
  <2>1. IsFiniteSet(DOMAIN b) /\ DOMAIN b \subseteq Nat
        BY DEF SenderOK, BufOK
  <2>2. IsFiniteSet(DOMAIN c) /\ DOMAIN c \subseteq Nat
    <3>1. IsFiniteSet(DOMAIN b \cup {p.seq})
          BY <2>1, FS_AddElement
    <3> QED BY <1>5, <1>6, <2>1, <3>1
  <2>3. ASSUME NEW k \in DOMAIN c, k # p.seq PROVE ChunkOK(E, s, N2, c, h, k)
    <3>1. k \in DOMAIN b /\ ChunkOK(E, s, N, b, h, k) /\ c[k] = b[k]
          BY <1>5, <2>3 DEF SenderOK, BufOK
    <3> QED BY <1>4, <2>3, <3>1 DEF ChunkOK, Has
  <2>4. ChunkOK(E, s, N2, c, h, p.seq)
        BY <1>1, <1>2, <1>5, <1>6 DEF ChunkOK, Has
  <2> QED BY <2>2, <2>3, <2>4 DEF BufOK
<1>8. HeardOK(E, s, N2, h, L)
      BY <1>4 DEF SenderOK, HeardOK
<1>9. ASSUME NEW id, NEW k, Has(c, id, k) PROVE Has(b, id, k) \/ (id = l /\ k = p.seq)
      BY <1>5, <1>9 DEF Has
<1>10. ASSUME NEW id \in Sender(E, s) \ L PROVE Unhurt(E, N2, c, h, id)
  <2> SUFFICES ASSUME ~Heard(h, id) PROVE Unhurt(E, N2, c, h, id)
      BY DEF Unhurt
  <2>1. /\ OnWay(N, id, E[id].size - 1)
        /\ \A k \in 0..(E[id].size - 1) : OnWay(N, id, k) \/ Has(b, id, k)
        BY DEF SenderOK, Unhurt
  <2>2. ~(id = l /\ E[id].size - 1 = p.seq)
    <3>1. SUFFICES ASSUME id = l, E[id].size - 1 = p.seq PROVE FALSE
          OBVIOUS
    <3>2. p.fin
          BY <1>1, <1>6, <3>1
    <3> QED BY <3>1, <3>2
  <2>3. OnWay(N2, id, E[id].size - 1)
        BY <1>3, <2>1, <2>2
  <2>4. ASSUME NEW k \in 0..(E[id].size - 1) PROVE OnWay(N2, id, k) \/ Has(c, id, k)
    <3>1. CASE OnWay(N, id, k)
          BY <1>3, <1>5, <3>1 DEF Has
    <3>2. CASE Has(b, id, k)
      <4>1. id \in Nat /\ l \in Nat /\ (id < l \/ (id = l /\ k < p.seq)) /\ (l < id \/ l = id)
            BY <1>1, <2>1, <3>2
      <4>2. k < p.seq
            BY <4>1
      <4>3. k # p.seq
            BY <1>6, <4>2
      <4> QED BY <1>5, <3>2, <4>3 DEF Has
    <3> QED BY <2>1, <3>1, <3>2
  <2> QED BY <2>3, <2>4 DEF Unhurt
<1>11. ASSUME NEW i, Hurt(E, N, b, i) PROVE Hurt(E, N2, c, i)
  <2>1. PICK k \in 0..(E[i].size - 1) : ~OnWay(N, i, k) /\ ~Has(b, i, k)
        BY <1>11 DEF Hurt
  <2>2. OnWay(N, l, p.seq)
        BY DEF OnWay
  <2>3. ~OnWay(N2, i, k) /\ ~Has(c, i, k)
        BY <1>3, <1>9, <2>1, <2>2
  <2> QED BY <2>3 DEF Hurt
<1>12. SenderOK(E, s, N2, c, h, L)
       BY <1>2, <1>7, <1>8, <1>10, <1>11 DEF SenderOK
<1> QED BY <1>12 DEF c

(* The last packet of an event that lost one makes no event: all that the buffer has is of     *)
(* that event.                                                                         *)
LEMMA NothingHeard ==
  ASSUME NEW s, NEW N, NEW b, NEW h, NEW L, chEvents \in Seq(ChEvent), SenderOK(chEvents, s, N, b, h, L),
         1 \in DOMAIN N, IdOf(N[1]) \in L
  PROVE  Udp!EventOf(Udp!Put(b, N[1])) = <<>>
<1> DEFINE p == N[1]
           l == IdOf(p)
           c == Udp!Put(b, p)
           n == chEvents[l].size
<1>1. /\ l \in Sender(chEvents, s)
      /\ \A id \in Sender(chEvents, s) : id \in Nat /\ chEvents[id].size \in Nat \ {0}
      /\ \A id, k : OnWay(N, id, k) =>
           id \in Nat /\ k \in Nat /\ (IdOf(N[1]) < id \/ (IdOf(N[1]) = id /\ N[1].seq <= k))
      /\ \A id, k : Has(b, id, k) =>
           k \in Nat /\ id \in Nat /\ ~Heard(h, id) /\ (id < IdOf(N[1]) \/ (id = IdOf(N[1]) /\ k < N[1].seq))
      BY NextPacket
<1>2. PacketOK(chEvents, s, p)
      BY DEF SenderOK, LineOK
<1>3. p.seq \in Nat /\ p.seq < n /\ n \in Nat /\ l \in DOMAIN chEvents
      BY <1>1, <1>2 DEF PacketOK, Sender
<1>4. /\ DOMAIN c = DOMAIN b \cup {p.seq} /\ c[p.seq] = <<l, p.seq + 1>>
      /\ \A k \in DOMAIN b : k # p.seq => c[k] = b[k]
      BY <1>2 DEF Udp!Put, PacketOK
<1> HIDE DEF c
<1>5. L = {l} /\ Hurt(chEvents, N, b, l)
      BY DEF SenderOK
<1>6. ASSUME NEW k \in DOMAIN b PROVE k \in 0..(n - 1) /\ b[k] = <<l, k + 1>>
  <2>1. PICK id \in Sender(chEvents, s) : Has(b, id, k) /\ k < chEvents[id].size
        BY DEF SenderOK, BufOK, ChunkOK
  <2>2. id = l
    <3>1. SUFFICES ASSUME id # l PROVE FALSE
          OBVIOUS
    <3>2. id \notin L /\ ~Heard(h, id)
          BY <1>1, <1>5, <2>1, <3>1
    <3>3. OnWay(N, id, chEvents[id].size - 1)
          BY <3>2 DEF SenderOK, Unhurt
    <3>4. l < id
          BY <1>1, <3>1, <3>3
    <3>5. id < l
          BY <1>1, <2>1, <3>1
    <3> QED BY <1>1, <3>4, <3>5
  <2> QED BY <1>1, <1>3, <2>1, <2>2 DEF Has
<1>7. \A k \in DOMAIN c : k \in 0..(n - 1) /\ c[k] = <<l, k + 1>>
  <2>1. p.seq \in 0..(n - 1)
        BY <1>3
  <2> QED BY <1>4, <1>6, <2>1
<1>8. PICK g \in 0..(n - 1) : ~OnWay(N, l, g) /\ ~Has(b, l, g)
      BY <1>5 DEF Hurt
<1>9. g \notin DOMAIN c
  <2>1. g \notin DOMAIN b
        BY <1>6, <1>8 DEF Has
  <2>2. g # p.seq
        BY <1>8 DEF OnWay
  <2> QED BY <1>4, <2>1, <2>2
<1> HIDE DEF l, n
<1>10. chEvents[l].size = n
       BY DEF n
<1>11. Udp!EventOf(c) = <<>>
       BY <1>3, <1>7, <1>9, <1>10, CutEvent
<1> QED BY <1>11 DEF c

(* The last packet of an event that lost none completes it.                               *)
LEMMA EventHeard ==
  ASSUME NEW s, NEW N, NEW b, NEW h, NEW L, chEvents \in Seq(ChEvent), SenderOK(chEvents, s, N, b, h, L),
         1 \in DOMAIN N, N[1].fin, IdOf(N[1]) \notin L
  PROVE  Udp!EventOf(Udp!Put(b, N[1])) = <<IdOf(N[1])>>
<1> DEFINE p == N[1]
           l == IdOf(p)
           c == Udp!Put(b, p)
           n == chEvents[l].size
<1>1. /\ l \in Sender(chEvents, s) /\ ~Heard(h, l)
      /\ \A id \in Sender(chEvents, s) : id \in Nat /\ chEvents[id].size \in Nat \ {0}
      /\ \A id, k : OnWay(N, id, k) =>
           id \in Nat /\ k \in Nat /\ (IdOf(N[1]) < id \/ (IdOf(N[1]) = id /\ N[1].seq <= k))
      BY NextPacket
<1>2. PacketOK(chEvents, s, p)
      BY DEF SenderOK, LineOK
<1>3. p.seq \in Nat /\ p.seq + 1 = n /\ n \in Nat \ {0} /\ l \in DOMAIN chEvents
      BY <1>1, <1>2 DEF PacketOK, Sender
<1>4. /\ DOMAIN c = DOMAIN b \cup {p.seq} /\ c[p.seq] = <<l, p.seq + 1>>
      /\ \A k \in DOMAIN b : k # p.seq => c[k] = b[k]
      BY <1>2 DEF Udp!Put, PacketOK
<1>5. IsFiniteSet(DOMAIN c) /\ DOMAIN c \subseteq Nat
  <2>1. IsFiniteSet(DOMAIN b) /\ DOMAIN b \subseteq Nat
        BY DEF SenderOK, BufOK
  <2>2. IsFiniteSet(DOMAIN b \cup {p.seq})
        BY <2>1, FS_AddElement
  <2> QED BY <1>3, <1>4, <2>1, <2>2
<1> HIDE DEF c
<1>6. \A k \in 0..(n - 1) : OnWay(N, l, k) \/ Has(b, l, k)
      BY <1>1 DEF SenderOK, Unhurt
<1>7. ASSUME NEW k \in 0..(n - 1) PROVE Has(c, l, k)
  <2>1. CASE k = p.seq
        BY <1>4, <2>1 DEF Has
  <2>2. CASE k # p.seq
    <3>1. ~OnWay(N, l, k)
      <4>1. ~(p.seq <= k)
            BY <1>3, <2>2
      <4> QED BY <1>1, <4>1
    <3>2. Has(b, l, k)
          BY <1>6, <3>1
    <3> QED BY <1>4, <2>2, <3>2 DEF Has
  <2> QED BY <2>1, <2>2
<1> HIDE DEF l, n
<1>8. chEvents[l].size \in Nat \ {0} /\ \A k \in 0..(chEvents[l].size - 1) : Has(c, l, k)
      BY <1>3, <1>7 DEF n
<1>9. Udp!EventOf(c) = <<l>>
      BY <1>3, <1>5, <1>8, WholeEvent
<1> QED BY <1>9 DEF c, l

LEMMA HeardKeeps ==
  ASSUME NEW E, NEW s, NEW N, NEW b, NEW h \in Seq(Nat), NEW L, E \in Seq(ChEvent), SenderOK(E, s, N, b, h, L),
         1 \in DOMAIN N, NEW N2, Popped(N, N2), N[1].fin, IdOf(N[1]) \notin L
  PROVE  SenderOK(E, s, N2, <<>>, Append(h, IdOf(N[1])), L)
<1> DEFINE p == N[1]
           l == IdOf(p)
           g == Append(h, l)
<1>1. /\ l \in Sender(E, s) /\ ~Heard(h, l) /\ \A i \in DOMAIN h : h[i] < l
      /\ \A id \in Sender(E, s) : id \in Nat /\ E[id].size \in Nat \ {0}
      /\ \A id, k : OnWay(N, id, k) =>
           id \in Nat /\ k \in Nat /\ (IdOf(N[1]) < id \/ (IdOf(N[1]) = id /\ N[1].seq <= k))
      /\ \A id, k : Has(b, id, k) =>
           k \in Nat /\ id \in Nat /\ ~Heard(h, id) /\ (id < IdOf(N[1]) \/ (id = IdOf(N[1]) /\ k < N[1].seq))
      BY NextPacket
<1>2. /\ LineOK(E, s, N2) /\ PacketOK(E, s, p) /\ \A i \in DOMAIN N2 : Before(l, p.seq, N2[i])
      BY PopLine DEF SenderOK
<1>3. /\ \A id, k : OnWay(N2, id, k) => OnWay(N, id, k)
      /\ \A id, k : OnWay(N, id, k) => OnWay(N2, id, k) \/ (id = l /\ k = p.seq)
      BY PopWay
<1>4. /\ \A i \in DOMAIN g : (i \in DOMAIN h /\ g[i] = h[i]) \/ (i = Len(h) + 1 /\ g[i] = l)
      /\ \A i \in DOMAIN h : i \in DOMAIN g /\ g[i] = h[i] /\ i \in Nat /\ i < Len(h) + 1
      /\ Len(h) + 1 \in DOMAIN g /\ g[Len(h) + 1] = l /\ Len(h) + 1 \in Nat
      BY <1>1
<1>5. \A i \in DOMAIN N2 : \E j \in DOMAIN N : N2[i] = N[j]
      BY DEF Popped
<1>6. \A i \in DOMAIN N2 : l < IdOf(N2[i])
  <2> SUFFICES ASSUME NEW i \in DOMAIN N2, IdOf(N2[i]) = l, p.seq < N2[i].seq PROVE FALSE
      BY <1>2 DEF Before
  <2>1. PacketOK(E, s, N2[i])
        BY <1>2 DEF LineOK
  <2> QED BY <1>1, <1>2, <2>1 DEF PacketOK
<1> HIDE DEF g, l
<1>7. HeardOK(E, s, N2, g, L)
  <2>1. \A i \in DOMAIN h : i \in Nat /\ h[i] \in Sender(E, s) \ L /\ \A j \in DOMAIN N2 : h[i] < IdOf(N2[j])
        BY <1>5 DEF SenderOK, HeardOK
  <2>2. \A i, j \in DOMAIN h : i < j => h[i] < h[j]
        BY DEF SenderOK, HeardOK
  <2>3. l \in Sender(E, s) \ L
        BY <1>1 DEF l
  <2>4. \A i \in DOMAIN g :
          i \in Nat /\ g[i] \in Sender(E, s) \ L /\ \A j \in DOMAIN N2 : g[i] < IdOf(N2[j])
        BY <1>4, <1>6, <2>1, <2>3
  <2>5. \A i, j \in DOMAIN g : i < j => g[i] < g[j]
        BY <1>1, <1>4, <2>2
  <2> QED BY <2>4, <2>5 DEF HeardOK
<1>8. BufOK(E, s, N2, <<>>, g)
      BY FS_EmptySet DEF BufOK
<1>9. \A id : Heard(h, id) => Heard(g, id)
      BY <1>4 DEF Heard
<1>10. Heard(g, l)
      BY <1>4 DEF Heard
<1>11. ASSUME NEW id \in Sender(E, s) \ L PROVE Unhurt(E, N2, <<>>, g, id)
  <2> SUFFICES ASSUME ~Heard(h, id), id # l PROVE Unhurt(E, N2, <<>>, g, id)
      BY <1>9, <1>10 DEF Unhurt
  <2>1. /\ OnWay(N, id, E[id].size - 1)
        /\ \A k \in 0..(E[id].size - 1) : OnWay(N, id, k) \/ Has(b, id, k)
        BY DEF SenderOK, Unhurt
  <2>2. l \in Nat /\ id \in Nat /\ l < id
        BY <1>1, <2>1 DEF l
  <2>3. \A k : ~Has(b, id, k)
        BY <1>1, <2>2 DEF l
  <2> QED BY <1>3, <2>1, <2>3 DEF Unhurt, l
<1>12. ASSUME NEW i, Hurt(E, N, b, i) PROVE Hurt(E, N2, <<>>, i)
       BY <1>3, <1>12 DEF Hurt, Has
<1>13. SenderOK(E, s, N2, <<>>, g, L)
       BY <1>2, <1>7, <1>8, <1>11, <1>12 DEF SenderOK
<1> QED BY <1>13 DEF g, l

-----------------------------------------------------------------------------
(* An event is sent: E2 and N2 are the events and the packets then. *)
Sends(E, E2, s, size, N, N2) ==
  /\ DOMAIN E2 = DOMAIN E \cup {Len(E) + 1} /\ \A id \in DOMAIN E : E2[id] = E[id] /\ id < Len(E) + 1
  /\ Len(E) \in Nat /\ E2[Len(E) + 1] = [by |-> s, size |-> size]
  /\ \A i \in DOMAIN N : i \in DOMAIN N2 /\ N2[i] = N[i] /\ i \in 1..Len(N)
  /\ Len(N) \in Nat /\ DOMAIN N2 = 1..(Len(N) + size)
  /\ \A i \in DOMAIN N2 : i \in DOMAIN N \/ /\ i - Len(N) \in 1..size
                                            /\ N2[i].seq = i - Len(N) - 1
                                            /\ N2[i].chunk = <<Len(E) + 1, i - Len(N)>>
                                            /\ (N2[i].fin <=> i - Len(N) = size)

LEMMA SendIs ==
  ASSUME NEW E \in Seq(ChEvent), NEW s \in ChSenders, NEW size \in Nat \ {0}, NEW N \in Seq(ChPacket),
         NEW E2, E2 = Append(E, [by |-> s, size |-> size]),
         NEW T, T = [i \in 1..size |-> [seq |-> i - 1, chunk |-> <<Len(E) + 1, i>>, fin |-> i = size]]
  PROVE  /\ E2 \in Seq(ChEvent) /\ N \o T \in Seq(ChPacket)
         /\ Sends(E, E2, s, size, N, N \o T)
<1> DEFINE e == [by |-> s, size |-> size]
           n == N \o T
<1>1. e \in ChEvent
      BY DEF ChEvent
<1>2. T \in Seq(ChPacket) /\ Len(T) = size /\ DOMAIN T = 1..size
  <2>1. Len(E) + 1 \in Nat
        OBVIOUS
  <2>2. \A i \in 1..size : [seq |-> i - 1, chunk |-> <<Len(E) + 1, i>>, fin |-> i = size] \in ChPacket
        BY <2>1 DEF ChPacket
  <2> QED BY <2>2
<1>3. /\ \A i \in 1..size : /\ T[i].seq = i - 1 /\ T[i].chunk = <<Len(E) + 1, i>>
                            /\ (T[i].fin <=> i = size)
      OBVIOUS
<1> HIDE DEF e
<1>4. /\ E2 \in Seq(ChEvent) /\ Len(E) \in Nat /\ DOMAIN E = 1..Len(E) /\ DOMAIN E2 = 1..(Len(E) + 1)
      /\ E2[Len(E) + 1] = e /\ \A id \in 1..Len(E) : E2[id] = E[id]
      BY <1>1 DEF e
<1>5. /\ n \in Seq(ChPacket) /\ Len(N) \in Nat /\ DOMAIN N = 1..Len(N) /\ DOMAIN n = 1..(Len(N) + size)
      /\ \A i \in 1..(Len(N) + size) : n[i] = IF i <= Len(N) THEN N[i] ELSE T[i - Len(N)]
      BY <1>2, ConcatProperties
<1> HIDE DEF n
<1>6. /\ DOMAIN E2 = DOMAIN E \cup {Len(E) + 1} /\ \A id \in DOMAIN E : E2[id] = E[id] /\ id < Len(E) + 1
      /\ Len(E) \in Nat /\ E2[Len(E) + 1] = [by |-> s, size |-> size]
      BY <1>4 DEF e
<1>7. \A i \in DOMAIN N : i \in DOMAIN n /\ n[i] = N[i] /\ i \in 1..Len(N)
      BY <1>5
<1>8. ASSUME NEW i \in DOMAIN n, i \notin DOMAIN N
      PROVE  /\ i - Len(N) \in 1..size
             /\ n[i].seq = i - Len(N) - 1
             /\ n[i].chunk = <<Len(E) + 1, i - Len(N)>>
             /\ (n[i].fin <=> i - Len(N) = size)
  <2>1. i \in 1..(Len(N) + size) /\ ~(i <= Len(N)) /\ Len(N) \in Nat
        BY <1>5, <1>8
  <2>2. i - Len(N) \in 1..size
    <3>1. \A m \in Nat, z \in Nat : \A j \in 1..(m + z) : ~(j <= m) => j - m \in 1..z
          OBVIOUS
    <3> QED BY <2>1, <3>1
  <2>3. n[i] = T[i - Len(N)]
        BY <1>5, <2>1
  <2> QED BY <1>3, <2>2, <2>3
<1>9. Sends(E, E2, s, size, N, n)
      BY <1>5, <1>6, <1>7, <1>8 DEF Sends
<1> QED BY <1>4, <1>5, <1>9 DEF n

LEMMA SendKeeps ==
  ASSUME NEW E \in Seq(ChEvent), NEW s, NEW size \in Nat \ {0}, NEW N, NEW b, NEW h, NEW L,
         SenderOK(E, s, N, b, h, L), NEW E2, NEW N2, Sends(E, E2, s, size, N, N2)
  PROVE  SenderOK(E2, s, N2, b, h, L)
<1> DEFINE id == Len(E) + 1
<1>1. /\ Sender(E2, s) = Sender(E, s) \cup {id} /\ E2[id].size = size /\ id \in Nat
      /\ \A j \in Sender(E, s) : E2[j] = E[j] /\ j < id /\ j \in Nat
      BY DEF Sends, Sender
<1>2. /\ \A i \in DOMAIN N : i \in DOMAIN N2 /\ N2[i] = N[i] /\ i \in 1..Len(N)
      /\ Len(N) \in Nat /\ DOMAIN N2 = 1..(Len(N) + size)
      /\ \A i \in DOMAIN N2 : i \in DOMAIN N \/ /\ i - Len(N) \in 1..size
                                                /\ N2[i].seq = i - Len(N) - 1
                                                /\ N2[i].chunk = <<id, i - Len(N)>>
                                                /\ (N2[i].fin <=> i - Len(N) = size)
      BY DEF Sends
<1> HIDE DEF id
<1>3. \A i \in DOMAIN N2 : i \in DOMAIN N \/ /\ N2[i].seq \in Nat /\ N2[i].seq < size /\ IdOf(N2[i]) = id
                                             /\ N2[i].chunk = <<id, N2[i].seq + 1>> /\ i = N2[i].seq + Len(N) + 1
                                             /\ (N2[i].fin <=> N2[i].seq + 1 = size)
      BY <1>2 DEF IdOf
<1>4. \A i \in DOMAIN N : /\ PacketOK(E, s, N[i]) /\ IdOf(N[i]) \in Sender(E, s)
      BY DEF SenderOK, LineOK, PacketOK
<1>5. ASSUME NEW i \in DOMAIN N2 PROVE i \in Nat \ {0} /\ PacketOK(E2, s, N2[i])
  <2>1. i \in Nat \ {0}
        BY <1>2
  <2>2. CASE i \in DOMAIN N
    <3>1. PacketOK(E2, s, N[i])
          BY <1>1, <1>4, <2>2 DEF PacketOK
    <3> QED BY <1>2, <2>1, <2>2, <3>1
  <2>3. CASE i \notin DOMAIN N
        BY <1>1, <1>3, <2>1, <2>3 DEF PacketOK
  <2> QED BY <2>2, <2>3
<1>6. ASSUME NEW i \in DOMAIN N2, NEW j \in DOMAIN N2, i < j PROVE Before(IdOf(N2[i]), N2[i].seq, N2[j])
  <2>1. CASE j \in DOMAIN N
    <3>1. i \in DOMAIN N
          BY <1>2, <1>6, <2>1
    <3> QED BY <1>2, <1>6, <2>1, <3>1 DEF SenderOK, LineOK
  <2>2. CASE i \in DOMAIN N /\ j \notin DOMAIN N
        BY <1>1, <1>2, <1>3, <1>4, <2>2 DEF Before
  <2>3. CASE i \notin DOMAIN N /\ j \notin DOMAIN N
        BY <1>2, <1>3, <1>6, <2>3 DEF Before
  <2> QED BY <2>1, <2>2, <2>3
<1>7. LineOK(E2, s, N2)
      BY <1>5, <1>6 DEF LineOK
<1>8. BufOK(E2, s, N2, b, h)
  <2> SUFFICES ASSUME NEW k \in DOMAIN b PROVE ChunkOK(E2, s, N2, b, h, k)
      BY DEF SenderOK, BufOK
  <2>1. PICK j \in Sender(E, s) : /\ Has(b, j, k) /\ k < E[j].size /\ ~Heard(h, j)
                                  /\ \A i \in DOMAIN N : Before(j, k, N[i])
        BY DEF SenderOK, BufOK, ChunkOK
  <2>2. \A i \in DOMAIN N2 : Before(j, k, N2[i])
        BY <1>1, <1>2, <1>3, <2>1 DEF Before
  <2> QED BY <1>1, <2>1, <2>2 DEF ChunkOK
<1>9. HeardOK(E2, s, N2, h, L)
  <2>1. \A i \in DOMAIN h : i \in Nat /\ h[i] \in Sender(E, s) \ L /\ \A j \in DOMAIN N : h[i] < IdOf(N[j])
        BY DEF SenderOK, HeardOK
  <2>2. \A i, j \in DOMAIN h : i < j => h[i] < h[j]
        BY DEF SenderOK, HeardOK
  <2> QED BY <1>1, <1>2, <1>3, <2>1, <2>2 DEF HeardOK
<1>10. /\ \A j, k : OnWay(N, j, k) => OnWay(N2, j, k)
       /\ \A j, k : j # id /\ OnWay(N2, j, k) => OnWay(N, j, k)
       BY <1>2, <1>3 DEF OnWay
<1>11. ASSUME NEW j \in Sender(E, s) \ L PROVE Unhurt(E2, N2, b, h, j)
       BY <1>1, <1>10 DEF SenderOK, Unhurt
<1>12. Unhurt(E2, N2, b, h, id)
  <2>1. ASSUME NEW k \in 0..(size - 1) PROVE OnWay(N2, id, k)
    <3>1. k + Len(N) + 1 \in DOMAIN N2 /\ k + Len(N) + 1 \notin DOMAIN N
          BY <1>2
    <3>2. \A i \in Int : i = k + Len(N) + 1 /\ N2[i].seq \in Nat /\ i = N2[i].seq + Len(N) + 1 => N2[i].seq = k
          BY <1>2
    <3>3. N2[k + Len(N) + 1].seq = k /\ IdOf(N2[k + Len(N) + 1]) = id
          BY <1>2, <1>3, <3>1, <3>2
    <3> QED BY <3>1, <3>3 DEF OnWay
  <2>2. size - 1 \in 0..(size - 1)
        OBVIOUS
  <2> QED BY <1>1, <2>1, <2>2 DEF Unhurt
<1>13. ASSUME NEW j \in Sender(E, s), Hurt(E, N, b, j) PROVE Hurt(E2, N2, b, j)
  <2>1. j # id /\ E2[j] = E[j]
        BY <1>1
  <2> QED BY <1>10, <1>13, <2>1 DEF Hurt
<1> QED BY <1>1, <1>7, <1>8, <1>9, <1>11, <1>12, <1>13 DEF SenderOK

(* Nothing changes for the others. *)
LEMMA OthersKeep ==
  ASSUME NEW E, NEW s, NEW N, NEW b, NEW h, NEW L, SenderOK(E, s, N, b, h, L),
         NEW E2, Sender(E2, s) = Sender(E, s), \A id \in Sender(E, s) : E2[id] = E[id]
  PROVE  SenderOK(E2, s, N, b, h, L)
<1>1. LineOK(E2, s, N)
      BY DEF SenderOK, LineOK, PacketOK
<1>2. BufOK(E2, s, N, b, h)
      BY DEF SenderOK, BufOK, ChunkOK
<1>3. HeardOK(E2, s, N, h, L)
      BY DEF SenderOK, HeardOK
<1>4. \A id \in Sender(E, s) \ L : Unhurt(E2, N, b, h, id)
      BY DEF SenderOK, Unhurt
<1>5. \A l \in Sender(E, s) : Hurt(E, N, b, l) => Hurt(E2, N, b, l)
      BY DEF Hurt
<1> QED BY <1>1, <1>2, <1>3, <1>4, <1>5 DEF SenderOK

LEMMA ChInit == Init => ChInv
<1> SUFFICES ASSUME Init PROVE ChInv
    OBVIOUS
<1>1. /\ chEvents = <<>> /\ net = [s \in ChSenders |-> <<>>] /\ buf = [s \in ChSenders |-> <<>>]
      /\ chHeard = [s \in ChSenders |-> <<>>] /\ chLost = [s \in ChSenders |-> {}]
      BY DEF Init, Udp!ChInit
<1>2. /\ chEvents \in Seq(ChEvent) /\ net \in [ChSenders -> Seq(ChPacket)]
      /\ chHeard \in [ChSenders -> Seq(Nat)] /\ DOMAIN buf = ChSenders /\ DOMAIN chLost = ChSenders
      BY <1>1
<1>3. ASSUME NEW s \in ChSenders PROVE SenderOK(<<>>, s, <<>>, <<>>, <<>>, {})
  <2>1. Sender(<<>>, s) = {}
        BY DEF Sender
  <2>2. BufOK(<<>>, s, <<>>, <<>>, <<>>)
        BY FS_EmptySet DEF BufOK
  <2> QED BY <2>1, <2>2 DEF SenderOK, LineOK, HeardOK
<1> QED BY <1>1, <1>2, <1>3 DEF ChInv

(* The steps, each by what it does to one sender.  *)
LEMMA OneSender ==
  ASSUME ChInv, NEW s \in ChSenders, UNCHANGED chEvents,
         \A u \in ChSenders \ {s} : /\ net'[u] = net[u] /\ buf'[u] = buf[u]
                                    /\ chHeard'[u] = chHeard[u] /\ chLost'[u] = chLost[u],
         net' \in [ChSenders -> Seq(ChPacket)], chHeard' \in [ChSenders -> Seq(Nat)],
         DOMAIN buf' = ChSenders, DOMAIN chLost' = ChSenders,
         SenderOK(chEvents, s, net'[s], buf'[s], chHeard'[s], chLost'[s])
  PROVE  ChInv'
<1>1. \A u \in ChSenders : SenderOK(chEvents, u, net'[u], buf'[u], chHeard'[u], chLost'[u])
      BY DEF ChInv
<1> QED BY <1>1 DEF ChInv

LEMMA ChSendKept ==
  ASSUME ChInv, NEW s \in ChSenders, NEW size \in ChSizes, Udp!ChSend(s, size)
  PROVE  ChInv'
<1> DEFINE E2 == Append(chEvents, [by |-> s, size |-> size])
           T == [i \in 1..size |-> [seq |-> i - 1, chunk |-> <<Len(chEvents) + 1, i>>, fin |-> i = size]]
<1>1. /\ chEvents' = E2 /\ net' = [net EXCEPT ![s] = @ \o T] /\ UNCHANGED <<buf, chHeard, chLost>>
      BY DEF Udp!ChSend, Udp!ChunkAt
<1>2. /\ chEvents \in Seq(ChEvent) /\ net \in [ChSenders -> Seq(ChPacket)] /\ size \in Nat \ {0}
      /\ net[s] \in Seq(ChPacket)
      BY ChannelAssumption DEF ChInv
<1>3. E2 \in Seq(ChEvent) /\ net[s] \o T \in Seq(ChPacket) /\ Sends(chEvents, E2, s, size, net[s], net[s] \o T)
      BY <1>2, SendIs
<1> HIDE DEF E2, T
<1>4. net' \in [ChSenders -> Seq(ChPacket)] /\ net'[s] = net[s] \o T /\ \A u \in ChSenders \ {s} : net'[u] = net[u]
      BY <1>1, <1>2, <1>3
<1>5. SenderOK(E2, s, net[s] \o T, buf[s], chHeard[s], chLost[s])
  <2>1. SenderOK(chEvents, s, net[s], buf[s], chHeard[s], chLost[s])
        BY DEF ChInv
  <2> QED BY <1>2, <1>3, <2>1, SendKeeps
<1>6. ASSUME NEW u \in ChSenders \ {s} PROVE SenderOK(E2, u, net[u], buf[u], chHeard[u], chLost[u])
  <2>1. SenderOK(chEvents, u, net[u], buf[u], chHeard[u], chLost[u])
        BY DEF ChInv
  <2>2. Sender(E2, u) = Sender(chEvents, u) /\ \A id \in Sender(chEvents, u) : E2[id] = chEvents[id]
        BY <1>3 DEF Sends, Sender
  <2> QED BY <2>1, <2>2, OthersKeep
<1>7. \A u \in ChSenders : SenderOK(E2, u, net'[u], buf[u], chHeard[u], chLost[u])
      BY <1>4, <1>5, <1>6
<1> QED BY <1>1, <1>3, <1>4, <1>7 DEF ChInv

LEMMA ChReceiveKept ==
  ASSUME Fifo, ChInv, NEW s \in ChSenders, NEW i \in DOMAIN net[s], Udp!ChReceive(s, i)
  PROVE  ChInv'
<1> DEFINE N == net[s]
           p == N[1]
           c == Udp!Put(buf[s], p)
           event == IF p.fin THEN Udp!EventOf(c) ELSE <<>>
           N2 == Udp!RemoveAt(N, 1)
<1>1. i = 1 /\ 1 \in DOMAIN N
      BY DEF Udp!ChReceive, Fifo
<1>2. /\ net' = [net EXCEPT ![s] = N2]
      /\ buf' = [buf EXCEPT ![s] = IF event = <<>> THEN c ELSE <<>>]
      /\ chHeard' = [chHeard EXCEPT ![s] = @ \o event]
      /\ UNCHANGED <<chEvents, chLost>>
      BY <1>1 DEF Udp!ChReceive
<1>3. /\ chEvents \in Seq(ChEvent) /\ net \in [ChSenders -> Seq(ChPacket)] /\ N \in Seq(ChPacket)
      /\ chHeard \in [ChSenders -> Seq(Nat)] /\ chHeard[s] \in Seq(Nat)
      /\ DOMAIN buf = ChSenders /\ DOMAIN chLost = ChSenders
      /\ SenderOK(chEvents, s, N, buf[s], chHeard[s], chLost[s])
      BY DEF ChInv
<1>4. N2 \in Seq(ChPacket) /\ Popped(N, N2)
      BY <1>1, <1>3, TailPops
<1>5. /\ net'[s] = N2 /\ buf'[s] = (IF event = <<>> THEN c ELSE <<>>) /\ chHeard'[s] = chHeard[s] \o event
      /\ chLost'[s] = chLost[s] /\ net' \in [ChSenders -> Seq(ChPacket)]
      /\ DOMAIN buf' = ChSenders /\ DOMAIN chLost' = ChSenders /\ DOMAIN chHeard' = ChSenders
      /\ \A u \in ChSenders \ {s} : /\ net'[u] = net[u] /\ buf'[u] = buf[u]
                                    /\ chHeard'[u] = chHeard[u] /\ chLost'[u] = chLost[u]
  <2> HIDE DEF N2, event, c
  <2> QED BY <1>2, <1>3, <1>4
<1>6. CASE p.fin => IdOf(p) \in chLost[s]
  <2>1. event = <<>>
        BY <1>1, <1>3, <1>6, NothingHeard
  <2>2. chHeard[s] \o event = chHeard[s]
        BY <1>3, <2>1, ConcatEmptySeq
  <2>3. SenderOK(chEvents, s, N2, c, chHeard[s], chLost[s])
        BY <1>1, <1>3, <1>4, <1>6, ReceiveKeeps
  <2> HIDE DEF N2, event, c
  <2>4. chHeard' \in [ChSenders -> Seq(Nat)]
        BY <1>2, <1>3, <2>2
  <2> QED BY <1>2, <1>5, <2>1, <2>2, <2>3, <2>4, OneSender
<1>7. CASE p.fin /\ IdOf(p) \notin chLost[s]
  <2>1. event = <<IdOf(p)>>
        BY <1>1, <1>3, <1>7, EventHeard
  <2>2. IdOf(p) \in Nat
        BY <1>1, <1>3 DEF SenderOK, LineOK, PacketOK, Sender
  <2>3. SenderOK(chEvents, s, N2, <<>>, Append(chHeard[s], IdOf(p)), chLost[s])
        BY <1>1, <1>3, <1>4, <1>7, HeardKeeps
  <2> DEFINE d == IdOf(p)
  <2> HIDE DEF N2, event, c, d
  <2>4. chHeard[s] \o event = Append(chHeard[s], d) /\ Append(chHeard[s], d) \in Seq(Nat) /\ event # <<>>
        BY <1>3, <2>1, <2>2 DEF d
  <2>5. chHeard' \in [ChSenders -> Seq(Nat)]
        BY <1>2, <1>3, <2>4
  <2>6. /\ UNCHANGED chEvents
        /\ SenderOK(chEvents, s, net'[s], buf'[s], chHeard'[s], chLost'[s])
        BY <1>2, <1>5, <2>3, <2>4 DEF d
  <2> QED BY <1>5, <2>5, <2>6, OneSender
<1> QED BY <1>6, <1>7

LEMMA ChLoseKept ==
  ASSUME Fifo, ChInv, NEW s \in ChSenders, Udp!ChLose(s)
  PROVE  ChInv'
<1> DEFINE N == net[s]
           N2 == Tail(N)
           d == IdOf(N[1])
<1>1. /\ chEvents \in Seq(ChEvent) /\ net \in [ChSenders -> Seq(ChPacket)] /\ N \in Seq(ChPacket)
      /\ chHeard \in [ChSenders -> Seq(Nat)] /\ DOMAIN buf = ChSenders /\ DOMAIN chLost = ChSenders
      /\ SenderOK(chEvents, s, N, buf[s], chHeard[s], chLost[s])
      BY DEF ChInv
<1>2. N # <<>> /\ 1 \in DOMAIN N /\ Head(N) = N[1]
      BY <1>1 DEF Udp!ChLose
<1>3. chLost[s] = {}
  <2>1. Cardinality(chLost[s]) < MaxChLost /\ MaxChLost <= 1 /\ MaxChLost \in Nat
        BY SameCardinality, ChannelAssumption DEF Udp!ChLose, Fifo
  <2>2. \A l : Cardinality({l}) = 1
        BY FS_Singleton
  <2>3. chLost[s] = {} \/ \E l : chLost[s] = {l}
        BY <1>1 DEF SenderOK
  <2>4. ASSUME NEW l, chLost[s] = {l} PROVE FALSE
    <3>1. Cardinality(chLost[s]) = 1
          BY <2>2, <2>4
    <3> QED BY <2>1, <3>1
  <2> QED BY <2>3, <2>4
<1>4. /\ net' = [net EXCEPT ![s] = N2] /\ chLost' = [chLost EXCEPT ![s] = @ \cup {d}]
      /\ UNCHANGED <<chEvents, buf, chHeard>>
      BY <1>2 DEF Udp!ChLose, IdOf
<1>5. N2 \in Seq(ChPacket) /\ Popped(N, N2)
      BY <1>1, <1>2, TailPops
<1>6. SenderOK(chEvents, s, N2, buf[s], chHeard[s], {d})
      BY <1>1, <1>2, <1>3, <1>5, LoseKeeps
<1> HIDE DEF N2, d
<1>7. /\ net'[s] = N2 /\ chLost'[s] = {d} /\ net' \in [ChSenders -> Seq(ChPacket)] /\ DOMAIN chLost' = ChSenders
      /\ \A u \in ChSenders \ {s} : net'[u] = net[u] /\ chLost'[u] = chLost[u]
      BY <1>1, <1>3, <1>4, <1>5
<1> QED BY <1>1, <1>4, <1>6, <1>7, OneSender

LEMMA ChKept ==
  ASSUME Fifo, ChInv, [Next]_vars
  PROVE  ChInv'
<1>1. ASSUME NEW s \in ChSenders, NEW size \in ChSizes, Udp!ChSend(s, size) PROVE ChInv'
      BY <1>1, ChSendKept
<1>2. ASSUME NEW s \in ChSenders, NEW i \in DOMAIN net[s], Udp!ChReceive(s, i) PROVE ChInv'
      BY <1>2, ChReceiveKept
<1>3. ASSUME NEW s \in ChSenders, Udp!ChLose(s) PROVE ChInv'
      BY <1>3, ChLoseKept
<1>4. CASE UNCHANGED UdpVars
      BY <1>4 DEF ChInv, UdpVars
<1> QED BY <1>1, <1>2, <1>3, <1>4, PartSteps DEF Udp!ChNext

(* When all packets are handled, the events that lost none have been passed up, in order, once   *)
(* and whole, and no other, if packets do not overtake each other and no more than one is lost:    *)
(* flush() leaves the chunks of an event that cannot be read to be overwritten by the next.        *)
THEOREM UnhurtArriveHolds ==
  ASSUME Fifo PROVE Spec => []UnhurtArrive
<1>1. ASSUME ChInv, NEW s \in ChSenders, net[s] = <<>>
      PROVE  /\ \A i, j \in DOMAIN chHeard[s] : i < j => chHeard[s][i] < chHeard[s][j]
             /\ Udp!HeardBy(s) = Udp!SentBy(s) \ chLost[s]
  <2>1. SenderOK(chEvents, s, net[s], buf[s], chHeard[s], chLost[s]) /\ DOMAIN net[s] = {}
        BY <1>1 DEF ChInv
  <2>2. /\ \A i \in DOMAIN chHeard[s] : chHeard[s][i] \in Sender(chEvents, s) \ chLost[s]
        /\ \A i, j \in DOMAIN chHeard[s] : i < j => chHeard[s][i] < chHeard[s][j]
        BY <2>1 DEF SenderOK, HeardOK
  <2>3. \A id \in Sender(chEvents, s) \ chLost[s] : Heard(chHeard[s], id)
        BY <2>1 DEF SenderOK, Unhurt, OnWay
  <2> QED BY <2>2, <2>3 DEF Heard, Sender, Udp!HeardBy, Udp!SentBy
<1>2. ChInv => UnhurtArrive
      BY <1>1 DEF UnhurtArrive, Udp!UnhurtArrive
<1> QED BY <1>2, ChInit, ChKept, PTL DEF Spec
=============================================================================
