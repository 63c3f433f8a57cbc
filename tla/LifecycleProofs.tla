--------------------------- MODULE LifecycleProofs --------------------------
(***************************************************************************)
(* Proofs about Lifecycle, for any plugins, controllers and requests.        *)
(* Whoever starts and stops plugins, the main thread leaves none running that *)
(* ran, and had its entry, when it began to unload them (AllStoppedHolds).     *)
(* Nobody's entry is deleted or overwritten while it lives, when only the      *)
(* configuration loads plugins and the event loop does not idle before it is    *)
(* applied (NoOrphansHolds).                                                   *)
(***************************************************************************)
EXTENDS Lifecycle, TLAPS, FiniteSetTheorems

Phases == {"new", "made", "added", "run", "shut", "dead"}
Places == {"none", "unlink", "signal", "join", "check", "del"}
CallRecords ==
  [at : Places, name : Names \cup {NoInst}, inst : Insts \cup {NoInst},
   kill : BOOLEAN, join : BOOLEAN, size : Nat]

(* What the proofs need of the types. *)
Typed ==
  /\ todo \in SUBSET (Names \X Insts) /\ idleTodo \in SUBSET (Names \X Insts)
  /\ reg \in [Names -> Insts \cup {NoInst}]
  /\ phase \in [Insts -> Phases]
  /\ ctl \in [Starters -> Insts \cup {NoInst}]
  /\ sp \in [Procs -> CallRecords]
  /\ \A t \in Procs : ~Free(t) => sp[t].name \in Names /\ sp[t].inst \in Insts
  /\ late \subseteq Insts /\ overdue \subseteq Insts /\ orphans \subseteq Insts

-----------------------------------------------------------------------------
(* AllStopped. *)

(* What lives has its entry, or has lost it. *)
Kept(i) == phase[i] \in {"added", "run", "shut"} => reg[NameOf[i]] = i \/ i \in orphans \cup overdue
Registered == \A i \in Insts : Kept(i)

(* What was not late runs, or has run, when the main thread unloads, ...           *)
Started(i) == phase[i] \in {"run", "shut", "dead"}
NoneNew == mainPc \in {"unload", "ended", "config"} => \A i \in Insts \ late : Started(i)

(* ... and is still before it. *)
Ahead(i) ==
  \/ <<NameOf[i], i>> \in todo
  \/ sp[Main].at \in {"unlink", "signal", "join"} /\ sp[Main].inst = i
Excused == late \cup orphans \cup overdue
StillToUnload == mainPc = "unload" => \A i \in Insts \ Excused : Alive(i) => Ahead(i)

(* The main thread's stop_plugin() waits for the plugin then, and is not begun before. *)
MainCalls ==
  /\ mainPc = "join" => Free(Main)
  /\ mainPc = "unload" /\ ~Free(Main) => ~sp[Main].kill /\ sp[Main].join

(* What was signalled, or given up, does not run. *)
Signalled ==
  /\ \A t \in Procs : sp[t].at = "join" => phase[sp[t].inst] \in {"shut", "dead"}
  /\ \A i \in overdue : phase[i] \in {"shut", "dead"}

StopInv ==
  Typed /\ Registered /\ NoneNew /\ StillToUnload /\ MainCalls /\ Signalled /\ AllStopped

LEMMA PresentCounted == Cardinality(Present) \in Nat
BY LifecycleAssumption, FS_Subset, FS_CardinalityType DEF Present

LEMMA Threads ==
  /\ Main \in Procs /\ Loop \in Procs /\ Main # Loop
  /\ Main \in Starters /\ Starter \in Starters
BY DEF Procs, Starters, Main, Loop, Starter

LEMMA StopInit == ASSUME Init PROVE StopInv
<1>1. sp \in [Procs -> CallRecords] /\ \A t \in Procs : Free(t) /\ sp[t].at = "none"
  BY DEF Init, CallRecords, Idle, Free, Places
<1>2. Typed
  BY <1>1 DEF Init, Typed, Phases
<1>3. Registered /\ NoneNew /\ StillToUnload /\ MainCalls /\ Signalled /\ AllStopped
  BY <1>1 DEF Init, Registered, Kept, NoneNew, StillToUnload, MainCalls, Signalled, AllStopped
<1> QED BY <1>2, <1>3 DEF StopInv

-----------------------------------------------------------------------------
(* Types, for both proofs: how the calls and the phases change. *)

(* A call moves to a, or ends; the others stay. *)
Moves(t, a) ==
  /\ sp' \in [Procs -> CallRecords]
  /\ \A u \in Procs \ {t} : sp'[u] = sp[u]
  /\ sp'[t].at = a
  /\ a # "none" => /\ sp'[t].name = sp[t].name /\ sp'[t].inst = sp[t].inst
                   /\ sp'[t].kill = sp[t].kill /\ sp'[t].join = sp[t].join

LEMMA MoveAt ==
  ASSUME Typed, NEW t \in Procs, NEW a \in Places, sp' = [sp EXCEPT ![t].at = a]
  PROVE  Moves(t, a)
BY DEF Typed, CallRecords, Moves

LEMMA MoveEnds ==
  ASSUME Typed, NEW t \in Procs, sp' = [sp EXCEPT ![t] = Idle]
  PROVE  Moves(t, "none")
BY DEF Typed, CallRecords, Moves, Idle, Places

(* Looking up a name and beginning a stop_plugin(), or doing nothing. *)
Begins(t, n, k, j) ==
  /\ sp' \in [Procs -> CallRecords]
  /\ \A u \in Procs \ {t} : sp'[u] = sp[u]
  /\ reg[n] \in Insts
  /\ sp'[t].at = "unlink" /\ sp'[t].name = n /\ sp'[t].inst = reg[n]
  /\ sp'[t].kill = k /\ sp'[t].join = j

LEMMA Begun ==
  ASSUME Typed, NEW t \in Procs, NEW n \in Names, NEW k \in BOOLEAN, NEW j \in BOOLEAN,
         StopBegin(t, n, k, j)
  PROVE  (reg[n] = NoInst /\ UNCHANGED sp) \/ Begins(t, n, k, j)
<1>1. reg[n] \in Insts \cup {NoInst}
  BY DEF Typed
<1>2. CASE reg[n] = NoInst
  BY <1>2 DEF StopBegin
<1>3. CASE reg[n] # NoInst
  BY <1>1, <1>3, PresentCounted DEF StopBegin, Typed, CallRecords, Begins, Places
<1> QED BY <1>2, <1>3

(* An entry goes: what lives is an orphan. *)
LEMMA Left ==
  ASSUME Typed, NEW n \in Names, Leaves(n)
  PROVE  /\ orphans' \subseteq Insts /\ orphans \subseteq orphans'
         /\ \A i \in Insts : reg[n] = i /\ phase[i] \in {"added", "run", "shut"}
              => i \in orphans' \cup overdue
BY DEF Typed, Leaves

-----------------------------------------------------------------------------
(* The steps of stop_plugin() that leave the dictionary alone. *)
LEMMA StopMoves ==
  ASSUME StopInv, NEW t \in Procs, ~Free(t), NEW a \in Places, Moves(t, a), a # "unlink",
         UNCHANGED <<todo, reg, ctl, late, orphans>>,
         idleTodo' \subseteq idleTodo,
         overdue \subseteq overdue', overdue' \subseteq Insts,
         \A i \in overdue' : phase'[i] \in {"shut", "dead"},
         phase' \in [Insts -> Phases],
         \A i \in Insts : phase'[i] = phase[i] \/ (phase[i] = "run" /\ phase'[i] = "shut"),
         mainPc' \in {mainPc, "crashed"},
         a = "join" => phase'[sp[t].inst] \in {"shut", "dead"},
         t = Main => \/ mainPc' = "crashed" \/ mainPc # "unload" \/ a \in {"signal", "join"}
                     \/ ~Alive(sp[t].inst) \/ sp[t].inst \in Excused'
                     \/ sp[t].at \in {"check", "del"}
  PROVE  StopInv'
<1> USE DEF StopInv
<1>0. sp[t].inst \in Insts
  BY DEF Typed
<1>1. Typed'
  BY DEF Typed, Moves, Free
<1>2. Registered'
  BY DEF Registered, Kept
<1>3. NoneNew'
  BY DEF NoneNew, Started
<1>4. StillToUnload'
  <2> SUFFICES ASSUME mainPc' = "unload", NEW i \in Insts, i \notin Excused', Alive(i)'
               PROVE Ahead(i)'
      BY DEF StillToUnload
  <2>1. mainPc = "unload" /\ i \notin Excused /\ Alive(i) /\ Ahead(i)
        BY DEF StillToUnload, Excused, Alive
  <2>2. CASE <<NameOf[i], i>> \in todo
        BY <2>2 DEF Ahead
  <2>3. CASE sp[Main].at \in {"unlink", "signal", "join"} /\ sp[Main].inst = i
    <3>1. CASE t = Main
          BY <2>1, <2>3, <3>1 DEF Ahead, Moves
    <3>2. CASE t # Main
          BY <2>3, <3>2, Threads DEF Ahead, Moves
    <3> QED BY <3>1, <3>2
  <2> QED BY <2>1, <2>2, <2>3 DEF Ahead
<1>5. MainCalls'
  <2>1. mainPc' = "join" => Free(Main)'
        BY Threads DEF MainCalls, Moves, Free
  <2>2. mainPc' = "unload" /\ ~Free(Main)' => ~sp'[Main].kill /\ sp'[Main].join
        BY Threads DEF MainCalls, Moves, Free
  <2> QED BY <2>1, <2>2 DEF MainCalls
<1>6. Signalled'
  <2> SUFFICES ASSUME NEW u \in Procs, sp'[u].at = "join" PROVE phase'[sp'[u].inst] \in {"shut", "dead"}
      BY DEF Signalled
  <2>1. CASE u = t
        BY <2>1 DEF Moves
  <2>2. CASE u # t
    <3>1. sp'[u] = sp[u] /\ sp[u].inst \in Insts /\ phase[sp[u].inst] \in {"shut", "dead"}
          BY <2>2 DEF Moves, Signalled, Typed, Free
    <3> QED BY <3>1
  <2> QED BY <2>1, <2>2
<1>7. AllStopped'
  BY DEF AllStopped, Running, Alive
<1> QED BY <1>1, <1>2, <1>3, <1>4, <1>5, <1>6, <1>7

LEMMA StopMoveSteps ==
  ASSUME StopInv, NEW t \in Procs, StopUnlink(t) \/ StopSignal(t) \/ StopJoin(t) \/ StopCheck(t)
  PROVE  StopInv'
<1> USE DEF StopInv
<1>1. ~Free(t) /\ sp[t].inst \in Insts /\ UNCHANGED <<todo, reg, ctl, late, orphans>>
  BY DEF StopUnlink, StopSignal, StopJoin, StopCheck, Free, Typed, mainVars, history
<1>2. /\ overdue \subseteq Insts /\ phase \in [Insts -> Phases]
      /\ \A i \in overdue : phase[i] \in {"shut", "dead"}
  BY DEF Typed, Signalled
<1>3. CASE StopUnlink(t)
  <2>1. UNCHANGED <<phase, overdue>> /\ idleTodo' \subseteq idleTodo
        BY <1>3 DEF StopUnlink, Raise, history
  <2>2. CASE sp' = [sp EXCEPT ![t].at = IF sp[t].kill THEN "check" ELSE "signal"] /\ UNCHANGED mainPc
    <3>1. CASE sp[t].kill
      <4>1. Moves(t, "check")
            BY <2>2, <3>1, MoveAt DEF Places
      <4>2. t = Main => mainPc # "unload"
            BY <1>1, <3>1 DEF MainCalls
      <4> QED BY <1>1, <1>2, <2>1, <2>2, <4>1, <4>2, StopMoves DEF Places
    <3>2. CASE ~sp[t].kill
      <4>1. Moves(t, "signal")
            BY <2>2, <3>2, MoveAt DEF Places
      <4> QED BY <1>1, <1>2, <2>1, <2>2, <4>1, StopMoves DEF Places
    <3> QED BY <3>1, <3>2
  <2>3. CASE Raise(t)
    <3>1. Moves(t, "none") /\ mainPc' \in {mainPc, "crashed"} /\ (t = Main => mainPc' = "crashed")
          BY <2>3, MoveEnds DEF Raise
    <3> QED BY <1>1, <1>2, <2>1, <3>1, StopMoves DEF Places
  <2> QED BY <1>3, <2>2, <2>3 DEF StopUnlink
<1>4. CASE StopSignal(t)
  <2>1. UNCHANGED <<mainPc, idleTodo, overdue>> /\ sp[t].at = "signal"
        BY <1>4 DEF StopSignal, mainVars, history
  <2>2. CASE Alive(sp[t].inst)
    <3>1. phase' = [phase EXCEPT ![sp[t].inst] = "shut"]
          BY <1>4, <2>2 DEF StopSignal
    <3>2. /\ phase' \in [Insts -> Phases] /\ phase'[sp[t].inst] = "shut"
          /\ \A i \in Insts : phase'[i] = phase[i] \/ (phase[i] = "run" /\ phase'[i] = "shut")
          /\ \A i \in overdue : phase'[i] \in {"shut", "dead"}
          BY <1>1, <1>2, <2>2, <3>1 DEF Alive, Phases
    <3>3. CASE sp[t].join
      <4>1. sp' = [sp EXCEPT ![t] = [@ EXCEPT !.at = "join"]]
            BY <1>4, <2>2, <3>3 DEF StopSignal
      <4>2. Moves(t, "join")
            BY <4>1, MoveAt DEF Places
      <4> QED BY <1>1, <1>2, <2>1, <3>2, <4>2, StopMoves DEF Places
    <3>4. CASE ~sp[t].join
      <4>1. sp' = [sp EXCEPT ![t] = Idle]
            BY <1>4, <2>2, <3>4 DEF StopSignal
      <4>2. Moves(t, "none")
            BY <4>1, MoveEnds
      <4>3. t = Main => mainPc # "unload"
            BY <1>1, <3>4 DEF MainCalls
      <4> QED BY <1>1, <1>2, <2>1, <3>2, <4>2, <4>3, StopMoves DEF Places
    <3> QED BY <3>3, <3>4
  <2>3. CASE ~Alive(sp[t].inst)
    <3>1. sp' = [sp EXCEPT ![t].at = "check"] /\ UNCHANGED phase
          BY <1>4, <2>3 DEF StopSignal
    <3>2. Moves(t, "check")
          BY <3>1, MoveAt DEF Places
    <3> QED BY <1>1, <1>2, <2>1, <2>3, <3>1, <3>2, StopMoves DEF Places
  <2> QED BY <2>2, <2>3
<1>5. CASE StopJoin(t)
  <2>1. /\ UNCHANGED <<mainPc, idleTodo, phase>>
        /\ phase[sp[t].inst] \in {"shut", "dead"}
        BY <1>5 DEF StopJoin, mainVars, Signalled
  <2>2. CASE Alive(sp[t].inst) /\ shutdown
    <3>1. sp' = [sp EXCEPT ![t].at = "check"] /\ overdue' = overdue \cup {sp[t].inst}
          BY <1>5, <2>2 DEF StopJoin
    <3>2. Moves(t, "check") /\ sp[t].inst \in Excused'
          BY <3>1, MoveAt DEF Places, Excused
    <3> QED BY <1>1, <1>2, <2>1, <3>1, <3>2, StopMoves DEF Places
  <2>3. CASE ~(Alive(sp[t].inst) /\ shutdown)
    <3>1. sp' = [sp EXCEPT ![t].at = "signal"] /\ overdue' = overdue
          BY <1>5, <2>3 DEF StopJoin
    <3>2. Moves(t, "signal")
          BY <3>1, MoveAt DEF Places
    <3> QED BY <1>1, <1>2, <2>1, <3>1, <3>2, StopMoves DEF Places
  <2> QED BY <2>2, <2>3
<1>6. CASE StopCheck(t)
  <2>1. UNCHANGED <<mainPc, idleTodo, overdue, phase>> /\ sp[t].at = "check"
        BY <1>6 DEF StopCheck, mainVars, history
  <2>2. CASE reg[sp[t].name] = NoInst
    <3>1. Moves(t, "none")
          BY <1>6, <2>2, MoveEnds DEF StopCheck
    <3> QED BY <1>1, <1>2, <2>1, <3>1, StopMoves DEF Places
  <2>3. CASE reg[sp[t].name] # NoInst
    <3>1. sp' = [sp EXCEPT ![t].at = "del"]
          BY <1>6, <2>3 DEF StopCheck
    <3>2. Moves(t, "del")
          BY <3>1, MoveAt DEF Places
    <3> QED BY <1>1, <1>2, <2>1, <3>2, StopMoves DEF Places
  <2> QED BY <2>2, <2>3
<1> QED BY <1>3, <1>4, <1>5, <1>6

(* The deletion: the call ends, or raises. *)
LEMMA StopDelStep ==
  ASSUME StopInv, NEW t \in Procs, StopDel(t) PROVE StopInv'
<1> USE DEF StopInv
<1>1. ~Free(t) /\ sp[t].inst \in Insts /\ sp[t].name \in Names /\ sp[t].at = "del"
  BY DEF StopDel, Free, Typed
<1>2. UNCHANGED <<todo, ctl, phase, late, overdue>>
  BY DEF StopDel
<1>3. /\ overdue \subseteq Insts /\ phase \in [Insts -> Phases]
      /\ \A i \in overdue : phase[i] \in {"shut", "dead"}
  BY DEF Typed, Signalled
<1>4. CASE reg[sp[t].name] = NoInst
  <2>1. Raise(t) /\ UNCHANGED <<reg, orphans>>
        BY <1>4 DEF StopDel
  <2>2. /\ Moves(t, "none") /\ mainPc' \in {mainPc, "crashed"} /\ (t = Main => mainPc' = "crashed")
        /\ idleTodo' \subseteq idleTodo
        BY <2>1, MoveEnds DEF Raise
  <2> QED BY <1>1, <1>2, <1>3, <2>1, <2>2, StopMoves DEF Places
<1>5. CASE reg[sp[t].name] # NoInst
  <2>1. /\ reg' = [reg EXCEPT ![sp[t].name] = NoInst] /\ Leaves(sp[t].name)
        /\ Moves(t, "none") /\ UNCHANGED <<mainPc, idleTodo>>
        BY <1>5, MoveEnds DEF StopDel
  <2>2. /\ orphans' \subseteq Insts /\ orphans \subseteq orphans'
        /\ \A i \in Insts : reg[sp[t].name] = i /\ phase[i] \in {"added", "run", "shut"}
             => i \in orphans' \cup overdue
        BY <1>1, <2>1, Left
  <2>3. /\ reg' \in [Names -> Insts \cup {NoInst}]
        /\ \A n \in Names : n # sp[t].name => reg'[n] = reg[n]
        BY <2>1 DEF Typed
  <2>4. Typed'
        BY <1>2, <2>1, <2>2, <2>3 DEF Typed, Moves, Free
  <2>5. Registered'
    <3> SUFFICES ASSUME NEW i \in Insts, phase[i] \in {"added", "run", "shut"},
                        i \notin orphans' \cup overdue
                 PROVE  reg'[NameOf[i]] = i
        BY <1>2 DEF Registered, Kept
    <3>1. reg[NameOf[i]] = i
          BY <2>2 DEF Registered, Kept
    <3>2. NameOf[i] # sp[t].name
          BY <2>2, <3>1
    <3> QED BY <2>3, <3>1, <3>2, LifecycleAssumption
  <2>6. NoneNew'
        BY <1>2, <2>1 DEF NoneNew, Started
  <2>7. StillToUnload'
    <3> SUFFICES ASSUME mainPc = "unload", NEW i \in Insts, i \notin Excused', Alive(i)
                 PROVE Ahead(i)'
        BY <1>2, <2>1 DEF StillToUnload, Alive
    <3>1. Ahead(i)
          BY <1>2, <2>2 DEF StillToUnload, Excused
    <3>2. t = Main => <<NameOf[i], i>> \in todo
          BY <1>1, <3>1 DEF Ahead
    <3> QED BY <1>2, <2>1, <3>1, <3>2, Threads DEF Ahead, Moves
  <2>8. MainCalls'
        BY <2>1, Threads DEF MainCalls, Moves, Free
  <2>9. Signalled'
        BY <1>2, <2>1 DEF Signalled, Moves
  <2>10. AllStopped'
        BY <1>2, <2>1, <2>2 DEF AllStopped, Running, Alive
  <2> QED BY <2>4, <2>5, <2>6, <2>7, <2>8, <2>9, <2>10
<1> QED BY <1>4, <1>5

-----------------------------------------------------------------------------
(* The loops over the plugins: thread t takes x and may begin a stop_plugin().      *)
LEMMA StopLoops ==
  ASSUME StopInv, NEW t \in {Main, Loop}, Free(t), NEW x \in Names \X Insts,
         NEW k \in BOOLEAN, NEW j \in BOOLEAN,
         UNCHANGED <<mainPc, loopPc, reg, phase, ctl, history>>,
         IF t = Main THEN todo' = todo \ {x} /\ UNCHANGED idleTodo
                     ELSE idleTodo' = idleTodo \ {x} /\ UNCHANGED todo,
         UNCHANGED sp \/ StopBegin(t, x[1], k, j),
         t = Main => mainPc # "join",
         t = Main /\ mainPc = "unload" => StopBegin(t, x[1], k, j) /\ ~k /\ j
  PROVE  StopInv'
<1> USE DEF StopInv, history
<1>1. x[1] \in Names /\ x[2] \in Insts /\ t \in Procs
  BY Threads
<1>2. todo' \subseteq todo /\ idleTodo' \subseteq idleTodo
  OBVIOUS
<1>3. Registered' /\ NoneNew' /\ AllStopped'
  BY DEF Registered, Kept, NoneNew, Started, AllStopped, Running, Alive
<1>4. CASE UNCHANGED sp /\ (t = Main /\ mainPc = "unload" => reg[x[1]] = NoInst)
  <2>1. Typed' /\ MainCalls' /\ Signalled'
        BY <1>2, <1>4 DEF Typed, MainCalls, Signalled, Free
  <2>2. StillToUnload'
    <3> SUFFICES ASSUME mainPc = "unload", NEW i \in Insts, i \notin Excused, Alive(i)
                 PROVE Ahead(i)'
        BY DEF StillToUnload, Excused, Alive
    <3>1. Ahead(i) /\ reg[NameOf[i]] = i
          BY DEF StillToUnload, Registered, Kept, Alive, Excused
    <3>2. t = Main => <<NameOf[i], i>> # x
          BY <1>4, <3>1, LifecycleAssumption
    <3> QED BY <1>4, <3>1, <3>2 DEF Ahead
  <2> QED BY <1>3, <2>1, <2>2
<1>5. CASE Begins(t, x[1], k, j)
  <2>1. Typed'
        BY <1>1, <1>2, <1>5 DEF Typed, Begins, Free
  <2>2. StillToUnload'
    <3> SUFFICES ASSUME mainPc = "unload", NEW i \in Insts, i \notin Excused, Alive(i)
                 PROVE Ahead(i)'
        BY DEF StillToUnload, Excused, Alive
    <3>1. Ahead(i) /\ reg[NameOf[i]] = i
          BY DEF StillToUnload, Registered, Kept, Alive, Excused
    <3>2. CASE t = Main
          BY <1>5, <3>1, <3>2 DEF Ahead, Begins, Free
    <3>3. CASE t # Main
          BY <1>5, <3>1, <3>3, Threads DEF Ahead, Begins
    <3> QED BY <3>2, <3>3
  <2>3. MainCalls'
        BY <1>5, Threads DEF MainCalls, Begins, Free
  <2>4. Signalled'
        BY <1>1, <1>5 DEF Signalled, Begins
  <2> QED BY <1>3, <2>1, <2>2, <2>3, <2>4
<1>6. CASE StopBegin(t, x[1], k, j)
  <2>1. (reg[x[1]] = NoInst /\ UNCHANGED sp) \/ Begins(t, x[1], k, j)
        BY <1>1, <1>6, Begun
  <2> QED BY <1>4, <1>5, <2>1
<1>7. CASE UNCHANGED sp /\ ~(t = Main /\ mainPc = "unload")
  BY <1>4, <1>7
<1> QED BY <1>6, <1>7

LEMMA StopLoopSteps ==
  ASSUME StopInv, RunIdle \/ RunSignal \/ RunUnload \/ LoopUnload
  PROVE  StopInv'
<1>0. todo \subseteq Names \X Insts /\ idleTodo \subseteq Names \X Insts
  BY DEF StopInv, Typed
<1>1. CASE RunIdle
  <2>1. PICK x \in todo :
          /\ todo' = todo \ {x}
          /\ IF Alive(x[2]) THEN UNCHANGED sp ELSE StopBegin(Main, x[1], TRUE, FALSE)
        BY <1>1 DEF RunIdle
  <2>2. UNCHANGED sp \/ StopBegin(Main, x[1], TRUE, FALSE)
        BY <2>1
  <2> QED BY <1>0, <1>1, <2>1, <2>2, StopLoops DEF RunIdle
<1>2. CASE RunSignal
  <2>1. PICK x \in todo : todo' = todo \ {x} /\ StopBegin(Main, x[1], FALSE, FALSE)
        BY <1>2 DEF RunSignal
  <2> QED BY <1>0, <1>2, <2>1, StopLoops DEF RunSignal
<1>3. CASE RunUnload
  <2>1. PICK x \in todo : todo' = todo \ {x} /\ StopBegin(Main, x[1], FALSE, TRUE)
        BY <1>3 DEF RunUnload
  <2> QED BY <1>0, <1>3, <2>1, StopLoops DEF RunUnload
<1>4. CASE LoopUnload
  <2>1. PICK x \in idleTodo :
          /\ idleTodo' = idleTodo \ {x}
          /\ IF Alive(x[2]) THEN UNCHANGED sp ELSE StopBegin(Loop, x[1], TRUE, FALSE)
        BY <1>4 DEF LoopUnload
  <2>2. UNCHANGED sp \/ StopBegin(Loop, x[1], TRUE, FALSE)
        BY <2>1
  <2>3. UNCHANGED <<mainPc, todo, loopPc, reg, phase, ctl, history>> /\ Free(Loop)
        BY <1>4 DEF LoopUnload, mainVars
  <2> QED BY <1>0, <2>1, <2>2, <2>3, Threads, StopLoops
<1> QED BY <1>1, <1>2, <1>3, <1>4

-----------------------------------------------------------------------------
(* A controller begins a stop_plugin(). *)
LEMMA StopPluginStep ==
  ASSUME StopInv, NEW c \in Controllers, NEW n \in Names, StopPlugin(c, n)
  PROVE  StopInv'
<1> USE DEF StopInv
<1>1. c \in Procs /\ c # Main /\ Free(c)
  BY LifecycleAssumption DEF Procs, StopPlugin
<1>2. UNCHANGED <<mainPc, todo, loopPc, idleTodo, reg, phase, ctl, late, overdue, orphans>>
  BY DEF StopPlugin, mainVars, history
<1>3. (reg[n] = NoInst /\ UNCHANGED sp) \/ Begins(c, n, FALSE, TRUE)
  BY <1>1, Begun DEF StopPlugin
<1>4. Registered' /\ NoneNew' /\ AllStopped'
  BY <1>2 DEF Registered, Kept, NoneNew, Started, AllStopped, Running, Alive
<1>5. CASE UNCHANGED sp
  BY <1>2, <1>4, <1>5 DEF Typed, StillToUnload, Ahead, Excused, Alive, MainCalls, Signalled, Free
<1>6. CASE Begins(c, n, FALSE, TRUE)
  <2>1. Typed'
        BY <1>1, <1>2, <1>6 DEF Typed, Begins, Free
  <2>2. sp'[Main] = sp[Main]
        BY <1>1, <1>6, Threads DEF Begins
  <2>3. StillToUnload' /\ MainCalls'
        BY <1>2, <2>2 DEF StillToUnload, Ahead, Excused, Alive, MainCalls, Free
  <2>4. Signalled'
        BY <1>1, <1>2, <1>6 DEF Signalled, Begins
  <2> QED BY <1>4, <2>1, <2>3, <2>4
<1> QED BY <1>3, <1>5, <1>6

(* Instances go on: they are created, started, stop or die, one at a time. *)
LEMMA PhaseStep ==
  ASSUME StopInv, NEW i \in Insts, NEW p \in Phases, phase' = [phase EXCEPT ![i] = p],
         UNCHANGED <<mainPc, todo, loopPc, idleTodo, reg, sp, history>>,
         ctl' \in [Starters -> Insts \cup {NoInst}],
         \/ phase[i] = "new" /\ p \in {"made", "dead"}
         \/ phase[i] = "added" /\ p = "run"
         \/ phase[i] = "run" /\ p = "shut"
         \/ phase[i] = "shut" /\ p = "dead"
  PROVE  StopInv'
<1> USE DEF StopInv, history
<1>1. /\ phase \in [Insts -> Phases] /\ phase' \in [Insts -> Phases] /\ phase'[i] = p
      /\ \A j \in Insts \ {i} : phase'[j] = phase[j]
  BY DEF Typed
<1>2. Typed'
  BY <1>1 DEF Typed, Free
<1>3. Registered'
  BY <1>1 DEF Registered, Kept
<1>4. NoneNew'
  BY <1>1 DEF NoneNew, Started
<1>5. StillToUnload'
  <2> SUFFICES ASSUME mainPc = "unload", NEW j \in Insts \ Excused, Alive(j)' PROVE Ahead(j)
      BY DEF StillToUnload, Ahead, Excused
  <2>1. Alive(j)
        BY <1>1 DEF NoneNew, Started, Alive, Excused
  <2> QED BY <2>1 DEF StillToUnload
<1>6. MainCalls'
  BY DEF MainCalls, Free
<1>7. Signalled'
  <2>1. \A t \in Procs : sp[t].at = "join" => phase'[sp[t].inst] \in {"shut", "dead"}
    <3> SUFFICES ASSUME NEW t \in Procs, sp[t].at = "join" PROVE phase'[sp[t].inst] \in {"shut", "dead"}
        OBVIOUS
    <3>1. sp[t].inst \in Insts /\ phase[sp[t].inst] \in {"shut", "dead"}
          BY DEF Signalled, Typed, Free
    <3> QED BY <1>1, <3>1
  <2>2. \A j \in overdue : phase'[j] \in {"shut", "dead"}
        BY <1>1 DEF Signalled, Typed
  <2> QED BY <2>1, <2>2 DEF Signalled
<1>8. AllStopped'
  <2> SUFFICES ASSUME mainPc \in {"ended", "config"}, NEW j \in Insts \ (late \cup orphans)
               PROVE  ~Running(j)' /\ (Alive(j)' => j \in overdue)
      BY DEF AllStopped
  <2>1. Started(j) /\ ~Running(j) /\ (Alive(j) => j \in overdue)
        BY DEF AllStopped, NoneNew
  <2> QED BY <1>1, <2>1 DEF Running, Alive, Started
<1> QED BY <1>2, <1>3, <1>4, <1>5, <1>6, <1>7, <1>8

LEMMA PhaseSteps ==
  ASSUME StopInv,
         \/ \E i \in Insts : PluginStops(i) \/ PluginDies(i)
         \/ \E c \in Starters, i \in Insts : StartCheck(c, i) \/ StartRefused(c, i)
         \/ \E c \in Starters : StartThread(c)
  PROVE  StopInv'
<1>0. ctl \in [Starters -> Insts \cup {NoInst}]
  BY DEF StopInv, Typed
<1>1. ASSUME NEW i \in Insts, PluginStops(i) PROVE StopInv'
  BY <1>0, <1>1, PhaseStep DEF PluginStops, mainVars, Phases
<1>2. ASSUME NEW i \in Insts, PluginDies(i) PROVE StopInv'
  BY <1>0, <1>2, PhaseStep DEF PluginDies, mainVars, Phases
<1>3. ASSUME NEW c \in Starters, NEW i \in Insts, StartCheck(c, i) PROVE StopInv'
  <2>1. ctl' \in [Starters -> Insts \cup {NoInst}]
        BY <1>0, <1>3 DEF StartCheck
  <2> QED BY <1>3, <2>1, PhaseStep DEF StartCheck, MayStart, mainVars, Phases
<1>4. ASSUME NEW c \in Starters, NEW i \in Insts, StartRefused(c, i) PROVE StopInv'
  BY <1>0, <1>4, PhaseStep DEF StartRefused, MayStart, mainVars, Phases
<1>5. ASSUME NEW c \in Starters, StartThread(c) PROVE StopInv'
  <2>1. ctl[c] \in Insts /\ ctl' \in [Starters -> Insts \cup {NoInst}]
        BY <1>0, <1>5 DEF StartThread
  <2> QED BY <1>5, <2>1, PhaseStep DEF StartThread, mainVars, Phases
<1> QED BY <1>1, <1>2, <1>3, <1>4, <1>5

(* An instance gets its entry; whose entry it was is an orphan. *)
LEMMA AddStep ==
  ASSUME StopInv, NEW c \in Starters, StartAdd(c) PROVE StopInv'
<1> USE DEF StopInv
<1>1. PICK i \in Insts : i = ctl[c]
  BY DEF StartAdd, Typed
<1>2. /\ phase[i] = "made" /\ Leaves(NameOf[i])
      /\ reg' = [reg EXCEPT ![NameOf[i]] = i] /\ phase' = [phase EXCEPT ![i] = "added"]
      /\ UNCHANGED <<mainPc, todo, loopPc, idleTodo, ctl, sp, late, overdue>>
  BY <1>1 DEF StartAdd, mainVars
<1>3. /\ phase' \in [Insts -> Phases] /\ phase'[i] = "added"
      /\ \A j \in Insts \ {i} : phase'[j] = phase[j]
      /\ reg' \in [Names -> Insts \cup {NoInst}] /\ reg'[NameOf[i]] = i
      /\ \A n \in Names \ {NameOf[i]} : reg'[n] = reg[n]
  BY <1>2, LifecycleAssumption DEF Typed, Phases
<1>4. /\ orphans' \subseteq Insts /\ orphans \subseteq orphans'
      /\ \A j \in Insts : reg[NameOf[i]] = j /\ phase[j] \in {"added", "run", "shut"}
           => j \in orphans' \cup overdue
  BY <1>2, Left, LifecycleAssumption
<1>5. Typed'
  BY <1>2, <1>3, <1>4 DEF Typed, Free
<1>6. Registered'
  <2> SUFFICES ASSUME NEW j \in Insts, Kept(j) PROVE Kept(j)'
      BY DEF Registered
  <2>1. CASE j = i
        BY <1>3, <2>1 DEF Kept
  <2>2. CASE j # i
        BY <1>2, <1>3, <1>4, <2>2, LifecycleAssumption DEF Kept
  <2> QED BY <2>1, <2>2
<1>7. mainPc \in {"unload", "ended", "config"} => i \in late
  BY <1>2 DEF NoneNew, Started
<1>8. NoneNew' /\ AllStopped'
  BY <1>2, <1>3, <1>4, <1>7 DEF NoneNew, Started, AllStopped, Running, Alive
<1>9. StillToUnload'
  BY <1>2, <1>3, <1>4, <1>7 DEF StillToUnload, Ahead, Excused, Alive
<1>10. MainCalls'
  BY <1>2 DEF MainCalls, Free
<1>11. Signalled'
  <2>1. \A t \in Procs : sp[t].at = "join" => sp[t].inst \in Insts \ {i}
        BY <1>2 DEF Signalled, Typed, Free
  <2>2. overdue \subseteq Insts \ {i}
        BY <1>2 DEF Signalled, Typed
  <2> QED BY <1>2, <1>3, <2>1, <2>2 DEF Signalled
<1> QED BY <1>5, <1>6, <1>8, <1>9, <1>10, <1>11

-----------------------------------------------------------------------------
(* The copies of the dictionary's items the loops go over. *)
LEMMA ItemsAre ==
  ASSUME Typed
  PROVE  /\ Items \in SUBSET (Names \X Insts)
         /\ \A x \in Items : reg[x[1]] = x[2]
         /\ \A n \in Names : reg[n] # NoInst => <<n, reg[n]>> \in Items
BY DEF Typed, Items, Present

(* The main thread and the event loop go on, with no plugin touched. *)
LEMMA StopTurnSteps ==
  ASSUME StopInv,
         RunClear \/ RunShutdown \/ RunIdleEnd \/ RunSignalEnd \/ RunJoin \/ RunUnloadEnd
           \/ RunConfigEnd \/ LoopIdle \/ LoopIdleEnd \/ LoopEnds
  PROVE  StopInv'
<1> USE ItemsAre DEF StopInv
<1>1. UNCHANGED <<reg, phase, ctl, sp, overdue, orphans>>
  BY DEF RunClear, RunShutdown, RunIdleEnd, RunSignalEnd, RunJoin, RunUnloadEnd, RunConfigEnd,
         LoopIdle, LoopIdleEnd, LoopEnds, history
<1>2. todo' \in {todo, Items} /\ idleTodo' \in {idleTodo, Items} /\ late' \subseteq Insts
  BY DEF RunClear, RunShutdown, RunIdleEnd, RunSignalEnd, RunJoin, RunUnloadEnd, RunConfigEnd,
         LoopIdle, LoopIdleEnd, LoopEnds, mainVars, history, Typed
<1>3. Typed' /\ Registered' /\ Signalled'
  BY <1>1, <1>2 DEF Typed, Free, Registered, Kept, Signalled
<1>4. CASE RunJoin
  <2>1. /\ mainPc = "join" /\ mainPc' = "unload" /\ todo' = Items
        /\ late' = {i \in Insts : phase[i] \in {"new", "made", "added"}}
        BY <1>4 DEF RunJoin
  <2>2. NoneNew'
        BY <1>1, <2>1 DEF NoneNew, Started, Typed, Phases
  <2>3. StillToUnload'
    <3> SUFFICES ASSUME NEW i \in Insts \ Excused', Alive(i) PROVE Ahead(i)'
        BY <1>1 DEF StillToUnload, Alive
    <3>1. reg[NameOf[i]] = i
          BY <1>1 DEF Registered, Kept, Alive, Excused
    <3> QED BY <2>1, <3>1, LifecycleAssumption DEF Ahead
  <2>4. MainCalls' /\ AllStopped'
        BY <1>1, <2>1 DEF MainCalls, AllStopped, Free
  <2> QED BY <1>3, <2>2, <2>3, <2>4
<1>5. CASE RunUnloadEnd
  <2>1. mainPc = "unload" /\ mainPc' \in {"config", "ended"} /\ todo = {} /\ Free(Main) /\ UNCHANGED late
        BY <1>5 DEF RunUnloadEnd, LoopOver, history
  <2>2. \A i \in Insts \ Excused : ~Alive(i)
        BY <2>1 DEF StillToUnload, Ahead, Free
  <2>3. \A i \in overdue : ~Running(i)
        BY DEF Signalled, Running
  <2>4. NoneNew' /\ StillToUnload' /\ MainCalls'
        BY <1>1, <2>1 DEF NoneNew, Started, StillToUnload, MainCalls
  <2>5. AllStopped'
        BY <1>1, <2>1, <2>2, <2>3 DEF AllStopped, Running, Alive, Excused
  <2> QED BY <1>3, <2>4, <2>5
<1>6. CASE LoopIdle \/ LoopIdleEnd \/ LoopEnds
  <2>1. UNCHANGED <<mainPc, todo, late>>
        BY <1>6 DEF LoopIdle, LoopIdleEnd, LoopEnds, mainVars, history
  <2> QED BY <1>1, <1>3, <2>1 DEF NoneNew, Started, StillToUnload, Ahead, Excused, MainCalls, AllStopped,
             Running, Alive, Free
<1>7. CASE RunClear \/ RunShutdown \/ RunIdleEnd \/ RunConfigEnd
  <2>1. mainPc' \notin {"join", "unload", "config", "ended"}
        BY <1>7 DEF RunClear, RunShutdown, RunIdleEnd, RunConfigEnd
  <2> QED BY <1>3, <2>1 DEF NoneNew, StillToUnload, MainCalls, AllStopped
<1>8. CASE RunSignalEnd
  <2>1. mainPc' = "join" /\ Free(Main)
        BY <1>8 DEF RunSignalEnd, LoopOver
  <2> QED BY <1>1, <1>3, <2>1 DEF NoneNew, StillToUnload, MainCalls, AllStopped, Free
<1> QED BY <1>4, <1>5, <1>6, <1>7, <1>8

(* What the invariant looks at. *)
stopVars == <<mainPc, todo, loopPc, idleTodo, reg, phase, ctl, sp, late, overdue, orphans>>

LEMMA StopStutter ==
  ASSUME StopInv, UNCHANGED stopVars PROVE StopInv'
BY DEF stopVars, StopInv, Typed, Registered, Kept, NoneNew, Started, StillToUnload, Ahead, Excused,
       MainCalls, Signalled, AllStopped, Running, Alive, Free

LEMMA StopInvStep == ASSUME StopInv, [Next]_vars PROVE StopInv'
<1>1. CASE Stop \/ RestartFlag \/ RestartStop \/ UNCHANGED vars
  <2>1. UNCHANGED stopVars
        BY <1>1 DEF Stop, RestartFlag, RestartStop, vars, mainVars, history, stopVars
  <2> QED BY <2>1, StopStutter
<1>2. CASE Run
  BY <1>2, StopLoopSteps, StopTurnSteps DEF Run
<1>3. CASE EventLoop
  BY <1>3, StopLoopSteps, StopTurnSteps DEF EventLoop
<1>4. ASSUME NEW t \in Procs, StopStep(t) PROVE StopInv'
  BY <1>4, StopMoveSteps, StopDelStep DEF StopStep
<1>5. ASSUME NEW i \in Insts, PluginStops(i) \/ PluginDies(i) PROVE StopInv'
  BY <1>5, PhaseSteps
<1>6. ASSUME NEW c \in Starters, Start(c) PROVE StopInv'
  BY <1>6, PhaseSteps, AddStep DEF Start
<1>7. ASSUME NEW c \in Controllers, NEW n \in Names, StopPlugin(c, n) PROVE StopInv'
  BY <1>7, StopPluginStep
<1> QED BY <1>1, <1>2, <1>3, <1>4, <1>5, <1>6, <1>7 DEF Next

(* "All plugins will be stopped and the framework will then terminate" (run()'s two   *)
(* loops over the plugins), and so they are before a restart loads them again: but for  *)
(* those that did not run yet, lost their entry, or outlived the timeout.              *)
THEOREM AllStoppedHolds == Spec => []AllStopped
<1>1. Init => StopInv
  BY StopInit
<1>2. StopInv /\ [Next]_vars => StopInv'
  BY StopInvStep
<1>3. StopInv => AllStopped
  BY DEF StopInv
<1> QED BY <1>1, <1>2, <1>3, PTL DEF Spec

-----------------------------------------------------------------------------
(* NoOrphans, when only the configuration loads plugins, requests come after it is   *)
(* applied, and the event loop idles after it.                                        *)
OnlyConfigured == Controllers = {} /\ ~EarlyStop /\ ~IdleEarly

(* Who runs when: the event loop only between clear and join, a thread's        *)
(* stop_plugin() only inside its loop over the plugins.                        *)
Turns ==
  /\ mainPc \in {"clear", "unload", "config", "ended"} => loopPc = "off"
  /\ mainPc \in {"clear", "wait", "join", "config", "ended"} => todo = {} /\ Free(Main)
  /\ loopPc # "idle" => idleTodo = {} /\ Free(Loop)

(* Until the startup configuration is applied nobody looks a plugin up to unload it.  *)
Early == ~StartupDone => mainPc \in {"clear", "wait"} /\ loopPc # "idle" /\ ~shutdown /\ ~midway

(* What is created or added is in the hands of a thread in start_plugin(); its name is   *)
(* free until it is added.                                                              *)
Holds(c) ==
  ctl[c] # NoInst => /\ phase[ctl[c]] \in {"made", "added"}
                     /\ phase[ctl[c]] = "made" => reg[NameOf[ctl[c]]] = NoInst
Hands ==
  /\ \A c \in Starters : Holds(c)
  /\ \A i \in Insts : phase[i] \in {"made", "added"} => \E c \in Starters : ctl[c] = i
  /\ ctl[Main] # NoInst => mainPc = "config"

(* Entries are of what was added; a name that was looked up still means the same        *)
(* instance, which was started, or none.                                                *)
Entries == \A n \in Names : reg[n] # NoInst => phase[reg[n]] \in {"added", "run", "shut", "dead"}
Same(n, i) == reg[n] \in {i, NoInst} /\ Started(i)
LookedUp ==
  /\ \A x \in todo \cup idleTodo : Same(x[1], x[2])
  /\ \A t \in Procs : ~Free(t) => Same(sp[t].name, sp[t].inst)

(* What a call is about to take out is dead, or was given up. *)
Doomed(t) == sp[t].at \in {"check", "del"} \/ (sp[t].at = "unlink" /\ sp[t].kill)
Lost(i) == phase[i] = "dead" \/ i \in overdue
DoomedRest == \A t \in Procs : Doomed(t) => Lost(sp[t].inst)

EntryInv ==
  Typed /\ Turns /\ Early /\ Hands /\ Entries /\ LookedUp /\ DoomedRest /\ NoOrphans

LEMMA FewThreads ==
  ASSUME OnlyConfigured
  PROVE  /\ Procs = {Main, Loop} /\ Main # Loop
         /\ Starters = {Main, Starter} /\ Main # Starter
BY DEF OnlyConfigured, Procs, Starters, Main, Loop, Starter

LEMMA EntryInit == ASSUME OnlyConfigured, Init PROVE EntryInv
<1>1. \A t \in Procs : Free(t) /\ sp[t].at = "none"
  BY DEF Init, Idle, Free
<1>2. Typed
  BY StopInit DEF StopInv
<1>3. \A c \in Starters : ctl[c] = NoInst
  BY DEF Init
<1>4. Turns /\ Early /\ LookedUp /\ DoomedRest /\ NoOrphans
  BY <1>1, FewThreads DEF Init, Turns, Early, LookedUp, DoomedRest, Doomed, NoOrphans
<1>5. Hands /\ Entries
  BY <1>3, FewThreads DEF Init, Hands, Holds, Entries
<1> QED BY <1>2, <1>4, <1>5 DEF EntryInv

(* While somebody goes over the plugins nobody is in start_plugin(). *)
LEMMA Quiet ==
  ASSUME OnlyConfigured, EntryInv,
         todo # {} \/ idleTodo # {} \/ (\E t \in Procs : ~Free(t)) \/ loopPc = "idle"
           \/ (StartupDone /\ mainPc # "config")
  PROVE  /\ StartupDone /\ \A c \in Starters : ctl[c] = NoInst
         /\ \A i \in Insts : phase[i] \notin {"made", "added"}
<1>1. StartupDone /\ mainPc # "config"
  BY FewThreads DEF EntryInv, Turns, Early
<1>2. \A c \in Starters : ctl[c] = NoInst
  BY <1>1, FewThreads DEF EntryInv, Hands, StartupDone
<1> QED BY <1>1, <1>2, LifecycleAssumption DEF EntryInv, Hands

-----------------------------------------------------------------------------
(* The steps of stop_plugin() that leave the dictionary alone. *)
LEMMA EntryMoves ==
  ASSUME OnlyConfigured, EntryInv, NEW t \in Procs, ~Free(t), NEW a \in Places, Moves(t, a),
         a # "unlink",
         UNCHANGED <<todo, loopPc, reg, ctl, late, orphans>>,
         idleTodo' \subseteq idleTodo,
         overdue \subseteq overdue', overdue' \subseteq Insts,
         phase' \in [Insts -> Phases],
         \A i \in Insts : phase'[i] = phase[i] \/ (phase[i] = "run" /\ phase'[i] = "shut"),
         mainPc' \in {mainPc, "crashed"},
         a \in {"check", "del"} => phase'[sp[t].inst] = "dead" \/ sp[t].inst \in overdue'
  PROVE  EntryInv'
<1> USE FewThreads DEF EntryInv
<1>0. StartupDone /\ \A c \in Starters : ctl[c] = NoInst
  BY Quiet
<1>1. Typed'
  BY DEF Typed, Moves, Free
<1>2. Turns'
  BY DEF Turns, Moves, Free
<1>3. Early'
  BY <1>0, LifecycleAssumption DEF Early, StartupDone
<1>4. Hands'
  <2>1. \A i \in Insts : phase'[i] \notin {"made", "added"}
        BY Quiet
  <2> QED BY <1>0, <2>1 DEF Hands, Holds
<1>5. Entries'
  BY DEF Entries, Typed
<1>6. LookedUp'
  <2>1. \A x \in todo' \cup idleTodo' : Same(x[1], x[2])'
        BY DEF LookedUp, Same, Started, Typed
  <2>2. \A u \in Procs : ~Free(u)' => Same(sp[u].name, sp[u].inst)'
        BY DEF LookedUp, Same, Started, Typed, Moves, Free
  <2> QED BY <2>1, <2>2 DEF LookedUp
<1>7. DoomedRest'
  <2> SUFFICES ASSUME NEW u \in Procs, Doomed(u)' PROVE Lost(sp[u].inst)'
      BY DEF DoomedRest
  <2>1. CASE u = t
        BY <2>1 DEF Moves, Doomed, Lost
  <2>2. CASE u # t
    <3>1. sp'[u] = sp[u] /\ Lost(sp[u].inst) /\ sp[u].inst \in Insts
          BY <2>2 DEF Moves, Doomed, DoomedRest, Typed, Free
    <3> QED BY <3>1 DEF Lost
  <2> QED BY <2>1, <2>2
<1>8. NoOrphans'
  BY DEF NoOrphans
<1> QED BY <1>1, <1>2, <1>3, <1>4, <1>5, <1>6, <1>7, <1>8

LEMMA EntryMoveSteps ==
  ASSUME OnlyConfigured, EntryInv, NEW t \in Procs,
         StopUnlink(t) \/ StopSignal(t) \/ StopJoin(t) \/ StopCheck(t)
  PROVE  EntryInv'
<1> USE DEF EntryInv
<1>1. /\ ~Free(t) /\ sp[t].inst \in Insts /\ Started(sp[t].inst)
      /\ UNCHANGED <<todo, loopPc, reg, ctl, late, orphans>>
  BY DEF StopUnlink, StopSignal, StopJoin, StopCheck, Free, Typed, mainVars, history, LookedUp, Same
<1>2. overdue \subseteq Insts /\ phase \in [Insts -> Phases]
  BY DEF Typed
<1>3. CASE StopUnlink(t)
  <2>1. UNCHANGED <<phase, overdue>> /\ idleTodo' \subseteq idleTodo /\ sp[t].at = "unlink"
        BY <1>3 DEF StopUnlink, Raise, history
  <2>2. CASE sp' = [sp EXCEPT ![t].at = IF sp[t].kill THEN "check" ELSE "signal"] /\ UNCHANGED mainPc
    <3>1. CASE sp[t].kill
      <4>1. Moves(t, "check")
            BY <2>2, <3>1, MoveAt DEF Places
      <4>2. phase'[sp[t].inst] = "dead" \/ sp[t].inst \in overdue'
            BY <2>1, <3>1 DEF DoomedRest, Doomed, Lost
      <4> QED BY <1>1, <1>2, <2>1, <2>2, <4>1, <4>2, EntryMoves DEF Places
    <3>2. CASE ~sp[t].kill
      <4>1. Moves(t, "signal")
            BY <2>2, <3>2, MoveAt DEF Places
      <4> QED BY <1>1, <1>2, <2>1, <2>2, <4>1, EntryMoves DEF Places
    <3> QED BY <3>1, <3>2
  <2>3. CASE Raise(t)
    <3>1. Moves(t, "none") /\ mainPc' \in {mainPc, "crashed"}
          BY <2>3, MoveEnds DEF Raise
    <3> QED BY <1>1, <1>2, <2>1, <3>1, EntryMoves DEF Places
  <2> QED BY <1>3, <2>2, <2>3 DEF StopUnlink
<1>4. CASE StopSignal(t)
  <2>1. UNCHANGED <<mainPc, idleTodo, overdue>>
        BY <1>4 DEF StopSignal, mainVars, history
  <2>2. CASE Alive(sp[t].inst)
    <3>1. phase' = [phase EXCEPT ![sp[t].inst] = "shut"]
          BY <1>4, <2>2 DEF StopSignal
    <3>2. /\ phase' \in [Insts -> Phases]
          /\ \A i \in Insts : phase'[i] = phase[i] \/ (phase[i] = "run" /\ phase'[i] = "shut")
          BY <1>1, <1>2, <2>2, <3>1 DEF Alive, Phases
    <3>3. CASE sp[t].join
      <4>1. sp' = [sp EXCEPT ![t] = [@ EXCEPT !.at = "join"]]
            BY <1>4, <2>2, <3>3 DEF StopSignal
      <4>2. Moves(t, "join")
            BY <4>1, MoveAt DEF Places
      <4> QED BY <1>1, <1>2, <2>1, <3>2, <4>2, EntryMoves DEF Places
    <3>4. CASE ~sp[t].join
      <4>1. sp' = [sp EXCEPT ![t] = Idle]
            BY <1>4, <2>2, <3>4 DEF StopSignal
      <4>2. Moves(t, "none")
            BY <4>1, MoveEnds
      <4> QED BY <1>1, <1>2, <2>1, <3>2, <4>2, EntryMoves DEF Places
    <3> QED BY <3>3, <3>4
  <2>3. CASE ~Alive(sp[t].inst)
    <3>1. sp' = [sp EXCEPT ![t].at = "check"] /\ UNCHANGED phase
          BY <1>4, <2>3 DEF StopSignal
    <3>2. Moves(t, "check") /\ phase'[sp[t].inst] = "dead"
          BY <1>1, <2>3, <3>1, MoveAt DEF Places, Alive, Started
    <3> QED BY <1>1, <1>2, <2>1, <3>1, <3>2, EntryMoves DEF Places
  <2> QED BY <2>2, <2>3
<1>5. CASE StopJoin(t)
  <2>1. UNCHANGED <<mainPc, idleTodo, phase>>
        BY <1>5 DEF StopJoin, mainVars
  <2>2. CASE Alive(sp[t].inst) /\ shutdown
    <3>1. sp' = [sp EXCEPT ![t].at = "check"] /\ overdue' = overdue \cup {sp[t].inst}
          BY <1>5, <2>2 DEF StopJoin
    <3>2. Moves(t, "check")
          BY <3>1, MoveAt DEF Places
    <3> QED BY <1>1, <1>2, <2>1, <3>1, <3>2, EntryMoves DEF Places
  <2>3. CASE ~(Alive(sp[t].inst) /\ shutdown)
    <3>1. sp' = [sp EXCEPT ![t].at = "signal"] /\ overdue' = overdue
          BY <1>5, <2>3 DEF StopJoin
    <3>2. Moves(t, "signal")
          BY <3>1, MoveAt DEF Places
    <3> QED BY <1>1, <1>2, <2>1, <3>1, <3>2, EntryMoves DEF Places
  <2> QED BY <2>2, <2>3
<1>6. CASE StopCheck(t)
  <2>1. /\ UNCHANGED <<mainPc, idleTodo, overdue, phase>>
        /\ phase[sp[t].inst] = "dead" \/ sp[t].inst \in overdue
        BY <1>6 DEF StopCheck, mainVars, history, DoomedRest, Doomed, Lost
  <2>2. CASE reg[sp[t].name] = NoInst
    <3>1. Moves(t, "none")
          BY <1>6, <2>2, MoveEnds DEF StopCheck
    <3> QED BY <1>1, <1>2, <2>1, <3>1, EntryMoves DEF Places
  <2>3. CASE reg[sp[t].name] # NoInst
    <3>1. sp' = [sp EXCEPT ![t].at = "del"]
          BY <1>6, <2>3 DEF StopCheck
    <3>2. Moves(t, "del")
          BY <3>1, MoveAt DEF Places
    <3> QED BY <1>1, <1>2, <2>1, <3>2, EntryMoves DEF Places
  <2> QED BY <2>2, <2>3
<1> QED BY <1>3, <1>4, <1>5, <1>6

(* Only the entry of what is lost already, or none, is taken out. *)
LEMMA EntryDelStep ==
  ASSUME OnlyConfigured, EntryInv, NEW t \in Procs, StopDel(t) PROVE EntryInv'
<1> USE FewThreads DEF EntryInv
<1>1. /\ ~Free(t) /\ sp[t].name \in Names /\ sp[t].inst \in Insts
      /\ Same(sp[t].name, sp[t].inst) /\ Lost(sp[t].inst)
  BY DEF StopDel, Typed, LookedUp, DoomedRest, Doomed, Free
<1>2. UNCHANGED <<todo, loopPc, phase, ctl, late, overdue>>
  BY DEF StopDel
<1>3. overdue \subseteq Insts /\ phase \in [Insts -> Phases]
  BY DEF Typed
<1>4. CASE reg[sp[t].name] = NoInst
  <2>1. Raise(t) /\ UNCHANGED <<reg, orphans>>
        BY <1>4 DEF StopDel
  <2>2. Moves(t, "none") /\ mainPc' \in {mainPc, "crashed"} /\ idleTodo' \subseteq idleTodo
        BY <2>1, MoveEnds DEF Raise
  <2> QED BY <1>1, <1>2, <1>3, <2>1, <2>2, EntryMoves DEF Places
<1>5. CASE reg[sp[t].name] # NoInst
  <2>1. /\ reg' = [reg EXCEPT ![sp[t].name] = NoInst] /\ Leaves(sp[t].name)
        /\ Moves(t, "none") /\ UNCHANGED <<mainPc, idleTodo>>
        BY <1>5, MoveEnds DEF StopDel
  <2>2. /\ reg' \in [Names -> Insts \cup {NoInst}]
        /\ \A n \in Names : reg'[n] \in {reg[n], NoInst}
        BY <2>1 DEF Typed
  <2>3. reg[sp[t].name] = sp[t].inst
        BY <1>1, <1>5 DEF Same
  <2>4. NoOrphans'
        BY <1>1, <2>1, <2>3 DEF NoOrphans, Leaves, Lost
  <2>5. Typed'
        BY <1>2, <2>1, <2>2, <2>4 DEF Typed, Moves, Free, NoOrphans
  <2>6. Turns'
        BY <1>2, <2>1 DEF Turns, Moves, Free
  <2>7. StartupDone /\ \A c \in Starters : ctl[c] = NoInst
        BY <1>1, Quiet
  <2>8. Early'
        BY <1>2, <2>7 DEF Early, StartupDone
  <2>9. Hands'
        BY <1>2, <2>1, <2>7 DEF Hands, Holds
  <2>10. Entries'
        BY <1>2, <2>2 DEF Entries
  <2>11. LookedUp'
    <3>1. \A x \in (todo \cup idleTodo)' : Same(x[1], x[2])'
          BY <1>2, <2>1, <2>2 DEF LookedUp, Same, Started, Typed
    <3>2. \A u \in Procs : ~Free(u)' => Same(sp[u].name, sp[u].inst)'
          BY <1>2, <2>1, <2>2 DEF LookedUp, Same, Started, Typed, Moves, Free
    <3> QED BY <3>1, <3>2 DEF LookedUp
  <2>12. DoomedRest'
        BY <1>2, <2>1 DEF DoomedRest, Doomed, Moves, Lost
  <2> QED BY <2>4, <2>5, <2>6, <2>8, <2>9, <2>10, <2>11, <2>12
<1> QED BY <1>4, <1>5

-----------------------------------------------------------------------------
(* The loops over the plugins: thread t takes x and may begin a stop_plugin().      *)
LEMMA EntryLoops ==
  ASSUME OnlyConfigured, EntryInv, NEW t \in {Main, Loop}, Free(t), NEW x \in todo \cup idleTodo,
         NEW k \in BOOLEAN, NEW j \in BOOLEAN,
         UNCHANGED <<shutdown, midway, mainPc, loopPc, reg, phase, ctl, history>>,
         todo' \subseteq todo /\ idleTodo' \subseteq idleTodo,
         UNCHANGED sp \/ StopBegin(t, x[1], k, j),
         k => ~Alive(x[2]),
         t = Main => mainPc \in {"idle", "signal", "unload"},
         t = Loop => loopPc = "idle"
  PROVE  EntryInv'
<1> USE FewThreads DEF EntryInv, history
<1>1. x[1] \in Names /\ x[2] \in Insts /\ Same(x[1], x[2]) /\ NoInst \notin Insts
  BY LifecycleAssumption DEF Typed, LookedUp
<1>2. Early' /\ Hands' /\ Entries' /\ NoOrphans'
  BY DEF Early, StartupDone, Hands, Holds, Entries, NoOrphans
<1>3. CASE UNCHANGED sp
  <2>1. Typed' /\ Turns'
        BY <1>3 DEF Typed, Turns, Free
  <2>2. LookedUp' /\ DoomedRest'
        BY <1>3 DEF LookedUp, Same, Started, DoomedRest, Doomed, Lost, Free
  <2> QED BY <1>2, <2>1, <2>2
<1>4. CASE Begins(t, x[1], k, j)
  <2>1. Typed'
        BY <1>1, <1>4 DEF Typed, Begins, Free
  <2>2. Turns'
        BY <1>4 DEF Turns, Begins, Free
  <2>3. LookedUp'
        BY <1>1, <1>4 DEF LookedUp, Same, Started, Begins, Free
  <2>4. DoomedRest'
    <3>1. k => phase[x[2]] = "dead"
          BY <1>1 DEF Same, Started, Alive
    <3> QED BY <1>1, <1>4, <3>1 DEF DoomedRest, Doomed, Lost, Begins, Same
  <2> QED BY <1>2, <2>1, <2>2, <2>3, <2>4
<1>5. CASE StopBegin(t, x[1], k, j)
  <2>1. (reg[x[1]] = NoInst /\ UNCHANGED sp) \/ Begins(t, x[1], k, j)
        BY <1>1, <1>5, Begun
  <2> QED BY <1>3, <1>4, <2>1
<1> QED BY <1>3, <1>5

LEMMA EntryLoopSteps ==
  ASSUME OnlyConfigured, EntryInv, RunIdle \/ RunSignal \/ RunUnload \/ LoopUnload
  PROVE  EntryInv'
<1>1. CASE RunIdle
  <2>1. PICK x \in todo :
          /\ todo' = todo \ {x}
          /\ IF Alive(x[2]) THEN UNCHANGED sp ELSE StopBegin(Main, x[1], TRUE, FALSE)
        BY <1>1 DEF RunIdle
  <2>2. CASE UNCHANGED sp
        BY <1>1, <2>1, <2>2, EntryLoops, Threads DEF RunIdle, reqVars
  <2>3. CASE ~Alive(x[2]) /\ StopBegin(Main, x[1], TRUE, FALSE)
        BY <1>1, <2>1, <2>3, EntryLoops, Threads DEF RunIdle, reqVars
  <2> QED BY <2>1, <2>2, <2>3
<1>2. CASE RunSignal
  <2>1. PICK x \in todo : todo' = todo \ {x} /\ StopBegin(Main, x[1], FALSE, FALSE)
        BY <1>2 DEF RunSignal
  <2> QED BY <1>2, <2>1, EntryLoops, Threads DEF RunSignal, reqVars
<1>3. CASE RunUnload
  <2>1. PICK x \in todo : todo' = todo \ {x} /\ StopBegin(Main, x[1], FALSE, TRUE)
        BY <1>3 DEF RunUnload
  <2> QED BY <1>3, <2>1, EntryLoops, Threads DEF RunUnload, reqVars
<1>4. CASE LoopUnload
  <2>1. PICK x \in idleTodo :
          /\ idleTodo' = idleTodo \ {x}
          /\ IF Alive(x[2]) THEN UNCHANGED sp ELSE StopBegin(Loop, x[1], TRUE, FALSE)
        BY <1>4 DEF LoopUnload
  <2>2. /\ UNCHANGED <<shutdown, midway, mainPc, todo, loopPc, reg, phase, ctl, history>>
        /\ Free(Loop) /\ loopPc = "idle"
        BY <1>4 DEF LoopUnload, mainVars, reqVars
  <2>3. CASE UNCHANGED sp
        BY <2>1, <2>2, <2>3, Threads, EntryLoops
  <2>4. CASE ~Alive(x[2]) /\ StopBegin(Loop, x[1], TRUE, FALSE)
        BY <2>1, <2>2, <2>4, Threads, EntryLoops
  <2> QED BY <2>1, <2>3, <2>4
<1> QED BY <1>1, <1>2, <1>3, <1>4

-----------------------------------------------------------------------------
(* A plugin stops or dies. *)
LEMMA EntryPluginStep ==
  ASSUME OnlyConfigured, EntryInv, NEW i \in Insts, PluginStops(i) \/ PluginDies(i)
  PROVE  EntryInv'
<1> USE FewThreads DEF EntryInv
<1>1. /\ UNCHANGED <<shutdown, midway, mainPc, todo, loopPc, idleTodo, reg, ctl, sp, history>>
      /\ phase' \in [Insts -> Phases]
      /\ \A j \in Insts : \/ phase'[j] = phase[j]
                          \/ phase[j] = "run" /\ phase'[j] = "shut"
                          \/ phase[j] = "shut" /\ phase'[j] = "dead"
  BY DEF PluginStops, PluginDies, Typed, Phases, mainVars, reqVars
<1>2. Typed' /\ Turns'
  BY <1>1 DEF Typed, Turns, Free, history
<1>3. Early'
  BY <1>1, LifecycleAssumption DEF Early, StartupDone
<1>4. Hands'
  <2>1. \A c \in Starters : Holds(c)'
        BY <1>1 DEF Hands, Holds, Typed
  <2>2. \A j \in Insts : phase'[j] \in {"made", "added"} => \E c \in Starters : ctl'[c] = j
        BY <1>1 DEF Hands
  <2> QED BY <1>1, <2>1, <2>2 DEF Hands
<1>5. Entries'
  BY <1>1 DEF Entries, Typed
<1>6. LookedUp'
  BY <1>1 DEF LookedUp, Same, Started, Typed, Free
<1>7. DoomedRest'
  BY <1>1 DEF DoomedRest, Doomed, Lost, Typed, Free, history
<1>8. NoOrphans'
  BY <1>1 DEF NoOrphans, history
<1> QED BY <1>2, <1>3, <1>4, <1>5, <1>6, <1>7, <1>8

(* An instance is created, or refused, added, started. *)
LEMMA EntryStartSteps ==
  ASSUME OnlyConfigured, EntryInv, NEW c \in Starters, NEW i \in Insts,
         \/ StartCheck(c, i) \/ StartRefused(c, i)
         \/ ctl[c] = i /\ (StartAdd(c) \/ StartThread(c))
  PROVE  EntryInv'
<1> USE FewThreads DEF EntryInv
<1>1. UNCHANGED <<shutdown, midway, mainPc, todo, loopPc, idleTodo, sp, late, overdue>>
  BY DEF StartCheck, StartRefused, StartAdd, StartThread, mainVars, reqVars, history
<1>2. /\ phase[i] \in {"new", "made", "added"}
      /\ phase' = [phase EXCEPT ![i] = phase'[i]] /\ phase'[i] \in {"made", "added", "run", "dead"}
  BY DEF StartCheck, StartRefused, StartAdd, StartThread, MayStart, Typed
<1>3. /\ phase' \in [Insts -> Phases]
      /\ \A j \in Insts \ {i} : phase'[j] = phase[j]
  BY <1>2 DEF Typed, Phases
<1>4. i # NoInst /\ NameOf[i] \in Names /\ ctl \in [Starters -> Insts \cup {NoInst}]
      /\ reg \in [Names -> Insts \cup {NoInst}] /\ NoInst \notin Insts
  BY LifecycleAssumption DEF Typed
<1>5. /\ ctl' \in [Starters -> Insts \cup {NoInst}]
      /\ \A d \in Starters \ {c} : ctl'[d] = ctl[d]
      /\ StartCheck(c, i) => ctl[c] = NoInst /\ ctl'[c] = i
      /\ StartRefused(c, i) => ctl[c] = NoInst /\ ctl'[c] = NoInst
      /\ StartAdd(c) /\ ctl[c] = i => ctl'[c] = i
      /\ StartThread(c) /\ ctl[c] = i => ctl'[c] = NoInst
  BY <1>4 DEF StartCheck, StartRefused, StartAdd, StartThread, MayStart
<1>6. /\ c = Starter => ~StartupDone
      /\ c = Main => mainPc = "config" /\ StartupDone
  <2>1. c = Starter => ~StartupDone
        BY <1>4 DEF StartCheck, StartRefused, StartAdd, StartThread, MayStart, Loads, StartupDone
  <2>2. c = Main => mainPc = "config"
        BY <1>4 DEF StartCheck, StartRefused, StartAdd, StartThread, MayStart, Hands
  <2> QED BY <2>1, <2>2 DEF Early
<1>7. todo = {} /\ idleTodo = {} /\ \A t \in Procs : Free(t)
  BY <1>6 DEF Turns, Early
<1>8. Typed' /\ Turns' /\ LookedUp' /\ DoomedRest' /\ NoOrphans'
  <2>1. reg' \in [Names -> Insts \cup {NoInst}]
        BY <1>4 DEF StartCheck, StartRefused, StartAdd, StartThread
  <2>2. NoOrphans'
        BY <1>4 DEF StartCheck, StartRefused, StartAdd, StartThread, NoOrphans, Leaves, Hands, Holds, history
  <2>3. Typed'
        BY <1>1, <1>3, <1>5, <2>1, <2>2 DEF Typed, Free, NoOrphans
  <2>4. Turns' /\ LookedUp'
        BY <1>1, <1>7 DEF Turns, LookedUp, Free
  <2>5. DoomedRest'
        BY <1>1, <1>7 DEF DoomedRest, Doomed, Free
  <2> QED BY <2>2, <2>3, <2>4, <2>5
<1>9. Early'
  <2>1. CASE c = Starter
        BY <1>1, <1>6, <2>1 DEF Early
  <2>2. CASE c = Main
    <3>1. StartupDone'
          BY <1>3, <1>2, <1>5, <1>6, <2>2, LifecycleAssumption DEF StartupDone
    <3> QED BY <3>1 DEF Early
  <2> QED BY <2>1, <2>2
<1>10. \A d \in Starters \ {c} : ctl[d] = NoInst
  <2>1. c = Starter => ctl[Main] = NoInst
        BY <1>6 DEF Hands, Early
  <2>2. c = Main => ctl[Starter] = NoInst
        BY <1>6 DEF StartupDone
  <2> QED BY <2>1, <2>2
<1>11. Hands'
  <2>1. \A d \in Starters : Holds(d)'
    <3> SUFFICES ASSUME NEW d \in Starters, ctl'[d] # NoInst
                 PROVE  /\ phase'[ctl'[d]] \in {"made", "added"}
                        /\ phase'[ctl'[d]] = "made" => reg'[NameOf[ctl'[d]]] = NoInst
        BY DEF Holds
    <3>1. d = c /\ ctl'[c] = i
          BY <1>5, <1>10
    <3>2. StartCheck(c, i) \/ (ctl[c] = i /\ StartAdd(c))
          BY <1>4, <1>5, <3>1
    <3> QED BY <1>4, <3>1, <3>2 DEF StartCheck, MayStart, StartAdd, Typed
  <2>2. \A j \in Insts : phase'[j] \in {"made", "added"} => \E d \in Starters : ctl'[d] = j
    <3> SUFFICES ASSUME NEW j \in Insts, phase'[j] \in {"made", "added"}
                 PROVE  \E d \in Starters : ctl'[d] = j
        OBVIOUS
    <3>1. CASE j = i
      <4>1. StartCheck(c, i) \/ (ctl[c] = i /\ StartAdd(c))
            BY <3>1 DEF StartRefused, StartThread, Typed
      <4> QED BY <1>5, <3>1, <4>1
    <3>2. CASE j # i
      <4>1. PICK d \in Starters : ctl[d] = j
            BY <1>3, <3>2 DEF Hands
      <4>2. d = c
            BY <1>4, <1>10, <4>1
      <4>3. ctl[c] = j /\ j # NoInst
            BY <1>4, <4>1, <4>2
      <4> QED BY <1>5, <3>2, <4>3
    <3> QED BY <3>1, <3>2
  <2>3. ctl'[Main] # NoInst => mainPc' = "config"
        BY <1>1, <1>5, <1>6, <1>10
  <2> QED BY <2>1, <2>2, <2>3 DEF Hands
<1>12. Entries'
  <2>1. CASE StartCheck(c, i) \/ StartRefused(c, i) \/ StartThread(c)
    <3>1. UNCHANGED reg
          BY <1>4, <2>1 DEF StartCheck, StartRefused, StartThread
    <3>2. phase[i] \in {"new", "added"} /\ (phase[i] = "added" => phase'[i] = "run")
          BY <1>4, <2>1 DEF StartCheck, StartRefused, StartThread, StartAdd, MayStart, Typed
    <3> QED BY <1>3, <1>4, <3>1, <3>2 DEF Entries
  <2>2. CASE ctl[c] = i /\ StartAdd(c)
    <3>1. reg' = [reg EXCEPT ![NameOf[i]] = i] /\ phase'[i] = "added"
          BY <1>4, <2>2 DEF StartAdd, Typed
    <3> QED BY <1>3, <1>4, <3>1 DEF Entries
  <2> QED BY <2>1, <2>2
<1> QED BY <1>8, <1>9, <1>11, <1>12

-----------------------------------------------------------------------------
(* The main thread and the event loop go on, with no plugin touched. *)
LEMMA EntryTurnSteps ==
  ASSUME OnlyConfigured, EntryInv,
         RunClear \/ RunShutdown \/ RunIdleEnd \/ RunSignalEnd \/ RunJoin \/ RunUnloadEnd
           \/ RunConfigEnd \/ LoopIdle \/ LoopIdleEnd \/ LoopEnds
  PROVE  EntryInv'
<1> USE FewThreads, ItemsAre DEF EntryInv
<1>1. UNCHANGED <<reg, phase, ctl, sp, midway, overdue, orphans>> /\ late' \subseteq Insts
  BY DEF RunClear, RunShutdown, RunIdleEnd, RunSignalEnd, RunJoin, RunUnloadEnd, RunConfigEnd,
         LoopIdle, LoopIdleEnd, LoopEnds, history, reqVars, Typed
<1>2. /\ todo' \in {todo, Items} /\ idleTodo' \in {idleTodo, Items}
      /\ todo' # todo \/ idleTodo' # idleTodo => StartupDone /\ mainPc # "config"
  <2>1. CASE RunShutdown \/ RunIdleEnd \/ RunJoin
    <3>1. mainPc \in {"wait", "idle", "join"} /\ (mainPc = "wait" => shutdown)
          BY <2>1 DEF RunShutdown, RunIdleEnd, RunJoin, LoopOver
    <3>2. CASE mainPc = "join"
      <4>1. mainPc \notin {"clear", "wait"}
            BY <3>2
      <4> QED BY <2>1, <3>2, <4>1 DEF RunShutdown, RunIdleEnd, RunJoin, Early
    <3>3. CASE mainPc # "join"
          BY <2>1, <3>1, <3>3 DEF RunShutdown, RunIdleEnd, RunJoin, Early
    <3> QED BY <3>2, <3>3
  <2>2. CASE LoopIdle
    <3>1. StartupDone /\ mainPc # "config" /\ idleTodo' = Items /\ todo' = todo
          BY <2>2 DEF LoopIdle, Turns, OnlyConfigured, mainVars
    <3> QED BY <3>1
  <2>3. CASE RunClear \/ RunSignalEnd \/ RunUnloadEnd \/ RunConfigEnd \/ LoopIdleEnd \/ LoopEnds
    <3>1. UNCHANGED <<todo, idleTodo>>
          BY <2>3 DEF RunClear, RunSignalEnd, RunUnloadEnd, RunConfigEnd, LoopIdleEnd, LoopEnds, mainVars
    <3> QED BY <3>1
  <2> QED BY <2>1, <2>2, <2>3
<1>3. Typed'
  BY <1>1, <1>2 DEF Typed, Free
<1>4. LookedUp'
  <2>1. CASE todo' = todo /\ idleTodo' = idleTodo
        BY <1>1, <2>1 DEF LookedUp, Same, Started, Free
  <2>2. CASE ~(todo' = todo /\ idleTodo' = idleTodo)
    <3>1. \A n \in Names : reg[n] # NoInst => Started(reg[n])
      <4> SUFFICES ASSUME NEW n \in Names, reg[n] # NoInst PROVE Started(reg[n])
          OBVIOUS
      <4>1. reg[n] \in Insts
            BY DEF Typed
      <4>2. phase[reg[n]] # "added"
            BY <1>2, <2>2, <4>1, Quiet
      <4> QED BY <4>1, <4>2 DEF Entries, Started
    <3>2. \A x \in Items : Same(x[1], x[2])
          BY <3>1, LifecycleAssumption DEF Same, Items, Present
    <3>3. \A x \in todo' \cup idleTodo' : Same(x[1], x[2])
          BY <1>2, <3>2 DEF LookedUp
    <3> QED BY <1>1, <3>3 DEF LookedUp, Same, Started, Free
  <2> QED BY <2>1, <2>2
<1>5. Turns'
  BY <1>1 DEF RunClear, RunShutdown, RunIdleEnd, RunSignalEnd, RunJoin, RunUnloadEnd, RunConfigEnd,
         LoopIdle, LoopIdleEnd, LoopEnds, LoopOver, Turns, Free, mainVars
<1>6. Early'
  <2>1. StartupDone' <=> StartupDone
        BY <1>1 DEF StartupDone
  <2> SUFFICES ASSUME ~StartupDone
               PROVE  mainPc' \in {"clear", "wait"} /\ loopPc' # "idle" /\ ~shutdown' /\ ~midway'
      BY <2>1 DEF Early
  <2>2. mainPc \in {"clear", "wait"} /\ loopPc # "idle" /\ ~shutdown /\ ~midway
        BY DEF Early
  <2>3. RunClear \/ LoopEnds
        BY <2>2 DEF RunShutdown, RunIdleEnd, RunSignalEnd, RunJoin, RunUnloadEnd, RunConfigEnd, LoopOver,
               LoopIdle, LoopIdleEnd, OnlyConfigured
  <2> QED BY <1>1, <2>2, <2>3 DEF RunClear, LoopEnds, mainVars
<1>7. Hands'
  <2>1. ctl[Main] = NoInst
    <3> SUFFICES ASSUME ctl[Main] # NoInst PROVE FALSE
        OBVIOUS
    <3>1. mainPc = "config" /\ loopPc = "off"
          BY DEF Hands, Turns
    <3> QED BY <3>1 DEF RunClear, RunShutdown, RunIdleEnd, RunSignalEnd, RunJoin, RunUnloadEnd, RunConfigEnd,
             LoopOver, LoopIdle, LoopIdleEnd, LoopEnds
  <2> QED BY <1>1, <2>1 DEF Hands, Holds
<1>8. Entries' /\ DoomedRest' /\ NoOrphans'
  BY <1>1 DEF Entries, DoomedRest, Doomed, Lost, NoOrphans
<1> QED BY <1>3, <1>4, <1>5, <1>6, <1>7, <1>8

(* stop() and restart() come after the configuration is applied. *)
LEMMA EntryRequests ==
  ASSUME OnlyConfigured, EntryInv, Stop \/ RestartFlag \/ RestartStop PROVE EntryInv'
<1> USE DEF EntryInv
<1>1. /\ UNCHANGED <<mainPc, todo, loopPc, idleTodo, reg, phase, ctl, sp, history>>
      /\ StartupDone
  BY DEF Stop, RestartFlag, RestartStop, MayAsk, OnlyConfigured, Early
<1>2. Early'
  BY <1>1 DEF Early, StartupDone
<1> QED BY <1>1, <1>2 DEF Typed, Turns, Hands, Holds, Entries, LookedUp, Same, Started, DoomedRest, Doomed,
             Lost, NoOrphans, Free, history

LEMMA EntryInvStep == ASSUME OnlyConfigured, EntryInv, [Next]_vars PROVE EntryInv'
<1>1. CASE UNCHANGED vars
  BY <1>1 DEF vars, mainVars, reqVars, history, EntryInv, Typed, Turns, Early, StartupDone, Hands, Holds,
             Entries, LookedUp, Same, Started, DoomedRest, Doomed, Lost, NoOrphans, Free
<1>2. CASE Run
  BY <1>2, EntryLoopSteps, EntryTurnSteps DEF Run
<1>3. CASE EventLoop
  BY <1>3, EntryLoopSteps, EntryTurnSteps DEF EventLoop
<1>4. ASSUME NEW t \in Procs, StopStep(t) PROVE EntryInv'
  BY <1>4, EntryMoveSteps, EntryDelStep DEF StopStep
<1>5. ASSUME NEW i \in Insts, PluginStops(i) \/ PluginDies(i) PROVE EntryInv'
  BY <1>5, EntryPluginStep
<1>6. ASSUME NEW c \in Starters, Start(c) PROVE EntryInv'
  <2>1. ASSUME NEW i \in Insts, StartCheck(c, i) \/ StartRefused(c, i) PROVE EntryInv'
        BY <2>1, EntryStartSteps
  <2>2. CASE StartAdd(c) \/ StartThread(c)
    <3>1. ctl[c] \in Insts
          BY <2>2 DEF StartAdd, StartThread, EntryInv, Typed
    <3> QED BY <2>2, <3>1, EntryStartSteps
  <2> QED BY <1>6, <2>1, <2>2 DEF Start
<1>7. Controllers = {}
  BY DEF OnlyConfigured
<1>8. CASE Stop \/ RestartFlag \/ RestartStop
  BY <1>8, EntryRequests
<1> QED BY <1>1, <1>2, <1>3, <1>4, <1>5, <1>6, <1>7, <1>8 DEF Next

(* "if p in self.__plugins: del self.__plugins[p]" and "self.__plugins[plugin.name] =    *)
(* plugin" take the entry from nobody who lives: neither the event loop nor the main      *)
(* thread, late with its unloading, takes out the successor of a plugin that a restart     *)
(* loads under its name.                                                                *)
THEOREM NoOrphansHolds ==
  ASSUME OnlyConfigured PROVE Spec => []NoOrphans
<1>1. Init => EntryInv
  BY EntryInit
<1>2. EntryInv /\ [Next]_vars => EntryInv'
  BY EntryInvStep
<1>3. EntryInv => NoOrphans
  BY DEF EntryInv
<1> QED BY <1>1, <1>2, <1>3, PTL DEF Spec
=============================================================================
