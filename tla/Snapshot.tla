------------------------------ MODULE Snapshot ------------------------------
(***************************************************************************)
(* Saving and loading the state of all plugins (framework.py: dump_state,       *)
(* save_state, load_state, del_state).  A save walks over the plugins, empties     *)
(* the file and writes it; the plugins go on meanwhile, and what they change while    *)
(* it is written, or what cannot be written, ends it in the middle.  A load clears    *)
(* their state, stops them, starts those of the snapshot and gives each its state.    *)
(* The framework may crash at any time; what it starts with is its configuration.   *)
(***************************************************************************)
EXTENDS Integers, Sequences, FiniteSets

CONSTANTS
  Plugins,      \* the names of plugins
  Configured,   \* those the configuration loads
  Unloadable,   \* those that cannot be loaded again
  Savers,       \* threads that save: the event loop's idle(), a control connection
  Restore,      \* does a load replace the plugins?
  MaxChanges, MaxSaves, MaxLoads, MaxCrashes  \* bounds

NoState == 0    \* an empty state
NoSnap == [states |-> [p \in {} |-> NoState], plugins |-> {}]

VARIABLES
  state,      \* the loaded plugins -> their state
  saver,      \* thread -> its save: where it is, what it has dumped, what is left
  file,       \* the file: [kind, snap]; "part" when it cannot be read
  loader,     \* the load: where it is, of what, what is left
  saved,      \* what was last saved (history)
  broken,     \* has a save been cut short since then? (history)
  touched,    \* has a plugin changed since the load began? (history)
  changes, saves, loads, crashes  \* bounds

snapVars == <<state, saver, file, loader, saved, broken, touched, changes, saves, loads, crashes>>
snapBounds == <<changes, saves, loads, crashes>>

NoSave == [pc |-> "idle", snap |-> NoSnap, left |-> {}, seen |-> {}]
NoLoad == [pc |-> 0, snap |-> NoSnap, left |-> {}]
NoFile == [kind |-> "none", snap |-> NoSnap]

SnapInit ==
  /\ state = [p \in Configured |-> NoState]
  /\ saver = [s \in Savers |-> NoSave] /\ loader = NoLoad
  /\ file = NoFile /\ saved = NoSnap /\ broken = FALSE /\ touched = FALSE
  /\ changes = 0 /\ saves = 0 /\ loads = 0 /\ crashes = 0

Loaded == DOMAIN state
Having(f, p, v) == [q \in DOMAIN f \cup {p} |-> IF q = p THEN v ELSE f[q]]
Dropping(f, p) == [q \in DOMAIN f \ {p} |-> f[q]]

-----------------------------------------------------------------------------
(* A plugin sets its state; one that was not there may be loaded.                      *)
Change(p) ==
  /\ p \in Loaded /\ changes < MaxChanges
  /\ changes' = changes + 1
  /\ state' = [state EXCEPT ![p] = changes + 1]
  /\ touched' = TRUE
  /\ UNCHANGED <<saver, file, loader, saved, broken, saves, loads, crashes>>

LoadPlugin(p) ==
  /\ p \notin Loaded /\ loader = NoLoad /\ changes < MaxChanges
  /\ changes' = changes + 1
  /\ state' = Having(state, p, NoState)
  /\ touched' = TRUE
  /\ UNCHANGED <<saver, file, loader, saved, broken, saves, loads, crashes>>

-----------------------------------------------------------------------------
(* save_state() *)

SaveBeginOpen(s) ==   \* mutant: the file is opened before the state is dumped
  /\ saver[s] = NoSave /\ saves < MaxSaves
  /\ saves' = saves + 1
  /\ saver' = [saver EXCEPT ![s] = [pc |-> "dump", snap |-> NoSnap, left |-> Loaded, seen |-> Loaded]]
  /\ file' = [kind |-> "part", snap |-> NoSnap]
  /\ UNCHANGED <<state, loader, saved, broken, touched, changes, loads, crashes>>

SaveBegin(s) ==
  /\ saver[s] = NoSave /\ saves < MaxSaves
  /\ saves' = saves + 1
  /\ saver' = [saver EXCEPT ![s] = [pc |-> "dump", snap |-> NoSnap, left |-> Loaded, seen |-> Loaded]]
  /\ UNCHANGED <<state, file, loader, saved, broken, touched, changes, loads, crashes>>

(* dump_state(): plugin by plugin; that the plugins change meanwhile is an exception.      *)
(* Then the configurations, of the plugins there are now.                                 *)
DumpOne(s) ==
  /\ saver[s].pc = "dump" /\ saver[s].left # {}
  /\ IF Loaded = saver[s].seen
     THEN \E p \in saver[s].left :
            saver' = [saver EXCEPT ![s].snap.states = Having(@, p, state[p]), ![s].left = @ \ {p}]
     ELSE saver' = [saver EXCEPT ![s] = NoSave]
  /\ UNCHANGED <<state, file, loader, saved, broken, touched, snapBounds>>

OpenFile(s) ==
  /\ saver[s].pc = "dump" /\ saver[s].left = {}
  /\ file' = [kind |-> "part", snap |-> NoSnap]
  /\ saver' = [saver EXCEPT ![s].pc = "write", ![s].snap.plugins = Loaded]
  /\ UNCHANGED <<state, loader, saved, broken, touched, snapBounds>>

WriteFile(s) ==
  /\ saver[s].pc = "write"
  /\ file' = [kind |-> "saved", snap |-> saver[s].snap]
  /\ saved' = saver[s].snap
  /\ saver' = [saver EXCEPT ![s] = NoSave]
  /\ broken' = FALSE
  /\ UNCHANGED <<state, loader, touched, snapBounds>>

(* An exception: the file cannot be opened, or its disk is full, or pickle.dump() meets what it    *)
(* cannot write or a dictionary that a plugin changes.  It is logged, and the framework goes on.  *)
SaveFails(s) ==
  /\ \/ saver[s].pc = "dump" /\ saver[s].left = {} /\ UNCHANGED <<file, broken>>
     \/ /\ saver[s].pc = "write"
        /\ file' = [kind |-> "part", snap |-> NoSnap] /\ broken' = TRUE
  /\ saver' = [saver EXCEPT ![s] = NoSave]
  /\ UNCHANGED <<state, loader, saved, touched, snapBounds>>

-----------------------------------------------------------------------------
(* load_state(), with flush.  A file that cannot be read is an exception.              *)

StagesSetFirst == <<"flush", "set", "stop", "start">>   \* mutant: state before plugins

Stages == <<"flush", "stop", "start", "set">>

(* what there is to do in a stage                                                     *)
Work(stage, snap) ==
  CASE stage = "flush" -> Loaded
    [] stage = "stop" -> IF Restore THEN Loaded ELSE {}
    [] stage = "start" -> IF Restore THEN snap.plugins ELSE {}
    [] stage = "set" -> DOMAIN snap.states

Finished == Len(Stages) + 1

LoadBegin ==
  /\ loader = NoLoad /\ loads < MaxLoads
  /\ loads' = loads + 1
  /\ IF file.kind = "saved"
     THEN loader' = [pc |-> 1, snap |-> file.snap, left |-> Work(Stages[1], file.snap)]
     ELSE loader' = loader
  /\ touched' = FALSE
  /\ UNCHANGED <<state, saver, file, saved, broken, changes, saves, crashes>>

Midway == loader.pc \in 1..Len(Stages)

LoadOne(p) ==
  /\ Midway /\ p \in loader.left
  /\ LET stage == Stages[loader.pc] IN
     IF stage = "start" /\ p \in Unloadable
     THEN loader' = NoLoad /\ UNCHANGED state      \* the exception ends the load
     ELSE /\ state' = CASE stage = "flush" -> IF p \in Loaded THEN [state EXCEPT ![p] = NoState] ELSE state
                        [] stage = "stop" -> Dropping(state, p)
                        [] stage = "start" -> Having(state, p, NoState)
                        [] stage = "set" -> IF p \in Loaded THEN [state EXCEPT ![p] = loader.snap.states[p]] ELSE state
          /\ loader' = [loader EXCEPT !.left = @ \ {p}]
  /\ UNCHANGED <<saver, file, saved, broken, touched, snapBounds>>

NextStage ==
  /\ Midway /\ loader.left = {}
  /\ loader' = [loader EXCEPT !.pc = @ + 1,
       !.left = IF loader.pc = Len(Stages) THEN {} ELSE Work(Stages[loader.pc + 1], loader.snap)]
  /\ UNCHANGED <<state, saver, file, saved, broken, touched, snapBounds>>

LoadEnd ==
  /\ loader.pc = Finished
  /\ loader' = NoLoad
  /\ UNCHANGED <<state, saver, file, saved, broken, touched, snapBounds>>

-----------------------------------------------------------------------------
(* Only the file is left.                                                             *)
Crash ==
  /\ crashes < MaxCrashes
  /\ broken' = (broken \/ \E s \in Savers : saver[s].pc = "write")
  /\ crashes' = crashes + 1
  /\ state' = [p \in Configured |-> NoState]
  /\ saver' = [s \in Savers |-> NoSave] /\ loader' = NoLoad
  /\ UNCHANGED <<file, saved, touched, changes, saves, loads>>

SnapNext ==
  \/ \E p \in Plugins : Change(p) \/ LoadPlugin(p) \/ LoadOne(p)
  \/ \E s \in Savers : SaveBegin(s) \/ DumpOne(s) \/ OpenFile(s) \/ WriteFile(s) \/ SaveFails(s)
  \/ LoadBegin \/ NextStage \/ LoadEnd \/ Crash
-----------------------------------------------------------------------------
(* A load that ends, while the plugins rest, has given every plugin of the snapshot its state:  *)
(* nothing of the state before it is left, nothing the snapshot has is missing.               *)
LoadedIsSaved ==
  loader.pc = Finished /\ ~touched =>
    /\ Restore => Loaded = loader.snap.plugins
    /\ \A p \in Loaded :
         state[p] = IF p \in DOMAIN loader.snap.states THEN loader.snap.states[p] ELSE NoState

(* What the file has, when no save is writing, is what was last saved, unless a save was cut       *)
(* short since then, by a crash or an exception while it wrote.  A crash before, a save that       *)
(* ends because plugins come and go, another saver and a load leave it.                          *)
KeepsLastSave ==
  (\A s \in Savers : saver[s].pc # "write") /\ ~broken /\ saved # NoSnap =>
    file = [kind |-> "saved", snap |-> saved]
=============================================================================
