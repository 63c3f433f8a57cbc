----------------------------- MODULE MCServices -----------------------------
(* What plugins and the framework keep and exchange, one at a time: a behaviour is    *)
(* one of FlowState, Snapshot, Channel, EventLink, Tcp, Redir or Parallel, chosen at    *)
(* the start, and the variables of the others do not change.  They share no state.     *)
EXTENDS Integers

CONSTANTS
  FlowThreads, Ends, TableThere, MaxFlowPackets,                                \* FlowState
  Plugins, Configured, Unloadable, Savers, Restore,                             \* Snapshot
  MaxChanges, MaxSaves, MaxLoads, MaxCrashes,
  ChSenders, ChSizes, Overtaking, MaxChEvents, MaxChLost,                       \* Channel
  LinkSenders, BusySenders, IdleCloses, MaxLinkEvents, MaxPartial,              \* EventLink
  Clients, TcpKey, Segments, Window, FirstSeqs, OurSeqs, SeqMod, LosesSegments, MaxTcpLost, \* Tcp
  RedirClients, RedirHosts, Pot, SportOf, ConfigKeys, Rules, MatchAll, MaxRequests, \* Redir
  Jobs, JobName, Pool, Retry, MaxFailures, MaxJobCrashes                        \* Parallel

ASSUME ChannelAssumption == ChSizes \subseteq Nat \ {0} /\ MaxChLost \in Nat

VARIABLES
  part,
  tables, flows, flowCall, flowPackets,
  state, saver, file, loader, saved, broken, touched, changes, saves, loads, crashes,
  chEvents, net, buf, chHeard, chLost,
  server, backlog, serving, sock, links, linkCall, linkSent, written, arrived, cut, partials,
  conns, tcpGot, client, toServer, toClient, tcpLost,
  portState, atPot, inside, returned, requests,
  nextJob, jobs, doneFiles, succeeded, failed, gaveUp, raised, jobCrashes

Flow == INSTANCE FlowState
Snap == INSTANCE Snapshot
Udp == INSTANCE Channel
Link == INSTANCE EventLink
Stack == INSTANCE Tcp
Turn == INSTANCE Redir
Runner == INSTANCE Parallel

Parts == {"flow", "snapshot", "channel", "link", "tcp", "redir", "parallel"}

(* each client, each command by itself; and two that share a key, a port or a name      *)
MCOwnKey == [c \in Clients |-> c]
MCOneKey == [c \in Clients |-> 1]
MCOwnPort == [c \in RedirClients |-> c]
MCOnePort == [c \in RedirClients |-> 1]
MCOwnName == [j \in Jobs |-> j]
MCOneName == [j \in Jobs |-> 1]
MCSegments == <<1, 2, 1>>
MCConfigKeys == <<"EXTERNAL", "eval1", "eval2">>

Init ==
  /\ part \in Parts
  /\ Flow!FlowInit /\ Snap!SnapInit /\ Udp!ChInit /\ Link!LinkInit
  /\ Stack!TcpInit /\ Turn!RedirInit /\ Runner!JobInit

FlowVars == <<tables, flows, flowCall, flowPackets>>
SnapVars == <<state, saver, file, loader, saved, broken, touched, changes, saves, loads, crashes>>
UdpVars == <<chEvents, net, buf, chHeard, chLost>>
LinkVars == <<server, backlog, serving, sock, links, linkCall, linkSent, written, arrived, cut, partials>>
StackVars == <<conns, tcpGot, client, toServer, toClient, tcpLost>>
TurnVars == <<portState, atPot, inside, returned, requests>>
RunnerVars == <<nextJob, jobs, doneFiles, succeeded, failed, gaveUp, raised, jobCrashes>>
vars == <<part, FlowVars, SnapVars, UdpVars, LinkVars, StackVars, TurnVars, RunnerVars>>

Others(p) ==
  /\ part = p /\ UNCHANGED part
  /\ p # "flow" => UNCHANGED FlowVars
  /\ p # "snapshot" => UNCHANGED SnapVars
  /\ p # "channel" => UNCHANGED UdpVars
  /\ p # "link" => UNCHANGED LinkVars
  /\ p # "tcp" => UNCHANGED StackVars
  /\ p # "redir" => UNCHANGED TurnVars
  /\ p # "parallel" => UNCHANGED RunnerVars

FlowStep == part = "flow" /\ Flow!FlowNext /\ Others("flow")
SnapshotStep == part = "snapshot" /\ Snap!SnapNext /\ Others("snapshot")
ChannelStep == part = "channel" /\ Udp!ChNext /\ Others("channel")
LinkStep == part = "link" /\ Link!LinkNext /\ Others("link")
TcpStep == part = "tcp" /\ Stack!TcpNext /\ Others("tcp")
RedirStep == part = "redir" /\ Turn!RedirNext /\ Others("redir")
ParallelStep == part = "parallel" /\ Runner!JobNext /\ Others("parallel")

Next == FlowStep \/ SnapshotStep \/ ChannelStep \/ LinkStep \/ TcpStep \/ RedirStep \/ ParallelStep

LinkWork == part = "link" /\ Link!LinkWork /\ Others("link")
TcpWork(c) == part = "tcp" /\ Stack!TcpWork(c) /\ Others("tcp")

Spec == Init /\ [][Next]_vars /\ WF_vars(LinkWork) /\ \A c \in Clients : WF_vars(TcpWork(c))

(* FlowState: the entry of a flow stays until a thread removes it.                       *)
EntriesKept == Flow!EntriesKept
(* FlowState: a flow has one entry, whichever of its ends is seen first.               *)
OneKeyPerFlow == Flow!OneKeyPerFlow
(* Snapshot: a load gives back what was saved and leaves nothing of what was before.     *)
LoadedIsSaved == Snap!LoadedIsSaved
(* Snapshot: the file keeps what was last saved until another save begins to write.      *)
KeepsLastSave == Snap!KeepsLastSave
(* Channel: what is left of an event that lost a packet does not hinder the next ones.   *)
UnhurtArrive == Udp!UnhurtArrive
(* EventLink: no sender, and not shutdown(), waits for a connection for ever.            *)
EveryoneServed == part = "link" => Link!EveryoneServed
(* Tcp: every segment is received once and in order, although packets are lost.          *)
TcpReceives == part = "tcp" => Stack!TcpReceives
(* Redir: a response goes to the client that asked, from the host it asked.              *)
ResponseReturns == Turn!ResponseReturns
(* Redir: with MATCH_ALL, all rules that match trigger a redirect.                       *)
MatchAllRedirects == Turn!MatchAllRedirects
(* Parallel: no command is left out because the program crashed or one could not be run. *)
EveryJobTried == Runner!EveryJobTried
=============================================================================
