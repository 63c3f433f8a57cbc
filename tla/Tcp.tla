-------------------------------- MODULE Tcp ---------------------------------
(***************************************************************************)
(* The small TCP server (plugins/tcp.py) and clients that send it one segment    *)
(* at a time.  It answers a segment with as much, closes its side at once, and     *)
(* acknowledges with these two packets only.  It keeps the connection: what the    *)
(* client sent before it saw the end is answered like the first segment.  A packet  *)
(* with an old acknowledgement shows that the answer was lost: it is sent again.    *)
(***************************************************************************)
EXTENDS Integers, Sequences

CONSTANTS
  Clients,      \* clients
  TcpKey,       \* the key of a client's connection: addresses and ports as one string
  Segments,     \* lengths of the segments a client sends
  Window,       \* segments it sends without an answer to the one before
  FirstSeqs,    \* initial numbers of clients
  OurSeqs,      \* initial numbers of the server
  SeqMod,       \* 2^32
  LosesSegments,\* may a segment of a client get lost (a constant of the experiment)
  MaxTcpLost    \* bound: packets lost

VARIABLES
  conns,        \* conns: key -> remote and local number, length of the answer to resend
  tcpGot,       \* client -> segments tcp_recv() was called with
  client,       \* client -> where it is
  toServer, toClient,  \* client -> packets on their way
  tcpLost       \* packets lost (bound)

tcpVars == <<conns, tcpGot, client, toServer, toClient, tcpLost>>

NoConn == [remote |-> -1, local |-> -1, resend |-> 0]
Keys == {TcpKey[c] : c \in Clients}

TcpInit ==
  /\ conns = [k \in Keys |-> NoConn] /\ tcpGot = [c \in Clients |-> <<>>]
  /\ \E isn \in FirstSeqs :
       client = [c \in Clients |-> [pc |-> "start", isn |-> isn, n |-> 0, answers |-> 0, ack |-> 0, sent |-> 0]]
  /\ toServer = [c \in Clients |-> <<>>] /\ toClient = [c \in Clients |-> <<>>]
  /\ tcpLost = 0

TcpPacket(flag, seq, ack, n, len) == [flag |-> flag, seq |-> seq, ack |-> ack, n |-> n, len |-> len]

-----------------------------------------------------------------------------
(* The server: effect()                                                             *)

(* what it does with a packet: the connection, the reply, whether tcp_recv() is called     *)
Effect(conn, reply, got) == [conn |-> conn, reply |-> reply, got |-> got]

OnSyn(p, isn) ==
  Effect([remote |-> p.seq + 1, local |-> isn, resend |-> 0],
         <<TcpPacket("syn", isn - 1, p.seq + 1, 0, 0)>>, FALSE)

Resend(conn, p) == p.ack < conn.local
ResendAtEnd(conn) ==   \* mutant: the number is not rolled back by the length of the answer
  Effect(conn, <<TcpPacket("data", conn.local, conn.remote, 0, conn.resend)>>, FALSE)
ResendAnswer(conn) ==
  Effect(conn, <<TcpPacket("data", conn.local - conn.resend, conn.remote, 0, conn.resend)>>, FALSE)

(* tcp_recv() answers with as much, by tcp_send(), and calls tcp_close(), which sends the end   *)
(* and leaves the connection as it is.                                                        *)
Answer(conn, p) ==
  LET remote == (p.seq + p.len) % SeqMod
      local == (conn.local + p.len) % SeqMod IN
  Effect([remote |-> remote, local |-> local, resend |-> p.len],
         <<TcpPacket("data", conn.local, remote, 0, p.len), TcpPacket("fin", local, remote, 0, 0)>>, TRUE)

IsNew(conn, p) == p.seq >= conn.remote

(* A packet of a connection it has.                                                     *)
OnPacket(conn, p) ==
  CASE p.flag = "rst" -> Effect(NoConn, <<>>, FALSE)
    [] p.flag = "fin" -> Effect(NoConn, <<TcpPacket("fin", conn.local, conn.remote, 0, 0)>>, FALSE)
    [] p.flag = "data" /\ Resend(conn, p) -> ResendAnswer(conn)
    [] p.flag = "data" /\ ~Resend(conn, p) /\ IsNew(conn, p) /\ p.len > 0 -> Answer(conn, p)
    [] p.flag = "data" /\ ~Resend(conn, p) /\ IsNew(conn, p) /\ p.len = 0 -> Effect([conn EXCEPT !.remote = p.seq], <<>>, FALSE)
    [] OTHER -> Effect(conn, <<>>, FALSE)

TcpEffect(c) ==
  /\ toServer[c] # <<>>
  /\ LET p == Head(toServer[c])
         conn == conns[TcpKey[c]]
     IN \E isn \in OurSeqs :
        LET e == IF p.flag = "syn" THEN OnSyn(p, isn)
                 ELSE IF conn = NoConn THEN Effect(conn, <<>>, FALSE)
                 ELSE OnPacket(conn, p)
        IN /\ conns' = [conns EXCEPT ![TcpKey[c]] = e.conn]
           /\ toClient' = [toClient EXCEPT ![c] = @ \o e.reply]
           /\ tcpGot' = IF e.got THEN [tcpGot EXCEPT ![c] = Append(@, p.n)] ELSE tcpGot
  /\ toServer' = [toServer EXCEPT ![c] = Tail(@)]
  /\ UNCHANGED <<client, tcpLost>>

-----------------------------------------------------------------------------
(* A client: it sends a segment when the one before has been answered, until it is told of the  *)
(* server's end.  n: segments acknowledged; answers: segments answered; ack: the number it      *)
(* expects from the server.                                                                 *)

Before(n) == LET sum[i \in 0..n] == IF i = 0 THEN 0 ELSE sum[i - 1] + Segments[i] IN sum[n]
SeqOf(c, n) == (client[c].isn + 1 + Before(n - 1)) % SeqMod
Segment(c, n) == TcpPacket("data", SeqOf(c, n), client[c].ack, n, Segments[n])

Opens(c) ==
  /\ client[c].pc = "start"
  /\ client' = [client EXCEPT ![c].pc = "syn"]
  /\ toServer' = [toServer EXCEPT ![c] = Append(@, TcpPacket("syn", client[c].isn, 0, 0, 0))]
  /\ UNCHANGED <<conns, tcpGot, toClient, tcpLost>>

SendsNext(c) ==
  /\ client[c].pc = "open" /\ client[c].sent < Len(Segments)
  /\ client[c].sent < client[c].answers + Window
  /\ client' = [client EXCEPT ![c].sent = @ + 1]
  /\ toServer' = [toServer EXCEPT ![c] = Append(@, Segment(c, client[c].sent + 1))]
  /\ UNCHANGED <<conns, tcpGot, toClient, tcpLost>>

(* The server's SYN.                                                                       *)
GetsSyn(c, p) ==
  /\ p.flag = "syn"
  /\ client' = [client EXCEPT ![c] =
       IF @.pc = "syn" THEN [@ EXCEPT !.pc = "open", !.ack = (p.seq + 1) % SeqMod] ELSE @]
  /\ UNCHANGED toServer

(* Data, or the end: it takes what is next and acknowledges what came.  After the end it only    *)
(* looks at what the server acknowledges.                                                     *)
GetsData(c, p) ==
  /\ p.flag \in {"data", "fin"}
  /\ LET next == client[c].pc = "open" /\ p.seq = client[c].ack
         acked == {n \in client[c].n..client[c].sent : SeqOf(c, n + 1) = p.ack}
         new == [client[c] EXCEPT !.n = IF acked = {} THEN @ ELSE CHOOSE n \in acked : TRUE,
                                  !.ack = IF next THEN (@ + (IF p.flag = "fin" THEN 1 ELSE p.len)) % SeqMod ELSE @,
                                  !.answers = IF next /\ p.flag = "data" THEN @ + 1 ELSE @,
                                  !.pc = IF next /\ p.flag = "fin" THEN "told" ELSE @]
     IN /\ client' = [client EXCEPT ![c] = new]
        /\ IF client[c].pc = "open"
           THEN toServer' = [toServer EXCEPT ![c] =
                               Append(@, TcpPacket("data", SeqOf(c, client[c].sent + 1), new.ack, 0, 0))]
           ELSE UNCHANGED toServer

GetsReply(c) ==
  /\ toClient[c] # <<>>
  /\ GetsSyn(c, Head(toClient[c])) \/ GetsData(c, Head(toClient[c]))
  /\ toClient' = [toClient EXCEPT ![c] = Tail(@)]
  /\ UNCHANGED <<conns, tcpGot, tcpLost>>

(* Nothing comes back: it sends again what is not acknowledged.                              *)
SendsAgain(c) ==
  /\ client[c].pc \in {"syn", "open", "told"} /\ (client[c].pc # "syn" => client[c].n < client[c].sent)
  /\ toServer[c] = <<>> /\ toClient[c] = <<>>
  /\ toServer' = [toServer EXCEPT ![c] =
       <<IF client[c].pc = "syn" THEN TcpPacket("syn", client[c].isn, 0, 0, 0)
         ELSE Segment(c, client[c].n + 1)>>]
  /\ UNCHANGED <<conns, tcpGot, client, toClient, tcpLost>>

Closes(c, flag) ==
  /\ client[c].pc = "told" \/ (client[c].pc = "open" /\ client[c].answers = Len(Segments))
  /\ client[c].n = client[c].sent
  /\ client' = [client EXCEPT ![c].pc = "closing"]
  /\ toServer' = [toServer EXCEPT ![c] = Append(@, TcpPacket(flag, SeqOf(c, client[c].sent + 1), client[c].ack, 0, 0))]
  /\ UNCHANGED <<conns, tcpGot, toClient, tcpLost>>

LosesPacket(c) ==
  /\ tcpLost < MaxTcpLost /\ tcpLost' = tcpLost + 1
  /\ \/ /\ toServer[c] # <<>> /\ (Head(toServer[c]).len > 0 => LosesSegments)
        /\ toServer' = [toServer EXCEPT ![c] = Tail(@)] /\ UNCHANGED toClient
     \/ /\ toClient[c] # <<>>
        /\ toClient' = [toClient EXCEPT ![c] = Tail(@)] /\ UNCHANGED toServer
  /\ UNCHANGED <<conns, tcpGot, client>>

TcpWork(c) == Opens(c) \/ SendsNext(c) \/ TcpEffect(c) \/ GetsReply(c) \/ SendsAgain(c)

TcpNext == \E c \in Clients : TcpWork(c) \/ LosesPacket(c) \/ \E flag \in {"fin", "rst"} : Closes(c, flag)
-----------------------------------------------------------------------------
(* In the end tcp_recv() has been called with every segment a client has sent, once and in       *)
(* order, and with nothing else, although answers, acknowledgements and ends are lost and the    *)
(* server closes its side after each answer; and if no more than one of them was lost each       *)
(* segment has been answered, the first one at least if the client was told of the end then.     *)
TcpReceives == <>[](\A c \in Clients :
  /\ client[c].sent > 0 /\ tcpGot[c] = [i \in 1..client[c].sent |-> i]
  /\ tcpLost <= 1 => /\ client[c].answers > 0
                     /\ client[c].pc = "open" => client[c].answers = client[c].sent)
=============================================================================
