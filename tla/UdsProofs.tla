----------------------------- MODULE UdsProofs ------------------------------
(***************************************************************************)
(* Access and the integrity of a download, for any number of testers,         *)
(* requests, repetitions and losses.  Access is inductive as it stands: the    *)
(* messages under way do not matter to it, because the responder looks at its   *)
(* own state only when it answers.  For the download they do: the invariant      *)
(* says which requests and answers of the loader may still be under way.          *)
(***************************************************************************)
EXTENDS Uds, TLAPS

(* No seed is the value that stands for none.                                  *)
LEMMA SeedsAreNone == NoSeed \notin Seeds
<1>1. Seeds \subseteq 0..(KeyMod - 1)
      BY UdsAssumption
<1>2. -1 \notin 0..(KeyMod - 1)
      BY SMT DEF KeyMod
<1> QED BY <1>1, <1>2 DEF NoSeed

(* A new responder is locked and has drawn no seed.                           *)
LEMMA AccessInit == Init => Access
BY SeedsAreNone DEF Init, Access

access == <<session, unlocked, seed>>

(* Steps of the testers, of the proxy and of the network leave the access alone. *)
LEMMA OthersKeepAccess ==
  ASSUME \/ Pass \/ PassBack \/ PassRefused \/ Testing \/ AskTwice \/ Lose
         \/ \E t \in Testers, req \in Wishes : Wish(t, req)
  PROVE  UNCHANGED access
BY DEF Pass, PassBack, PassRefused, Testing, Ask, AskAgain, AskTwice, Lose, Wish, ecu, access

(* So do the answers about data and memory, and the refusals.                  *)
LEMMA DataKeepsAccess ==
  ASSUME \/ RespondReadId \/ RespondWriteId \/ RespondReadMemory \/ RespondWriteMemory
         \/ RespondRequestTransfer \/ RespondTransfer \/ RespondExit \/ RespondRefuse
  PROVE  UNCHANGED access
BY DEF RespondReadId, RespondWriteId, RespondReadMemory, RespondWriteMemory,
       RespondRequestTransfer, RespondTransfer, RespondExit, RespondRefuse, ecu, access

(* One step for each answer that changes the session, the lock or the seed.     *)
LEMMA AccessStep == Access /\ [Next]_vars => Access'
<1> SUFFICES ASSUME Access, [Next]_vars PROVE Access'
    OBVIOUS
<1>1. CASE RespondSession
  <2>1. UNCHANGED <<unlocked, seed>> /\ (session' \in 1..3 \/ session' = session)
        BY <1>1 DEF RespondSession
  <2> QED BY <2>1 DEF Access
<1>2. CASE RespondSeed
  <2>1. UNCHANGED <<session, unlocked>> /\ session # 0
        BY <1>2 DEF RespondSeed
  <2>2. seed' = seed \/ (~unlocked /\ seed' \in Seeds)
        BY <1>2 DEF RespondSeed
  <2> QED BY <2>1, <2>2 DEF Access
<1>3. CASE RespondKey
  <2>1. UNCHANGED session /\ session # 0
        BY <1>3 DEF RespondKey
  <2>2. UNCHANGED <<unlocked, seed>> \/ (unlocked' = TRUE /\ seed' = NoSeed)
        BY <1>3 DEF RespondKey
  <2> QED BY <2>1, <2>2, SeedsAreNone DEF Access
<1>4. CASE RespondReset
  <2>1. unlocked' = FALSE /\ seed' = NoSeed
        BY <1>4 DEF RespondReset
  <2> QED BY <2>1, SeedsAreNone DEF Access
<1>5. CASE UNCHANGED access
  BY <1>5 DEF access, Access
<1>6. CASE UNCHANGED vars
  BY <1>6, <1>5 DEF vars, ecu, access
<1> QED
  BY <1>1, <1>2, <1>3, <1>4, <1>5, <1>6, OthersKeepAccess, DataKeepsAccess
  DEF Next, System, Respond

(* A key opens the ECU once, in a session: while the ECU is unlocked no seed is   *)
(* open, and outside a session there is neither (UDSResponder's 0x27 handlers).   *)
THEOREM AccessHolds == Spec => []Access
BY AccessInit, AccessStep, PTL DEF Spec

-----------------------------------------------------------------------------
(* DownloadIntact.  The other testers neither run transfers nor write what the loader does   *)
(* not write, and the program has no more blocks than there are block numbers.              *)
Transfers == {"download", "upload", "transfer", "exit"}
Harmless ==
  /\ Blocks < BlockMod
  /\ \A w \in Wishes :
       /\ w.code \notin Transfers
       /\ w.code = "writeMem" => w.x \in Base..(Base + Blocks - 1) /\ w.y = w.x - Base + 1

IsSeq(q) == \E S : q \in Seq(S)

(* A request of the loader: its script has no others. *)
OfLoader(r) ==
  /\ r.code \in {"session", "seed", "key"} \cup Transfers
  /\ r = Request(r.code, r.x, r.y)
  /\ r.code = "session" => r.x = 2 /\ r.y = 0
  /\ r.code \in {"download", "upload"} => r.x = Base /\ r.y = 0
  /\ r.code = "transfer" => r.x \in 1..Blocks /\ r.y \in {0, r.x}
Loads(r) == r.code = "transfer" /\ r.y # 0
Reads(r) == r.code = "transfer" /\ r.y = 0

(* The request p of the step before step n.  Nothing is known of it in step 1.             *)
Leads(p, n) ==
  /\ n = 2 => p.code \in {"session", "key"}
  /\ n = 3 => p.code = "seed"
  /\ n = Download => p.code \in {"seed", "key"}
  /\ n = Download + 1 => p.code = "download"
  /\ n \in (Download + 2)..(Upload - 1) => Loads(p) /\ p.x = n - 1 - Download
  /\ n = Upload => p.code = "exit"
  /\ n = Upload + 1 => p.code = "upload"
  /\ n \in (Upload + 2)..(Done - 1) => Reads(p) /\ p.x = n - 1 - Upload

(* What is under way for the loader. *)
Asks(m, r) == m.from = Loader /\ m.req = r
Tells(m, r) == m.to = Loader /\ m.code = r.code /\ m.x = r.x

(* It belongs to the present step, or else to the one before: p is the request of that one, *)
(* c of the present; A, E and P are answers, toEcu and toProxy.                         *)
Only(A, E, P, p, c, w) ==
  /\ \A i \in DOMAIN A : A[i].to = Loader => Tells(A[i], p) \/ (w /\ Tells(A[i], c))
  /\ \A i \in DOMAIN E : E[i].from = Loader => Asks(E[i], p) \/ (w /\ Asks(E[i], c))
  /\ \A i \in DOMAIN P : P[i].from = Loader => Asks(P[i], p) \/ (w /\ Asks(P[i], c))

(* What belongs to the present step is behind the rest. *)
Ordered(A, E, P, c) ==
  /\ \A i, j \in DOMAIN A : i < j /\ Tells(A[i], c) /\ A[j].to = Loader => Tells(A[j], c)
  /\ \A i \in DOMAIN A, j \in DOMAIN E : Tells(A[i], c) /\ E[j].from = Loader => Asks(E[j], c)
  /\ \A i \in DOMAIN A, j \in DOMAIN P : Tells(A[i], c) /\ P[j].from = Loader => Asks(P[j], c)
  /\ \A i, j \in DOMAIN E : i < j /\ Asks(E[i], c) /\ E[j].from = Loader => Asks(E[j], c)
  /\ \A i \in DOMAIN E, j \in DOMAIN P : Asks(E[i], c) /\ P[j].from = Loader => Asks(P[j], c)
  /\ \A i, j \in DOMAIN P : i < j /\ Asks(P[i], c) /\ P[j].from = Loader => Asks(P[j], c)

(* The responder's transfer is of the kind that the requests before it are for. *)
Loading == dtAddr # NoAddress => ~dtUpload
Reading == dtAddr # NoAddress => dtUpload
Modes(p) ==
  /\ Loads(p) \/ step \in (Download + 1)..(Download + Blocks) => Loading
  /\ Reads(p) \/ step \in (Upload + 1)..(Upload + Blocks) => Reading

(* What an answer that confirms the present step says about the responder. *)
Confirms(m, code) == m.to = Loader /\ m.code = code /\ m.result = "ok"
Confirmed ==
  /\ \A i \in DOMAIN answers : Confirms(answers[i], "download") /\ step = Download => Loading
  /\ \A i \in DOMAIN answers : Confirms(answers[i], "upload") /\ step = Upload => Reading
  /\ \A i \in DOMAIN answers : Confirms(answers[i], "transfer") /\ step = Download + answers[i].x => Base + answers[i].x - 1 \in DOMAIN memory
  /\ \A i \in DOMAIN answers : Confirms(answers[i], "transfer") /\ step = Upload + answers[i].x => answers[i].y = answers[i].x

Flow ==
  /\ waiting => step # Done
  /\ waiting => Ordered(answers, toEcu, toProxy, Script)
  /\ \E p : OfLoader(p) /\ Leads(p, step) /\ Only(answers, toEcu, toProxy, p, Script, waiting) /\ Modes(p)
  /\ Confirmed

(* Behind BlockTransfer no transfer begins. *)
Blocked ==
  /\ dtAddr = NoAddress /\ step <= Download
  /\ \A i \in DOMAIN toEcu : toEcu[i].req.code \notin {"download", "upload"}
  /\ \A i \in DOMAIN answers : answers[i].code \notin {"download", "upload"}

MemoryOK ==
  /\ \A i \in DOMAIN memory : i \in Base..(Base + Blocks - 1) /\ memory[i] = i - Base + 1
  /\ \A s \in 1..Blocks : step > Download + s => Base + s - 1 \in DOMAIN memory

ReadOK ==
  /\ step \in 2..Upload => read = <<>>
  /\ step \in (Upload + 1)..(Done - 1) => read = [i \in 1..(step - Upload - 1) |-> i]
  /\ step = Done => read = [i \in 1..Blocks |-> i]

Known(m) == IF m.from = Loader THEN OfLoader(m.req) ELSE m.req \in Wishes
Wished ==
  /\ \A i \in DOMAIN toProxy : Known(toProxy[i])
  /\ \A i \in DOMAIN toEcu : Known(toEcu[i])

UdsTypes ==
  /\ IsSeq(toProxy) /\ IsSeq(toEcu) /\ IsSeq(answers)
  /\ step \in 1..Done /\ waiting \in BOOLEAN /\ dtAddr \in {NoAddress, Base} /\ dtUpload \in BOOLEAN

DownloadInv ==
  /\ UdsTypes /\ Wished /\ MemoryOK /\ ReadOK
  /\ effect = "blockTransfer" => Blocked
  /\ effect # "blockTransfer" => Flow

-----------------------------------------------------------------------------
(* Queues: r is q without its first message, or with e behind it.                       *)
Popped(q, r) == \A i \in DOMAIN r : i \in Nat /\ i + 1 \in DOMAIN q /\ r[i] = q[i + 1]
Pushed(q, r, e) ==
  \A i \in DOMAIN r : /\ i \in Nat
                      /\ \/ i \in DOMAIN q /\ r[i] = q[i]
                         \/ r[i] = e /\ \A j \in DOMAIN r : j <= i

LEMMA SeqPopped ==
  ASSUME NEW q, IsSeq(q), q # <<>>
  PROVE  IsSeq(Tail(q)) /\ Popped(q, Tail(q)) /\ 1 \in DOMAIN q /\ Head(q) = q[1]
<1>1. PICK S : q \in Seq(S)
      BY DEF IsSeq
<1>2. Tail(q) \in Seq(S) /\ Len(q) \in Nat /\ Len(q) # 0 /\ Len(Tail(q)) = Len(q) - 1
      BY <1>1
<1>3. DOMAIN q = 1..Len(q) /\ DOMAIN Tail(q) = 1..(Len(q) - 1)
      BY <1>1, <1>2
<1>4. \A i \in DOMAIN Tail(q) : Tail(q)[i] = q[i + 1]
      BY <1>1, <1>2, <1>3
<1> QED BY <1>1, <1>2, <1>3, <1>4 DEF IsSeq, Popped

(* So a queue that stays as it is counts as pushed to, too. *)
LEMMA SeqStays ==
  ASSUME NEW q, IsSeq(q), NEW e
  PROVE  Pushed(q, q, e)
<1>1. PICK S : q \in Seq(S)
      BY DEF IsSeq
<1>2. DOMAIN q = 1..Len(q) /\ Len(q) \in Nat
      BY <1>1
<1> QED BY <1>2 DEF Pushed

LEMMA SeqPushed ==
  ASSUME NEW q, IsSeq(q), NEW e
  PROVE  IsSeq(Append(q, e)) /\ Pushed(q, Append(q, e), e)
<1>1. PICK S : q \in Seq(S)
      BY DEF IsSeq
<1>2. q \in Seq(S \cup {e}) /\ Len(q) \in Nat
      BY <1>1
<1>3. Append(q, e) \in Seq(S \cup {e}) /\ Len(Append(q, e)) = Len(q) + 1
      BY <1>2
<1>4. DOMAIN q = 1..Len(q) /\ DOMAIN Append(q, e) = 1..(Len(q) + 1)
      BY <1>2, <1>3
<1>5. \A i \in 1..(Len(q) + 1) : Append(q, e)[i] = IF i <= Len(q) THEN q[i] ELSE e
      BY <1>2
<1> QED BY <1>2, <1>3, <1>4, <1>5 DEF IsSeq, Pushed

(* What holds for all messages of a queue and for the new one holds for all. *)
LEMMA Shorter == ASSUME NEW q, NEW r, Popped(q, r)
                 PROVE  \A i \in DOMAIN r : \E k \in DOMAIN q : r[i] = q[k]
BY DEF Popped
LEMMA Longer == ASSUME NEW q, NEW r, NEW e, Pushed(q, r, e)
                PROVE  \A i \in DOMAIN r : r[i] = e \/ \E k \in DOMAIN q : r[i] = q[k]
BY DEF Pushed

-----------------------------------------------------------------------------
(* The order is kept: an answer takes the place of its request, ... *)
Mark(a, m, c) ==
  /\ a.to = Loader <=> m.from = Loader
  /\ Tells(a, c) => Asks(m, c)
  /\ Asks(m, c) => Tells(a, c)

LEMMA AnsweredInOrder ==
  ASSUME NEW A, NEW E, NEW P, NEW c, NEW A2, NEW E2, NEW a, Ordered(A, E, P, c),
         1 \in DOMAIN E, Popped(E, E2), Pushed(A, A2, a), Mark(a, E[1], c)
  PROVE  Ordered(A2, E2, P, c)
<1>1. \A i, j \in DOMAIN A2 : i < j /\ Tells(A2[i], c) /\ A2[j].to = Loader => Tells(A2[j], c)
      BY DEF Ordered, Pushed, Mark
<1>2. \A i \in DOMAIN A2, j \in DOMAIN E2 : Tells(A2[i], c) /\ E2[j].from = Loader => Asks(E2[j], c)
      BY DEF Ordered, Pushed, Popped, Mark
<1>3. \A i \in DOMAIN A2, j \in DOMAIN P : Tells(A2[i], c) /\ P[j].from = Loader => Asks(P[j], c)
      BY DEF Ordered, Pushed, Mark
<1>4. \A i, j \in DOMAIN E2 : i < j /\ Asks(E2[i], c) /\ E2[j].from = Loader => Asks(E2[j], c)
      BY DEF Ordered, Popped
<1>5. \A i \in DOMAIN E2, j \in DOMAIN P : Asks(E2[i], c) /\ P[j].from = Loader => Asks(P[j], c)
      BY DEF Ordered, Popped
<1> QED BY <1>1, <1>2, <1>3, <1>4, <1>5 DEF Ordered

(* ... the proxy passes requests on one behind the other, ... *)
LEMMA PassedInOrder ==
  ASSUME NEW A, NEW E, NEW P, NEW c, NEW E2, NEW P2, Ordered(A, E, P, c),
         1 \in DOMAIN P, Popped(P, P2), Pushed(E, E2, P[1])
  PROVE  Ordered(A, E2, P2, c)
<1>1. \A i \in DOMAIN A, j \in DOMAIN E2 : Tells(A[i], c) /\ E2[j].from = Loader => Asks(E2[j], c)
      BY DEF Ordered, Pushed
<1>2. \A i \in DOMAIN A, j \in DOMAIN P2 : Tells(A[i], c) /\ P2[j].from = Loader => Asks(P2[j], c)
      BY DEF Ordered, Popped
<1>3. \A i, j \in DOMAIN E2 : i < j /\ Asks(E2[i], c) /\ E2[j].from = Loader => Asks(E2[j], c)
      BY DEF Ordered, Pushed
<1>4. \A i \in DOMAIN E2, j \in DOMAIN P2 : Asks(E2[i], c) /\ P2[j].from = Loader => Asks(P2[j], c)
      BY DEF Ordered, Pushed, Popped
<1>5. \A i, j \in DOMAIN P2 : i < j /\ Asks(P2[i], c) /\ P2[j].from = Loader => Asks(P2[j], c)
      BY DEF Ordered, Popped
<1> QED BY <1>1, <1>2, <1>3, <1>4, <1>5 DEF Ordered

(* ... something is lost, ... *)
LEMMA LostInOrder ==
  ASSUME NEW A, NEW E, NEW P, NEW c, NEW A2, NEW E2, Ordered(A, E, P, c),
         \/ Popped(A, A2) /\ E2 = E
         \/ Popped(E, E2) /\ A2 = A
  PROVE  Ordered(A2, E2, P, c)
<1>1. CASE Popped(A, A2) /\ E2 = E
      BY <1>1 DEF Ordered, Popped
<1>2. CASE Popped(E, E2) /\ A2 = A
      BY <1>2 DEF Ordered, Popped
<1> QED BY <1>1, <1>2

(* ... or the loader asks for c, or somebody else for something. *)
LEMMA AskedInOrder ==
  ASSUME NEW A, NEW E, NEW P, NEW c, NEW P2, NEW m, Ordered(A, E, P, c),
         Pushed(P, P2, m), m.from = Loader => Asks(m, c)
  PROVE  Ordered(A, E, P2, c)
BY DEF Ordered, Pushed

(* Only these two: the same moves. *)
LEMMA AnsweredOnly ==
  ASSUME NEW A, NEW E, NEW P, NEW p, NEW c, NEW w, NEW A2, NEW E2, NEW a, Only(A, E, P, p, c, w),
         1 \in DOMAIN E, Popped(E, E2), Pushed(A, A2, a),
         a.to = E[1].from, a.code = E[1].req.code, a.x = E[1].req.x
  PROVE  Only(A2, E2, P, p, c, w)
<1>1. a.to = Loader => Tells(a, p) \/ (w /\ Tells(a, c))
      BY DEF Only, Asks, Tells
<1>2. \A i \in DOMAIN A2 : A2[i].to = Loader => Tells(A2[i], p) \/ (w /\ Tells(A2[i], c))
      BY <1>1, Longer DEF Only
<1>3. \A i \in DOMAIN E2 : E2[i].from = Loader => Asks(E2[i], p) \/ (w /\ Asks(E2[i], c))
      BY Shorter DEF Only
<1> QED BY <1>2, <1>3 DEF Only

LEMMA PassedOnly ==
  ASSUME NEW A, NEW E, NEW P, NEW p, NEW c, NEW w, NEW E2, NEW P2, Only(A, E, P, p, c, w),
         1 \in DOMAIN P, Popped(P, P2), Pushed(E, E2, P[1])
  PROVE  Only(A, E2, P2, p, c, w)
<1>1. \A i \in DOMAIN E2 : E2[i].from = Loader => Asks(E2[i], p) \/ (w /\ Asks(E2[i], c))
      BY Longer DEF Only
<1>2. \A i \in DOMAIN P2 : P2[i].from = Loader => Asks(P2[i], p) \/ (w /\ Asks(P2[i], c))
      BY Shorter DEF Only
<1> QED BY <1>1, <1>2 DEF Only

LEMMA LostOnly ==
  ASSUME NEW A, NEW E, NEW P, NEW p, NEW c, NEW w, NEW A2, NEW E2, Only(A, E, P, p, c, w),
         \/ Popped(A, A2) /\ E2 = E
         \/ Popped(E, E2) /\ A2 = A
  PROVE  Only(A2, E2, P, p, c, w)
BY Shorter DEF Only

LEMMA AskedOnly ==
  ASSUME NEW A, NEW E, NEW P, NEW p, NEW c, NEW w, NEW P2, NEW m, Only(A, E, P, p, c, w),
         Pushed(P, P2, m), m.from = Loader => w /\ Asks(m, c)
  PROVE  Only(A, E, P2, p, c, w)
BY Longer DEF Only

(* When the first answer is one to c, all that is under way is c's. *)
LEMMA OnlyTheLast ==
  ASSUME NEW A, NEW E, NEW P, NEW c, NEW A2, Ordered(A, E, P, c), 1 \in DOMAIN A, Tells(A[1], c), Popped(A, A2)
  PROVE  \A d : Only(A2, E, P, c, d, FALSE)
<1>1. \A i \in DOMAIN A2 : A2[i].to = Loader => Tells(A2[i], c)
      BY DEF Ordered, Popped
<1>2. \A i \in DOMAIN E : E[i].from = Loader => Asks(E[i], c)
      BY DEF Ordered
<1>3. \A i \in DOMAIN P : P[i].from = Loader => Asks(P[i], c)
      BY DEF Ordered
<1> QED BY <1>1, <1>2, <1>3 DEF Only

(* The order when the loader first asks for c: everything before is p's. *)
Apart(p, c) == p.code = c.code /\ p.x = c.x => p = c

LEMMA FirstAskedInOrder ==
  ASSUME NEW A, NEW E, NEW P, NEW p, NEW c, Only(A, E, P, p, c, FALSE), Apart(p, c)
  PROVE  Ordered(A, E, P, c)
<1>1. CASE p = c
      BY <1>1 DEF Ordered, Only
<1>2. CASE p # c
  <2>1. \A i \in DOMAIN A : ~Tells(A[i], c)
        BY <1>2 DEF Only, Apart, Tells
  <2>2. \A i \in DOMAIN E : ~Asks(E[i], c)
        BY <1>2 DEF Only, Asks
  <2>3. \A i \in DOMAIN P : ~Asks(P[i], c)
        BY <1>2 DEF Only, Asks
  <2> QED BY <2>1, <2>2, <2>3 DEF Ordered
<1> QED BY <1>1, <1>2

(* A request and its answer belong to the same step. *)
LEMMA Marked ==
  ASSUME NEW A, NEW E, NEW P, NEW p, NEW c, NEW w, Only(A, E, P, p, c, w), Apart(p, c), NEW a, 1 \in DOMAIN E,
         a.to = E[1].from, a.code = E[1].req.code, a.x = E[1].req.x
  PROVE  Mark(a, E[1], c)
<1>1. E[1].from = Loader => E[1].req \in {p, c}
      BY DEF Only, Asks
<1> QED BY <1>1 DEF Apart, Mark, Tells, Asks

-----------------------------------------------------------------------------
(* The script: what the loader asks in step n. *)
Shape(n, c) ==
  /\ n = 1 => c = Request("session", 2, 0)
  /\ n = 2 => c.code = "seed"
  /\ n = 3 => c.code = "key"
  /\ n = Download => c = Request("download", Base, 0)
  /\ n \in (Download + 1)..(Download + Blocks) => c = Request("transfer", n - Download, n - Download)
  /\ n \in {Upload - 1, Done - 1} => c = Request("exit", 0, 0)
  /\ n = Upload => c = Request("upload", Base, 0)
  /\ n \in (Upload + 1)..(Upload + Blocks) => c = Request("transfer", n - Upload, 0)

LEMMA Constant == Base \in Nat /\ Blocks \in Nat /\ Blocks >= 1
BY UdsAssumption

LEMMA Modulo == ASSUME Harmless, NEW n \in 1..Blocks PROVE n % BlockMod = n
<1>1. n \in Nat /\ n < 256
      BY Constant DEF Harmless, BlockMod
<1>2. \A k \in Nat : k < 256 => k % 256 = k
      BY SMT
<1> QED BY <1>1, <1>2 DEF BlockMod

LEMMA ScriptIs ==
  ASSUME Harmless, step \in 1..Done, step # Done
  PROVE  Shape(step, Script) /\ OfLoader(Script)
<1> DEFINE n == step
<1>0. n \in Nat /\ Download = 4 /\ Upload = Blocks + 6 /\ Done = 2 * Blocks + 8
      BY Constant DEF Download, Upload, Done
<1>1. CASE n \in 1..3
  <2>1. Script = IF n = 1 THEN Request("session", 2, 0) ELSE IF n = 2 THEN Request("seed", 0, 0) ELSE Request("key", key, 0)
        BY <1>0, <1>1, Constant DEF Script, InTransfer, diagnostic_session_control, SeedRequest, KeyRequest
  <2> QED BY <1>0, <1>1, <2>1, Constant DEF Shape, OfLoader, Request, Transfers
<1>2. CASE n \in {Download, Upload}
  <2>1. Script = Request(IF n = Upload THEN "upload" ELSE "download", Base, 0)
        BY <1>0, <1>2, Constant DEF Script, InTransfer, request_transfer
  <2> QED BY <1>0, <1>2, <2>1, Constant DEF Shape, OfLoader, Request, Transfers
<1>3. CASE n \in (Download + 1)..(Download + Blocks)
  <2>1. Script = transfer_block(BlockOf(Download), n - Download)
        BY <1>0, <1>3, Constant DEF Script, InTransfer
  <2>2. n - Download \in 1..Blocks /\ ~(step > Download + Blocks)
        BY <1>0, <1>3, Constant
  <2>3. BlockOf(Download) = n - Download
        BY <2>2, Modulo DEF BlockOf
  <2>4. Script = Request("transfer", n - Download, n - Download)
        BY <2>1, <2>2, <2>3, Constant DEF transfer_block
  <2> QED BY <1>0, <1>3, <2>2, <2>4, Constant DEF Shape, OfLoader, Request, Transfers
<1>4. CASE n \in (Upload + 1)..(Upload + Blocks)
  <2>1. Script = transfer_block(BlockOf(Upload), 0)
        BY <1>0, <1>4, Constant DEF Script, InTransfer
  <2>2. n - Upload \in 1..Blocks /\ ~(step > Upload + Blocks)
        BY <1>0, <1>4, Constant
  <2>3. BlockOf(Upload) = n - Upload
        BY <2>2, Modulo DEF BlockOf
  <2>4. Script = Request("transfer", n - Upload, 0)
        BY <2>1, <2>2, <2>3, Constant DEF transfer_block
  <2> QED BY <1>0, <1>4, <2>2, <2>4, Constant DEF Shape, OfLoader, Request, Transfers
<1>5. CASE n \in {Upload - 1, Done - 1}
  <2>1. Script = transfer_block(0, IF n = Upload - 1 THEN n - Download ELSE 0)
        BY <1>0, <1>5, Constant DEF Script, InTransfer, BlockOf
  <2>2. Script = Request("exit", 0, 0)
        BY <2>1 DEF transfer_block
  <2> QED BY <1>0, <1>5, <2>2, Constant DEF Shape, OfLoader, Request, Transfers
<1> QED BY <1>0, <1>1, <1>2, <1>3, <1>4, <1>5, Constant

(* The requests of two steps that follow each other differ, or are the same. *)
LEMMA StepsApart ==
  ASSUME NEW n \in 1..Done, n # Done, NEW p, OfLoader(p), Leads(p, n), NEW c, OfLoader(c), Shape(n, c)
  PROVE  Apart(p, c)
<1>0. n \in Nat /\ Download = 4 /\ Upload = Blocks + 6 /\ Done = 2 * Blocks + 8
      BY Constant DEF Download, Upload, Done
<1>1. CASE n = 1
      BY <1>0, <1>1 DEF Apart, Shape, OfLoader, Request
<1>2. CASE n \in {2, 3, Download, Upload}
      BY <1>0, <1>2, Constant DEF Apart, Shape, Leads, Request
<1>3. CASE n \in {Download + 1, Upload + 1, Upload - 1, Done - 1}
      BY <1>0, <1>3, Constant DEF Apart, Shape, Leads, Request, Loads, Reads
<1>4. CASE n \in (Download + 2)..(Download + Blocks)
      BY <1>0, <1>4, Constant DEF Apart, Shape, Leads, Request, Loads
<1>5. CASE n \in (Upload + 2)..(Upload + Blocks)
      BY <1>0, <1>5, Constant DEF Apart, Shape, Leads, Request, Reads
<1> QED BY <1>0, <1>1, <1>2, <1>3, <1>4, <1>5, Constant

-----------------------------------------------------------------------------
(* What the responder does with request q when it answers it with result r and value y. *)
dt == <<dtAddr, dtUpload>>
Does(q, y, r) ==
  \/ (r = "ok" => q.code \notin {"download", "upload", "transfer"}) /\ UNCHANGED <<dtAddr, dtUpload, memory>>
  \/ q.code = "writeMem" /\ Store(q.x, q.y) /\ UNCHANGED dt
  \/ q.code \in {"download", "upload"} /\ dtAddr' = q.x /\ dtUpload' = (q.code = "upload") /\ UNCHANGED memory
  \/ q.code = "transfer" /\ dtAddr # NoAddress /\ ~dtUpload /\ Store(dtAddr + q.x - 1, q.y) /\ UNCHANGED dt
  \/ q.code = "transfer" /\ dtAddr # NoAddress /\ dtUpload /\ y = Stored(dtAddr + q.x - 1) /\ UNCHANGED <<dt, memory>>
  \/ q.code = "exit" /\ dtAddr' = NoAddress /\ UNCHANGED <<dtUpload, memory>>

AnswerTo(m, y, r) == [to |-> m.from, code |-> m.req.code, x |-> m.req.x, y |-> y, result |-> r]
AnsweredWith(m) == \E y, r : answers' = Append(answers, AnswerTo(m, y, r)) /\ Does(m.req, y, r)

LEMMA AnswerIs ==
  ASSUME NEW y, NEW r, Answer(r, y)
  PROVE  answers' = Append(answers, AnswerTo(Head(toEcu), y, r))
BY DEF Answer, AnswerTo, Req

LEMMA RespondIs ==
  ASSUME Respond
  PROVE  /\ toEcu # <<>> /\ toEcu' = Tail(toEcu) /\ UNCHANGED <<effect, toProxy, loader>>
         /\ AnsweredWith(Head(toEcu))
<1> DEFINE m == Head(toEcu)
<1>1. CASE RespondSession
  <2>1. PICK r : Answer(r, 0) /\ UNCHANGED <<dtAddr, dtUpload, memory>>
        BY <1>1 DEF RespondSession
  <2>2. toEcu # <<>> /\ m.req.code = "session"
        BY <1>1 DEF RespondSession, Incoming
  <2> QED BY <2>1, <2>2, AnswerIs DEF Answer, AnsweredWith, Does
<1>2. CASE RespondSeed
  <2>1. PICK y : Answer("ok", y) /\ UNCHANGED <<dtAddr, dtUpload, memory>>
        BY <1>2 DEF RespondSeed
  <2>2. toEcu # <<>> /\ m.req.code = "seed"
        BY <1>2 DEF RespondSeed, Incoming
  <2> QED BY <2>1, <2>2, AnswerIs DEF Answer, AnsweredWith, Does
<1>3. CASE RespondKey
  <2>1. toEcu # <<>> /\ m.req.code = "key" /\ UNCHANGED <<dtAddr, dtUpload, memory>>
        BY <1>3 DEF RespondKey, Incoming
  <2>2. PICK r : Answer(r, 0)
        BY <1>3 DEF RespondKey
  <2> QED BY <2>1, <2>2, AnswerIs DEF Answer, AnsweredWith, Does
<1>4. CASE RespondReset
      BY <1>4, AnswerIs DEF RespondReset, Incoming, Req, Answer, AnsweredWith, Does
<1>5. CASE RespondReadId
  <2>1. PICK r, y : Answer(r, y) /\ UNCHANGED <<dtAddr, dtUpload, memory>>
        BY <1>5 DEF RespondReadId, ecu
  <2>2. toEcu # <<>> /\ m.req.code = "readId"
        BY <1>5 DEF RespondReadId, Incoming
  <2> QED BY <2>1, <2>2, AnswerIs DEF Answer, AnsweredWith, Does
<1>6. CASE RespondWriteId
      BY <1>6, AnswerIs DEF RespondWriteId, Incoming, Req, Answer, AnsweredWith, Does
<1>7. CASE RespondReadMemory
      BY <1>7, AnswerIs DEF RespondReadMemory, Incoming, Req, Answer, AnsweredWith, Does, ecu
<1>8. CASE RespondWriteMemory
  <2>1. toEcu # <<>> /\ m.req.code = "writeMem" /\ Store(m.req.x, m.req.y) /\ UNCHANGED dt /\ Answer("ok", 0)
        BY <1>8 DEF RespondWriteMemory, Incoming, Req, dt
  <2> QED BY <2>1, AnswerIs DEF Answer, AnsweredWith, Does
<1>9. CASE RespondRequestTransfer
  <2>1. toEcu # <<>> /\ m.req.code \in {"download", "upload"} /\ UNCHANGED memory
        BY <1>9 DEF RespondRequestTransfer, Incoming
  <2>2. \/ dtAddr' = m.req.x /\ dtUpload' = (m.req.code = "upload") /\ Answer("ok", 0)
        \/ UNCHANGED <<dtAddr, dtUpload>> /\ Answer("subFunction", 0)
        BY <1>9 DEF RespondRequestTransfer, Req
  <2> QED BY <2>1, <2>2, AnswerIs DEF Answer, AnsweredWith, Does
<1>10. CASE RespondTransfer
  <2>1. toEcu # <<>> /\ m.req.code = "transfer" /\ UNCHANGED dt
        BY <1>10 DEF RespondTransfer, Incoming, dt
  <2>2. \/ dtAddr = NoAddress /\ Answer("subFunction", 0) /\ UNCHANGED memory
        \/ dtAddr # NoAddress /\ dtUpload /\ Answer("ok", Stored(dtAddr + m.req.x - 1)) /\ UNCHANGED memory
        \/ dtAddr # NoAddress /\ ~dtUpload /\ Answer("ok", 0) /\ Store(dtAddr + m.req.x - 1, m.req.y)
        BY <1>10 DEF RespondTransfer, Req, BlockAt
  <2>3. UNCHANGED <<dtAddr, dtUpload>>
        BY <2>1 DEF dt
  <2>4. CASE dtAddr = NoAddress /\ Answer("subFunction", 0) /\ UNCHANGED memory
        BY <2>1, <2>3, <2>4, AnswerIs DEF Answer, AnsweredWith, Does
  <2>5. CASE dtAddr # NoAddress /\ dtUpload /\ Answer("ok", Stored(dtAddr + m.req.x - 1)) /\ UNCHANGED memory
        BY <2>1, <2>5, AnswerIs DEF Answer, AnsweredWith, Does
  <2>6. CASE dtAddr # NoAddress /\ ~dtUpload /\ Answer("ok", 0) /\ Store(dtAddr + m.req.x - 1, m.req.y)
        BY <2>1, <2>6, AnswerIs DEF Answer, AnsweredWith, Does
  <2> QED BY <2>2, <2>4, <2>5, <2>6
<1>11. CASE RespondExit
  <2>1. PICK r : Answer(r, 0)
        BY <1>11 DEF RespondExit
  <2>2. toEcu # <<>> /\ m.req.code = "exit" /\ dtAddr' = NoAddress /\ UNCHANGED <<dtUpload, memory>>
        BY <1>11 DEF RespondExit, Incoming
  <2> QED BY <2>1, <2>2, AnswerIs DEF Answer, AnsweredWith, Does
<1>12. CASE RespondRefuse
  <2>1. toEcu # <<>> /\ UNCHANGED <<dtAddr, dtUpload, memory>>
        BY <1>12 DEF RespondRefuse, Incoming, ecu
  <2>2. PICK r : Answer(r, 0) /\ r # "ok"
        BY <1>12 DEF RespondRefuse
  <2> QED BY <2>1, <2>2, AnswerIs DEF Answer, AnsweredWith, Does
<1> QED BY <1>1, <1>2, <1>3, <1>4, <1>5, <1>6, <1>7, <1>8, <1>9, <1>10, <1>11, <1>12 DEF Respond

-----------------------------------------------------------------------------
(* Who asks for a transfer is the loader; who writes memory writes what the program has there. *)
LEMMA KnownIs ==
  ASSUME Harmless, NEW m, Known(m)
  PROVE  /\ m.req.code \in Transfers => m.from = Loader /\ OfLoader(m.req)
         /\ m.req.code = "writeMem" => m.req.x \in Base..(Base + Blocks - 1) /\ m.req.y = m.req.x - Base + 1
BY DEF Harmless, Known, OfLoader, Transfers

LEMMA Stores ==
  ASSUME MemoryOK, NEW a \in Base..(Base + Blocks - 1), Store(a, a - Base + 1), UNCHANGED step
  PROVE  MemoryOK' /\ DOMAIN memory \subseteq DOMAIN memory' /\ a \in DOMAIN memory'
BY DEF MemoryOK, Store

LEMMA Begins ==
  ASSUME NEW n \in 1..Done, NEW p, Leads(p, n), NEW c, NEW q, q = p \/ (n # Done /\ q = c /\ Shape(n, c))
  PROVE  /\ q.code = "download" => ~Reads(p) /\ n \notin (Upload + 1)..(Upload + Blocks) /\ n # Upload
         /\ q.code = "upload" => ~Loads(p) /\ n \notin (Download + 1)..(Download + Blocks) /\ n # Download
<1>0. n \in Nat /\ Download = 4 /\ Upload = Blocks + 6 /\ Done = 2 * Blocks + 8
      BY Constant DEF Download, Upload, Done
<1>1. CASE q = p
      BY <1>0, <1>1, Constant DEF Leads, Loads, Reads
<1>2. CASE n # Done /\ q = c /\ Shape(n, c)
  <2>1. q.code = "download" => n = Download
        BY <1>0, <1>2, Constant DEF Shape, Request
  <2>2. q.code = "upload" => n = Upload
        BY <1>0, <1>2, Constant DEF Shape, Request
  <2> QED BY <1>0, <2>1, <2>2, Constant DEF Leads, Loads, Reads
<1> QED BY <1>1, <1>2

(* What is asked for in step n, and in the step before, agrees with the kind of transfer. *)
LEMMA KindIs ==
  ASSUME step \in 1..Done, NEW p, Modes(p), NEW c, NEW q, OfLoader(q), q = p \/ (step # Done /\ q = c /\ Shape(step, c))
  PROVE  /\ Loads(q) => Loading
         /\ Reads(q) => Reading
         /\ q.code = "transfer" /\ step = Download + q.x => Loading
         /\ q.code = "transfer" /\ step = Upload + q.x => Reading
<1>0. step \in Nat /\ Download = 4 /\ Upload = Blocks + 6 /\ Done = 2 * Blocks + 8
      BY Constant DEF Download, Upload, Done
<1>1. q.code = "transfer" => q.x \in 1..Blocks
      BY DEF OfLoader
<1>2. (q.code = "transfer" /\ step = Download + q.x => Loading) /\ (q.code = "transfer" /\ step = Upload + q.x => Reading)
      BY <1>0, <1>1, Constant DEF Modes
<1>3. CASE q = p
      BY <1>2, <1>3 DEF Modes
<1>4. CASE step # Done /\ q = c /\ Shape(step, c)
  <2>1. Loads(q) => step \in (Download + 1)..(Download + Blocks)
        BY <1>0, <1>4, Constant DEF Shape, Request, Loads
  <2>2. Reads(q) => step \in (Upload + 1)..(Upload + Blocks)
        BY <1>0, <1>4, Constant DEF Shape, Request, Reads
  <2> QED BY <1>2, <2>1, <2>2 DEF Modes
<1> QED BY <1>3, <1>4

AnswersTo(p, c, m) ==
  /\ Known(m) /\ OfLoader(p) /\ Leads(p, step)
  /\ m.from = Loader => m.req = p \/ (step # Done /\ m.req = c /\ Shape(step, c))

LEMMA AnsweredMemory ==
  ASSUME Harmless, UdsTypes, MemoryOK, NEW m, Known(m), NEW y, NEW r, Does(m.req, y, r), UNCHANGED step,
         m.req.code = "transfer" /\ dtAddr # NoAddress /\ ~dtUpload => m.req.y = m.req.x
  PROVE  /\ MemoryOK' /\ DOMAIN memory \subseteq DOMAIN memory'
         /\ dtAddr' \in {NoAddress, Base} /\ dtUpload' \in BOOLEAN
<1> DEFINE q == m.req
<1>1. q.code \in {"download", "upload"} => q.x = Base
      BY KnownIs DEF OfLoader, Transfers
<1>2. dtAddr' \in {NoAddress, Base} /\ dtUpload' \in BOOLEAN
      BY <1>1 DEF Does, UdsTypes, dt
<1>3. CASE UNCHANGED memory
      BY <1>2, <1>3 DEF MemoryOK
<1>4. CASE q.code = "writeMem" /\ Store(q.x, q.y)
  <2>1. q.x \in Base..(Base + Blocks - 1) /\ q.y = q.x - Base + 1
        BY <1>4, KnownIs
  <2> QED BY <1>2, <1>4, <2>1, Stores
<1>5. CASE q.code = "transfer" /\ dtAddr # NoAddress /\ ~dtUpload /\ Store(dtAddr + q.x - 1, q.y)
  <2>1. q.x \in 1..Blocks
        BY <1>5, KnownIs DEF OfLoader, Transfers
  <2>2. dtAddr = Base /\ q.y = q.x
        BY <1>5 DEF UdsTypes
  <2>3. Base + q.x - 1 \in Base..(Base + Blocks - 1) /\ q.y = (Base + q.x - 1) - Base + 1
        BY <2>1, <2>2, Constant
  <2>4. Store(Base + q.x - 1, (Base + q.x - 1) - Base + 1)
        BY <1>5, <2>2, <2>3
  <2> QED BY <1>2, <2>3, <2>4, Stores
<1> QED BY <1>3, <1>4, <1>5 DEF Does

LEMMA AnsweredModes ==
  ASSUME step \in 1..Done, NEW p, NEW c, NEW m, Known(m), Harmless, AnswersTo(p, c, m), Modes(p), Confirmed,
         NEW y, NEW r, Does(m.req, y, r), UNCHANGED step
  PROVE  /\ Modes(p)'
         /\ (step = Download /\ Loading) \/ (step = Download /\ m.req.code = "download" /\ r = "ok") => Loading'
         /\ (step = Upload /\ Reading) \/ (step = Upload /\ m.req.code = "upload" /\ r = "ok") => Reading'
<1>1. CASE UNCHANGED <<dtAddr, dtUpload>> /\ m.req.code \notin {"download", "upload"}
      BY <1>1 DEF Modes, Loading, Reading
<1>2. CASE m.req.code \in {"download", "upload"}
  <2>1. m.from = Loader
        BY <1>2, KnownIs DEF Transfers
  <2>2. /\ m.req.code = "download" => ~Reads(p) /\ step \notin (Upload + 1)..(Upload + Blocks) /\ step # Upload
        /\ m.req.code = "upload" => ~Loads(p) /\ step \notin (Download + 1)..(Download + Blocks) /\ step # Download
        BY <2>1, Begins DEF AnswersTo
  <2>3. (r # "ok" /\ UNCHANGED <<dtAddr, dtUpload>>) \/ dtUpload' = (m.req.code = "upload")
        BY <1>2 DEF Does
  <2>4. CASE r # "ok" /\ UNCHANGED <<dtAddr, dtUpload>>
        BY <2>4 DEF Modes, Loading, Reading
  <2>5. CASE m.req.code = "download" /\ dtUpload' = (m.req.code = "upload")
    <3>1. ~dtUpload'
          BY <2>5
    <3> QED BY <2>2, <2>5, <3>1 DEF Modes, Loading, Reading
  <2>6. CASE m.req.code = "upload" /\ dtUpload' = (m.req.code = "upload")
    <3>1. dtUpload'
          BY <2>6
    <3> QED BY <2>2, <2>6, <3>1 DEF Modes, Loading, Reading
  <2> QED BY <1>2, <2>3, <2>4, <2>5, <2>6
<1>3. CASE dtAddr' = NoAddress
      BY <1>3 DEF Modes, Loading, Reading
<1> QED BY <1>1, <1>2, <1>3 DEF Does, dt

(* The answer to a block says what it is: the block is stored, or read as it was written. *)
LEMMA AnsweredBlock ==
  ASSUME Harmless, UdsTypes, MemoryOK, NEW p, NEW c, NEW m, m.from = Loader, AnswersTo(p, c, m), Modes(p),
         NEW y, Does(m.req, y, "ok"), m.req.code = "transfer"
  PROVE  /\ step = Download + m.req.x => Base + m.req.x - 1 \in DOMAIN memory'
         /\ step = Upload + m.req.x => y = m.req.x
<1> DEFINE q == m.req
<1>1. OfLoader(q) /\ (q = p \/ (step # Done /\ q = c /\ Shape(step, c))) /\ step \in 1..Done
      BY DEF AnswersTo, Known, UdsTypes
<1>2. (step = Download + q.x => Loading) /\ (step = Upload + q.x => Reading)
      BY <1>1, KindIs
<1>3. q.x \in 1..Blocks
      BY <1>1 DEF OfLoader
<1>4. \/ dtAddr = Base /\ ~dtUpload /\ Store(dtAddr + q.x - 1, q.y)
      \/ dtAddr = Base /\ dtUpload /\ y = Stored(dtAddr + q.x - 1)
      BY DEF Does, UdsTypes
<1>5. Base # NoAddress
      BY Constant DEF NoAddress
<1>6. ASSUME step = Download + q.x PROVE Base + q.x - 1 \in DOMAIN memory'
  <2>1. Store(Base + q.x - 1, q.y)
        BY <1>2, <1>4, <1>5, <1>6 DEF Loading
  <2> QED BY <2>1 DEF Store
<1>7. ASSUME step = Upload + q.x PROVE y = q.x
  <2>1. y = Stored(Base + q.x - 1)
        BY <1>2, <1>4, <1>5, <1>7 DEF Reading
  <2>2. step > Download + q.x
        BY <1>3, <1>7, Constant DEF Upload, Download
  <2>3. Base + q.x - 1 \in DOMAIN memory
        BY <1>3, <2>2 DEF MemoryOK
  <2>4. memory[Base + q.x - 1] = (Base + q.x - 1) - Base + 1
        BY <2>3 DEF MemoryOK
  <2> QED BY <1>3, <2>1, <2>3, <2>4, Constant DEF Stored
<1> QED BY <1>6, <1>7

LEMMA AnsweredConfirmed ==
  ASSUME Harmless, UdsTypes, MemoryOK, NEW p, NEW c, NEW m, AnswersTo(p, c, m), Modes(p), Confirmed,
         NEW y, NEW r, Does(m.req, y, r), UNCHANGED step, DOMAIN memory \subseteq DOMAIN memory',
         Pushed(answers, answers', AnswerTo(m, y, r))
  PROVE  Confirmed'
<1> DEFINE a == AnswerTo(m, y, r)
<1>1. PICK B : B = answers'
      OBVIOUS
<1>2. \A i \in DOMAIN B : B[i] = a \/ \E k \in DOMAIN answers : B[i] = answers[k]
      BY <1>1, Longer
<1>3. a.to = m.from /\ a.code = m.req.code /\ a.x = m.req.x /\ a.y = y /\ a.result = r
      BY DEF AnswerTo
<1>4. /\ (step = Download /\ Loading) \/ (step = Download /\ m.req.code = "download" /\ r = "ok") => Loading'
      /\ (step = Upload /\ Reading) \/ (step = Upload /\ m.req.code = "upload" /\ r = "ok") => Reading'
      BY AnsweredModes DEF AnswersTo, UdsTypes
<1>5. m.from = Loader /\ m.req.code = "transfer" /\ r = "ok" =>
         /\ step = Download + m.req.x => Base + m.req.x - 1 \in DOMAIN memory'
         /\ step = Upload + m.req.x => y = m.req.x
      BY AnsweredBlock
<1> HIDE DEF a
<1>6. \A i \in DOMAIN B : Confirms(B[i], "download") /\ step = Download => Loading'
      BY <1>2, <1>3, <1>4 DEF Confirmed, Confirms
<1>7. \A i \in DOMAIN B : Confirms(B[i], "upload") /\ step = Upload => Reading'
      BY <1>2, <1>3, <1>4 DEF Confirmed, Confirms
<1>8. \A i \in DOMAIN B : Confirms(B[i], "transfer") /\ step = Download + B[i].x => Base + B[i].x - 1 \in DOMAIN memory'
      BY <1>2, <1>3, <1>5 DEF Confirmed, Confirms
<1>9. \A i \in DOMAIN B : Confirms(B[i], "transfer") /\ step = Upload + B[i].x => B[i].y = B[i].x
      BY <1>2, <1>3, <1>5 DEF Confirmed, Confirms
<1> QED BY <1>1, <1>6, <1>7, <1>8, <1>9 DEF Confirmed, Confirms

LEMMA SameScript == ASSUME UNCHANGED <<step, key>> PROVE Script' = Script
BY DEF Script, BlockOf, KeyRequest

(* The responder's answers keep the loader's course ... *)
LEMMA RespondFlow ==
  ASSUME Harmless, UdsTypes, Wished, MemoryOK, Flow, toEcu # <<>>, toEcu' = Tail(toEcu), UNCHANGED <<toProxy, loader>>,
         AnsweredWith(Head(toEcu))
  PROVE  Flow' /\ MemoryOK' /\ dtAddr' \in {NoAddress, Base} /\ dtUpload' \in BOOLEAN /\ IsSeq(answers')
<1> DEFINE m == Head(toEcu)
           c == Script
<1>0. IsSeq(toEcu) /\ IsSeq(answers) /\ step \in 1..Done
      BY DEF UdsTypes
<1>1. m = toEcu[1] /\ 1 \in DOMAIN toEcu /\ Popped(toEcu, toEcu')
      BY <1>0, SeqPopped
<1>2. PICK p : OfLoader(p) /\ Leads(p, step) /\ Only(answers, toEcu, toProxy, p, c, waiting) /\ Modes(p)
      BY DEF Flow
<1>3. waiting => step # Done /\ Ordered(answers, toEcu, toProxy, c)
      BY DEF Flow
<1>4. waiting => Shape(step, c) /\ OfLoader(c) /\ Apart(p, c)
      BY <1>0, <1>2, <1>3, ScriptIs, StepsApart
<1>5. Known(m)
      BY <1>1 DEF Wished
<1>6. AnswersTo(p, c, m)
  <2>1. m.from = Loader => m.req = p \/ (waiting /\ m.req = c)
        BY <1>1, <1>2 DEF Only, Asks
  <2> QED BY <1>2, <1>3, <1>4, <1>5, <2>1 DEF AnswersTo
<1>7. UNCHANGED step /\ UNCHANGED waiting /\ Script' = c
      BY SameScript DEF loader
<1>8. PICK y, r : answers' = Append(answers, AnswerTo(m, y, r)) /\ Does(m.req, y, r)
      BY DEF AnsweredWith
<1> DEFINE a == AnswerTo(m, y, r)
<1>9. IsSeq(answers') /\ Pushed(answers, answers', a)
      BY <1>0, <1>8, SeqPushed
<1>10. a.to = m.from /\ a.code = m.req.code /\ a.x = m.req.x
      BY DEF AnswerTo
<1>11. m.req.code = "transfer" /\ dtAddr # NoAddress /\ ~dtUpload => m.req.y = m.req.x
  <2>1. SUFFICES ASSUME m.req.code = "transfer", dtAddr # NoAddress, ~dtUpload PROVE m.req.y = m.req.x
        OBVIOUS
  <2>2. m.from = Loader /\ OfLoader(m.req)
        BY <1>5, <2>1, KnownIs DEF Transfers
  <2>3. m.req = p \/ (step # Done /\ m.req = c /\ Shape(step, c))
        BY <1>6, <2>2 DEF AnswersTo
  <2>4. Reads(m.req) => Reading
        BY <1>0, <1>2, <2>2, <2>3, KindIs
  <2> QED BY <2>1, <2>2, <2>4 DEF Reading, Reads, OfLoader
<1>12. MemoryOK' /\ DOMAIN memory \subseteq DOMAIN memory' /\ dtAddr' \in {NoAddress, Base} /\ dtUpload' \in BOOLEAN
      BY <1>5, <1>7, <1>8, <1>11, AnsweredMemory
<1>13. Confirmed /\ Modes(p)
      BY <1>2 DEF Flow
<1>14. Confirmed'
      BY <1>6, <1>7, <1>8, <1>9, <1>12, <1>13, AnsweredConfirmed
<1>15. Modes(p)'
      BY <1>0, <1>5, <1>6, <1>7, <1>8, <1>13, AnsweredModes
<1>16. Only(answers', toEcu', toProxy, p, c, waiting)
      BY <1>1, <1>2, <1>9, <1>10, AnsweredOnly
<1>17. waiting => Ordered(answers', toEcu', toProxy, c)
  <2>1. waiting => Mark(a, toEcu[1], c)
        BY <1>1, <1>2, <1>4, <1>10, Marked
  <2> QED BY <1>1, <1>3, <1>9, <2>1, AnsweredInOrder
<1>18. toProxy' = toProxy /\ waiting' = waiting /\ step' = step
      BY DEF loader
<1>19. Flow'
      BY <1>2, <1>3, <1>7, <1>14, <1>15, <1>16, <1>17, <1>18 DEF Flow, Leads
<1> QED BY <1>9, <1>12, <1>19

-----------------------------------------------------------------------------
(* An answer is heard: the loader goes on from step n to k, or back. *)
Moves(n, k, ok) == (ok /\ k = n + 1) \/ (n = 2 /\ k = Download) \/ (n = 3 /\ k = 2) \/ k = 1
Mine(a) == waiting /\ a.code = Script.code /\ a.x = Script.x

LEMMA HearIs ==
  ASSUME NEW a, Hear(a), step \in 1..Done, waiting \in BOOLEAN
  PROVE  /\ ~Mine(a) => UNCHANGED <<waiting, step, key>> /\ read' = IF step <= Upload THEN <<>> ELSE read
         /\ Mine(a) => /\ waiting' = FALSE /\ Moves(step, step', a.result = "ok")
                       /\ read' = IF step \in (Upload + 1)..(Upload + Blocks) THEN Append(read, a.y)
                                  ELSE IF step' <= Upload THEN <<>> ELSE read
<1>1. CASE ~Mine(a)
  <2>1. ~(waiting /\ a.code = Script.code /\ a.x = Script.x)
        BY <1>1 DEF Mine
  <2>2. waiting' = waiting /\ step' = step /\ key' = key
        BY <2>1 DEF Hear
  <2>3. read' = IF step' <= Upload THEN <<>> ELSE read
        BY <2>1 DEF Hear
  <2> QED BY <1>1, <2>2, <2>3
<1>2. CASE Mine(a)
  <2>1. waiting /\ a.code = Script.code /\ a.x = Script.x
        BY <1>2 DEF Mine
  <2>2. waiting' = FALSE
        BY <2>1 DEF Hear
  <2>3. Moves(step, step', a.result = "ok")
        BY <2>1 DEF Hear, Moves
  <2>4. read' = IF step \in (Upload + 1)..(Upload + Blocks) THEN Append(read, a.y)
                ELSE IF step' <= Upload THEN <<>> ELSE read
        BY <2>1 DEF Hear
  <2> QED BY <1>2, <2>2, <2>3, <2>4
<1> QED BY <1>1, <1>2

LEMMA AppendNext ==
  ASSUME NEW n \in Nat
  PROVE  Append([i \in 1..n |-> i], n + 1) = [i \in 1..(n + 1) |-> i]
<1> DEFINE q == [i \in 1..n |-> i]
<1>1. q \in Seq(Nat) /\ Len(q) = n
      BY SMT
<1>2. Append(q, n + 1) \in Seq(Nat) /\ Len(Append(q, n + 1)) = n + 1
      BY <1>1
<1>3. Append(q, n + 1) = [i \in 1..(n + 1) |-> Append(q, n + 1)[i]]
      BY <1>2
<1>4. \A i \in 1..(n + 1) : Append(q, n + 1)[i] = i
      BY <1>1
<1> QED BY <1>3, <1>4

LEMMA EmptyIs == <<>> = [i \in 1..0 |-> i]
OBVIOUS

(* If what it says is so, what the loader knows of the memory is so. *)
LEMMA HearMemory ==
  ASSUME step \in 1..Done, waiting \in BOOLEAN, waiting => step # Done, MemoryOK, ReadOK, NEW a, Hear(a), UNCHANGED memory,
         Mine(a) /\ a.result = "ok" => /\ \A s \in 1..Blocks : step = Download + s => Base + s - 1 \in DOMAIN memory
                                       /\ step \in (Upload + 1)..(Upload + Blocks) => a.y = step - Upload
  PROVE  MemoryOK' /\ ReadOK' /\ step' \in 1..Done /\ waiting' \in BOOLEAN
<1>0. step \in Nat /\ Download = 4 /\ Upload = Blocks + 6 /\ Done = 2 * Blocks + 8
      BY Constant DEF Download, Upload, Done
<1>1. CASE ~Mine(a)
  <2>1. UNCHANGED <<waiting, step>> /\ read' = IF step <= Upload THEN <<>> ELSE read
        BY <1>1, HearIs
  <2>2. MemoryOK'
        BY <2>1 DEF MemoryOK
  <2>3. ReadOK'
        BY <1>0, <2>1, Constant DEF ReadOK
  <2> QED BY <2>1, <2>2, <2>3
<1>2. CASE Mine(a)
  <2>1. /\ waiting' = FALSE /\ Moves(step, step', a.result = "ok")
        /\ read' = IF step \in (Upload + 1)..(Upload + Blocks) THEN Append(read, a.y)
                   ELSE IF step' <= Upload THEN <<>> ELSE read
        BY <1>2, HearIs
  <2>2. step # Done
        BY <1>2 DEF Mine
  <2>3. step' \in 1..Done
        BY <1>0, <2>1, <2>2, Constant DEF Moves
  <2>4. MemoryOK'
    <3>1. ASSUME NEW s \in 1..Blocks, step' > Download + s PROVE Base + s - 1 \in DOMAIN memory
      <4>1. a.result = "ok" /\ step' = step + 1
            BY <1>0, <2>1, <2>3, <3>1, Constant DEF Moves
      <4>2. step > Download + s \/ step = Download + s
            BY <1>0, <3>1, <4>1, Constant
      <4> QED BY <1>2, <4>1, <4>2 DEF MemoryOK
    <3> QED BY <3>1 DEF MemoryOK
  <2>5. ReadOK'
    <3>1. CASE step' = 1
          BY <1>0, <3>1, Constant DEF ReadOK
    <3>2. CASE step' # 1 /\ step \notin (Upload + 1)..(Done - 1)
      <4>1. step' \in 2..(Upload + 1)
            BY <1>0, <2>1, <2>2, <3>2, Constant DEF Moves
      <4>2. step' = Upload + 1 => read' = <<>>
            BY <1>0, <2>1, <3>2, <4>1, Constant DEF Moves, ReadOK
      <4>3. step' # Upload + 1 => read' = <<>>
            BY <1>0, <2>1, <3>2, <4>1, Constant
      <4>4. read' = [i \in 1..0 |-> i]
            BY <4>2, <4>3, EmptyIs
      <4>5. step' \in (Upload + 1)..(Done - 1) => step' - Upload - 1 = 0
        <5>1. \A u, d \in Nat : \A k \in 2..(u + 1) : k \in (u + 1)..(d - 1) => k - u - 1 = 0
              OBVIOUS
        <5>2. Upload \in Nat /\ Done \in Nat
              BY <1>0, Constant
        <5> QED BY <4>1, <5>1, <5>2
      <4>6. step' \in (Upload + 1)..(Done - 1) => read' = [i \in 1..(step' - Upload - 1) |-> i]
            BY <4>4, <4>5
      <4>7. step' # Done /\ read' = <<>>
            BY <1>0, <4>1, <4>2, <4>3, Constant
      <4> QED BY <4>6, <4>7 DEF ReadOK
    <3>3. CASE step' # 1 /\ step \in (Upload + 1)..(Done - 1)
      <4>1. a.result = "ok" /\ step' = step + 1
            BY <1>0, <2>1, <3>3, Constant DEF Moves
      <4>2. read = [i \in 1..(step - Upload - 1) |-> i]
            BY <3>3 DEF ReadOK
      <4>3. CASE step \in (Upload + 1)..(Upload + Blocks)
        <5>1. read' = Append(read, step - Upload)
              BY <1>2, <2>1, <4>1, <4>3
        <5>2. step - Upload - 1 \in Nat /\ (step - Upload - 1) + 1 = step - Upload
              BY <1>0, <4>3, Constant
        <5>3. read' = [i \in 1..(step - Upload) |-> i]
              BY <4>2, <5>1, <5>2, AppendNext
        <5>4. step' \in (Upload + 1)..(Done - 1) /\ step' - Upload - 1 = step - Upload
              BY <1>0, <4>1, <4>3, Constant
        <5>5. step' \notin 2..Upload /\ step' # Done
              BY <1>0, <5>4, Constant
        <5> QED BY <5>3, <5>4, <5>5 DEF ReadOK
      <4>4. CASE step = Done - 1
        <5>1. step' = Done /\ step - Upload - 1 = Blocks /\ ~(step' <= Upload) /\ step \notin (Upload + 1)..(Upload + Blocks)
              BY <1>0, <4>1, <4>4, Constant
        <5>2. read' = [i \in 1..Blocks |-> i]
              BY <2>1, <4>2, <5>1
        <5>3. step' \notin 2..Upload /\ step' \notin (Upload + 1)..(Done - 1)
              BY <1>0, <5>1, Constant
        <5> QED BY <5>1, <5>2, <5>3 DEF ReadOK
      <4> QED BY <1>0, <3>3, <4>3, <4>4, Constant
    <3> QED BY <3>1, <3>2, <3>3
  <2> QED BY <2>1, <2>3, <2>4, <2>5
<1> QED BY <1>1, <1>2

(* The request that was answered is then the one before. *)
LEMMA NextLeads ==
  ASSUME NEW n \in 1..Done, n # Done, NEW c, Shape(n, c), NEW k, NEW ok, Moves(n, k, ok)
  PROVE  Leads(c, k)
<1>0. n \in Nat /\ Download = 4 /\ Upload = Blocks + 6 /\ Done = 2 * Blocks + 8
      BY Constant DEF Download, Upload, Done
<1>1. CASE k # n + 1
      BY <1>0, <1>1, Constant DEF Moves, Leads, Shape, Request
<1>2. CASE k = n + 1 /\ n \in {1, 2, 3, Download, Upload, Upload - 1, Done - 1}
      BY <1>0, <1>2, Constant DEF Leads, Shape, Request, Loads, Reads
<1>3. CASE k = n + 1 /\ n \in (Download + 1)..(Download + Blocks)
      BY <1>0, <1>3, Constant DEF Leads, Shape, Request, Loads, Reads
<1>4. CASE k = n + 1 /\ n \in (Upload + 1)..(Upload + Blocks)
      BY <1>0, <1>4, Constant DEF Leads, Shape, Request, Loads, Reads
<1> QED BY <1>0, <1>1, <1>2, <1>3, <1>4, Constant

LEMMA NextModes ==
  ASSUME step \in 1..Done, step # Done, NEW p, Modes(p), NEW c, Shape(step, c), NEW ok, Moves(step, step', ok),
         UNCHANGED <<dtAddr, dtUpload>>, ok /\ step = Download => Loading, ok /\ step = Upload => Reading
  PROVE  Modes(c)'
<1>0. step \in Nat /\ Download = 4 /\ Upload = Blocks + 6 /\ Done = 2 * Blocks + 8
      BY Constant DEF Download, Upload, Done
<1>1. Loads(c) => Loading
  <2>1. Loads(c) => step \in (Download + 1)..(Download + Blocks)
        BY <1>0, Constant DEF Shape, Request, Loads
  <2> QED BY <2>1 DEF Modes
<1>2. Reads(c) => Reading
  <2>1. Reads(c) => step \in (Upload + 1)..(Upload + Blocks)
        BY <1>0, Constant DEF Shape, Request, Reads
  <2> QED BY <2>1 DEF Modes
<1>3. step' \in (Download + 1)..(Download + Blocks) => Loading
  <2>1. step' \in (Download + 1)..(Download + Blocks) => ok /\ (step = Download \/ step \in (Download + 1)..(Download + Blocks))
        BY <1>0, Constant DEF Moves
  <2> QED BY <2>1 DEF Modes
<1>4. step' \in (Upload + 1)..(Upload + Blocks) => Reading
  <2>1. step' \in (Upload + 1)..(Upload + Blocks) => ok /\ (step = Upload \/ step \in (Upload + 1)..(Upload + Blocks))
        BY <1>0, Constant DEF Moves
  <2> QED BY <2>1 DEF Modes
<1> QED BY <1>1, <1>2, <1>3, <1>4 DEF Modes, Loading, Reading

(* No answer that is still under way is to the next step. *)
LEMMA NextConfirmed ==
  ASSUME step \in 1..Done, step # Done, NEW c, Shape(step, c), OfLoader(c), NEW ok, Moves(step, step', ok),
         NEW E, NEW P, NEW d, Only(answers', E, P, c, d, FALSE)
  PROVE  Confirmed'
<1>0. step \in Nat /\ Download = 4 /\ Upload = Blocks + 6 /\ Done = 2 * Blocks + 8
      BY Constant DEF Download, Upload, Done
<1>1. PICK B : B = answers'
      OBVIOUS
<1>2. \A i \in DOMAIN B : B[i].to = Loader => B[i].code = c.code /\ B[i].x = c.x
      BY <1>1 DEF Only, Tells
<1>3. c.code = "download" => step' # Download
      BY <1>0, Constant DEF Shape, Request, Moves
<1>4. c.code = "upload" => step' # Upload
      BY <1>0, Constant DEF Shape, Request, Moves
<1>5. c.code = "transfer" => step' # Download + c.x /\ step' # Upload + c.x
  <2>1. c.code = "transfer" => \/ step \in (Download + 1)..(Download + Blocks) /\ c.x = step - Download
                               \/ step \in (Upload + 1)..(Upload + Blocks) /\ c.x = step - Upload
        BY <1>0, Constant DEF Shape, Request
  <2> QED BY <1>0, <2>1, Constant DEF Moves
<1>6. \A i \in DOMAIN B : /\ ~(Confirms(B[i], "download") /\ step' = Download)
                          /\ ~(Confirms(B[i], "upload") /\ step' = Upload)
                          /\ ~(Confirms(B[i], "transfer") /\ step' = Download + B[i].x)
                          /\ ~(Confirms(B[i], "transfer") /\ step' = Upload + B[i].x)
      BY <1>2, <1>3, <1>4, <1>5 DEF Confirms
<1> QED BY <1>1, <1>6 DEF Confirmed, Confirms

-----------------------------------------------------------------------------
(* The course of the loader under the other steps. *)
KeptByOthers == UNCHANGED <<step, key, waiting, memory, dtAddr, dtUpload>>

LEMMA SameMemory == ASSUME KeptByOthers PROVE /\ MemoryOK => MemoryOK'
                                             /\ \A p : (Modes(p) => Modes(p)') /\ (Leads(p, step) => Leads(p, step'))
                                             /\ Script' = Script
<1>1. Script' = Script
      BY SameScript DEF KeptByOthers
<1> QED BY <1>1 DEF KeptByOthers, MemoryOK, Modes, Loading, Reading

LEMMA SameConfirmed ==
  ASSUME KeptByOthers, Confirmed, \A i \in DOMAIN answers' : \E k \in DOMAIN answers : answers'[i] = answers[k]
  PROVE  Confirmed'
<1>1. PICK B : B = answers'
      OBVIOUS
<1>2. \A i \in DOMAIN B : \E k \in DOMAIN answers : B[i] = answers[k]
      BY <1>1
<1>3. \A i \in DOMAIN B : Confirms(B[i], "download") /\ step = Download => Loading
      BY <1>2 DEF Confirmed
<1>4. \A i \in DOMAIN B : Confirms(B[i], "upload") /\ step = Upload => Reading
      BY <1>2 DEF Confirmed
<1>5. \A i \in DOMAIN B : Confirms(B[i], "transfer") /\ step = Download + B[i].x => Base + B[i].x - 1 \in DOMAIN memory
      BY <1>2 DEF Confirmed
<1>6. \A i \in DOMAIN B : Confirms(B[i], "transfer") /\ step = Upload + B[i].x => B[i].y = B[i].x
      BY <1>2 DEF Confirmed
<1> QED BY <1>1, <1>3, <1>4, <1>5, <1>6 DEF Confirmed, Confirms, Loading, Reading, KeptByOthers

(* Something moves on its way, or is lost. *)
LEMMA MovedFlow ==
  ASSUME Flow, KeptByOthers, \A i \in DOMAIN answers' : \E k \in DOMAIN answers : answers'[i] = answers[k],
         \A p : Only(answers, toEcu, toProxy, p, Script, waiting) => Only(answers', toEcu', toProxy', p, Script, waiting),
         waiting /\ Ordered(answers, toEcu, toProxy, Script) => Ordered(answers', toEcu', toProxy', Script)
  PROVE  Flow'
<1>1. PICK p : OfLoader(p) /\ Leads(p, step) /\ Only(answers, toEcu, toProxy, p, Script, waiting) /\ Modes(p)
      BY DEF Flow
<1>2. Script' = Script /\ Modes(p)' /\ Leads(p, step') /\ waiting' = waiting /\ step' = step
      BY <1>1, SameMemory DEF KeptByOthers
<1>3. Only(answers', toEcu', toProxy', p, Script', waiting')
      BY <1>1, <1>2
<1>4. waiting' => step' # Done /\ Ordered(answers', toEcu', toProxy', Script')
      BY <1>2 DEF Flow
<1>5. Confirmed'
      BY SameConfirmed DEF Flow
<1> QED BY <1>1, <1>2, <1>3, <1>4, <1>5 DEF Flow

LEMMA PassFlow ==
  ASSUME UdsTypes, Pass, Flow
  PROVE  Flow'
<1>1. /\ toProxy # <<>> /\ toProxy' = Tail(toProxy) /\ answers' = answers
      /\ toEcu' = Append(toEcu, Head(toProxy)) \/ toEcu' = toEcu
      BY DEF Pass
<1>2. Popped(toProxy, toProxy') /\ 1 \in DOMAIN toProxy /\ Pushed(toEcu, toEcu', toProxy[1])
      BY <1>1, SeqPopped, SeqPushed, SeqStays DEF UdsTypes
<1>3. KeptByOthers
      BY DEF Pass, KeptByOthers, ecu, loader
<1>4. \A p : Only(answers, toEcu, toProxy, p, Script, waiting) => Only(answers', toEcu', toProxy', p, Script, waiting)
      BY <1>1, <1>2, PassedOnly
<1>5. waiting /\ Ordered(answers, toEcu, toProxy, Script) => Ordered(answers', toEcu', toProxy', Script)
      BY <1>1, <1>2, PassedInOrder
<1> QED BY <1>1, <1>3, <1>4, <1>5, MovedFlow

LEMMA LoseFlow ==
  ASSUME UdsTypes, Lose, Flow
  PROVE  Flow'
<1>1. \/ toEcu # <<>> /\ toEcu' = Tail(toEcu) /\ UNCHANGED <<toProxy, answers>>
      \/ answers # <<>> /\ answers' = Tail(answers) /\ UNCHANGED <<toProxy, toEcu>>
      BY DEF Lose
<1>2. \/ Popped(answers, answers') /\ toEcu' = toEcu /\ toProxy' = toProxy
      \/ Popped(toEcu, toEcu') /\ answers' = answers /\ toProxy' = toProxy
      BY <1>1, SeqPopped DEF UdsTypes
<1>3. KeptByOthers
      BY DEF Lose, KeptByOthers, ecu, loader
<1>4. \A p : Only(answers, toEcu, toProxy, p, Script, waiting) => Only(answers', toEcu', toProxy', p, Script, waiting)
      BY <1>2, LostOnly
<1>5. waiting /\ Ordered(answers, toEcu, toProxy, Script) => Ordered(answers', toEcu', toProxy', Script)
      BY <1>2, LostInOrder
<1>6. \A i \in DOMAIN answers' : \E k \in DOMAIN answers : answers'[i] = answers[k]
      BY <1>2, Shorter
<1> QED BY <1>3, <1>4, <1>5, <1>6, MovedFlow

(* Something is asked of the proxy: by the loader what the present step asks. *)
LEMMA AskFlow ==
  ASSUME UdsTypes, Flow, Harmless, NEW m, toProxy' = Append(toProxy, m),
         UNCHANGED <<toEcu, answers, step, key, memory, dtAddr, dtUpload>>,
         \/ waiting' = waiting /\ (m.from = Loader => waiting /\ m.req = Script)
         \/ ~waiting /\ waiting' = TRUE /\ step # Done /\ m.from = Loader /\ m.req = Script
  PROVE  Flow'
<1> DEFINE c == Script
<1>1. PICK p : OfLoader(p) /\ Leads(p, step) /\ Only(answers, toEcu, toProxy, p, c, waiting) /\ Modes(p)
      BY DEF Flow
<1>2. Pushed(toProxy, toProxy', m)
      BY SeqPushed DEF UdsTypes
<1>3. Script' = c
      BY SameScript
<1>4. Only(answers, toEcu, toProxy, p, c, waiting')
      BY <1>1 DEF Only
<1>5. m.from = Loader => waiting' /\ Asks(m, c)
      BY DEF Asks
<1>6. Only(answers', toEcu', toProxy', p, c, waiting')
      BY <1>2, <1>4, <1>5, AskedOnly
<1>7. waiting' => step # Done /\ Ordered(answers, toEcu, toProxy, c)
  <2>1. CASE waiting
        BY <2>1 DEF Flow
  <2>2. CASE ~waiting /\ waiting' = TRUE /\ step # Done
    <3>1. Shape(step, c) /\ OfLoader(c) /\ step \in 1..Done
          BY <2>2, ScriptIs DEF UdsTypes
    <3>2. Apart(p, c)
          BY <1>1, <2>2, <3>1, StepsApart
    <3>3. waiting = FALSE
          BY <2>2 DEF UdsTypes
    <3>4. Only(answers, toEcu, toProxy, p, c, FALSE)
          BY <1>1, <3>3
    <3> QED BY <2>2, <3>2, <3>4, FirstAskedInOrder
  <2> QED BY <2>1, <2>2
<1>8. waiting' => step' # Done /\ Ordered(answers', toEcu', toProxy', c)
      BY <1>2, <1>5, <1>7, AskedInOrder
<1>9. Confirmed' /\ Modes(p)' /\ Leads(p, step')
      BY <1>1 DEF Flow, Confirmed, Modes, Loading, Reading
<1> QED BY <1>1, <1>3, <1>6, <1>8, <1>9 DEF Flow

(* An answer comes back. *)
LEMMA PassBackFlow ==
  ASSUME UdsTypes, MemoryOK, ReadOK, Flow, Harmless, PassBack
  PROVE  Flow' /\ MemoryOK' /\ ReadOK' /\ step' \in 1..Done /\ waiting' \in BOOLEAN
<1> DEFINE a == Head(answers)
           c == Script
<1>0. step \in 1..Done /\ waiting \in BOOLEAN /\ (waiting => step # Done)
      BY DEF UdsTypes, Flow
<1>1. answers' = Tail(answers) /\ a = answers[1] /\ 1 \in DOMAIN answers /\ Popped(answers, answers')
      BY SeqPopped DEF UdsTypes, PassBack
<1>2. UNCHANGED <<toEcu, toProxy, memory, dtAddr, dtUpload>>
      BY DEF PassBack, ecu
<1>3. PICK p : OfLoader(p) /\ Leads(p, step) /\ Only(answers, toEcu, toProxy, p, c, waiting) /\ Modes(p)
      BY DEF Flow
<1>4. ASSUME UNCHANGED <<waiting, step, key>> PROVE Flow'
  <2>1. KeptByOthers
        BY <1>2, <1>4 DEF KeptByOthers
  <2>2. \A q : Only(answers, toEcu, toProxy, q, c, waiting) => Only(answers', toEcu', toProxy', q, c, waiting)
        BY <1>1, <1>2, LostOnly
  <2>3. waiting /\ Ordered(answers, toEcu, toProxy, c) => Ordered(answers', toEcu', toProxy', c)
        BY <1>1, <1>2, LostInOrder
  <2>4. \A i \in DOMAIN answers' : \E k \in DOMAIN answers : answers'[i] = answers[k]
        BY <1>1, Shorter
  <2> QED BY <2>1, <2>2, <2>3, <2>4, MovedFlow
<1>5. ASSUME a.to = Loader, Hear(a), Mine(a) PROVE Flow'
  <2>1. step # Done /\ waiting /\ Tells(a, c)
        BY <1>0, <1>5 DEF Mine, Tells
  <2>2. Shape(step, c) /\ OfLoader(c)
        BY <1>0, <2>1, ScriptIs
  <2>3. waiting' = FALSE /\ Moves(step, step', a.result = "ok")
        BY <1>0, <1>5, HearIs
  <2>4. \A d : Only(answers', toEcu', toProxy', c, d, FALSE)
        BY <1>1, <1>2, <2>1, OnlyTheLast DEF Flow
  <2>5. Confirmed'
        BY <1>0, <2>1, <2>2, <2>3, <2>4, NextConfirmed
  <2>6. Leads(c, step')
        BY <1>0, <2>1, <2>2, <2>3, NextLeads
  <2>7. (a.result = "ok" /\ step = Download => Loading) /\ (a.result = "ok" /\ step = Upload => Reading)
    <3>1. (step = Download => c.code = "download") /\ (step = Upload => c.code = "upload")
          BY <2>2 DEF Shape, Request
    <3> QED BY <1>1, <1>5, <2>1, <3>1 DEF Flow, Confirmed, Confirms, Tells
  <2>8. PICK d, ok : d = c /\ ok = (a.result = "ok")
        OBVIOUS
  <2>9. Modes(d)'
    <3>1. Moves(step, step', ok) /\ (ok /\ step = Download => Loading) /\ (ok /\ step = Upload => Reading)
          BY <2>3, <2>7, <2>8
    <3> QED BY <1>0, <1>2, <1>3, <2>1, <2>2, <2>8, <3>1, NextModes
  <2>10. OfLoader(d) /\ Leads(d, step') /\ Only(answers', toEcu', toProxy', d, Script', waiting')
        BY <2>2, <2>3, <2>4, <2>6, <2>8
  <2> QED BY <2>3, <2>5, <2>9, <2>10 DEF Flow
<1>6. Flow'
  <2>1. UNCHANGED loader \/ (a.to = Loader /\ Hear(a))
        BY DEF PassBack
  <2> QED BY <1>0, <1>4, <1>5, <2>1, HearIs DEF loader
<1>7. ASSUME UNCHANGED loader PROVE MemoryOK' /\ ReadOK' /\ step' \in 1..Done /\ waiting' \in BOOLEAN
      BY <1>0, <1>2, <1>7 DEF MemoryOK, ReadOK, loader
<1>8. ASSUME a.to = Loader, Hear(a) PROVE MemoryOK' /\ ReadOK' /\ step' \in 1..Done /\ waiting' \in BOOLEAN
  <2>1. ASSUME Mine(a), a.result = "ok"
        PROVE  /\ \A s \in 1..Blocks : step = Download + s => Base + s - 1 \in DOMAIN memory
               /\ step \in (Upload + 1)..(Upload + Blocks) => a.y = step - Upload
    <3>0. step \in Nat /\ Download = 4 /\ Upload = Blocks + 6 /\ Done = 2 * Blocks + 8
          BY <1>0, Constant DEF Download, Upload, Done
    <3>1. Shape(step, c) /\ a.code = c.code /\ a.x = c.x
          BY <1>0, <2>1, ScriptIs DEF Mine
    <3>2. \A s \in 1..Blocks : step = Download + s => a.code = "transfer" /\ a.x = s
          BY <3>0, <3>1, Constant DEF Shape, Request
    <3>3. step \in (Upload + 1)..(Upload + Blocks) => a.code = "transfer" /\ a.x = step - Upload /\ step = Upload + a.x
          BY <3>0, <3>1, Constant DEF Shape, Request
    <3> QED BY <1>1, <1>8, <2>1, <3>2, <3>3 DEF Flow, Confirmed, Confirms
  <2> QED BY <1>0, <1>2, <1>8, <2>1, HearMemory
<1> QED BY <1>6, <1>7, <1>8 DEF PassBack

-----------------------------------------------------------------------------
(* Behind BlockTransfer. *)
LEMMA RespondBlocked ==
  ASSUME Harmless, UdsTypes, Wished, MemoryOK, Blocked, toEcu # <<>>, toEcu' = Tail(toEcu), UNCHANGED loader,
         AnsweredWith(Head(toEcu))
  PROVE  Blocked' /\ MemoryOK' /\ dtAddr' \in {NoAddress, Base} /\ dtUpload' \in BOOLEAN /\ IsSeq(answers')
<1> DEFINE m == Head(toEcu)
<1>1. m = toEcu[1] /\ 1 \in DOMAIN toEcu /\ Popped(toEcu, toEcu')
      BY SeqPopped DEF UdsTypes
<1>2. Known(m) /\ m.req.code \notin {"download", "upload"} /\ dtAddr = NoAddress /\ step' = step
      BY <1>1 DEF Wished, Blocked, loader
<1>3. PICK E : E = toEcu'
      OBVIOUS
<1>4. \A i \in DOMAIN E : E[i].req.code \notin {"download", "upload"}
      BY <1>1, <1>3, Shorter DEF Blocked
<1>5. PICK B : B = answers'
      OBVIOUS
<1>6. /\ MemoryOK' /\ dtAddr' \in {NoAddress, Base} /\ dtUpload' \in BOOLEAN /\ IsSeq(answers') /\ dtAddr' = NoAddress
      /\ \A i \in DOMAIN B : B[i].code \notin {"download", "upload"}
  <2>1. PICK y, r : answers' = Append(answers, AnswerTo(m, y, r)) /\ Does(m.req, y, r)
        BY DEF AnsweredWith
  <2>2. MemoryOK' /\ dtAddr' \in {NoAddress, Base} /\ dtUpload' \in BOOLEAN
        BY <1>2, <2>1, AnsweredMemory
  <2>3. dtAddr' = NoAddress
        BY <1>2, <2>1 DEF Does, dt
  <2>4. IsSeq(answers') /\ Pushed(answers, B, AnswerTo(m, y, r))
        BY <1>5, <2>1, SeqPushed DEF UdsTypes
  <2>5. AnswerTo(m, y, r).code \notin {"download", "upload"}
        BY <1>2 DEF AnswerTo
  <2>6. \A i \in DOMAIN B : B[i].code \notin {"download", "upload"}
        BY <2>4, <2>5, Longer DEF Blocked
  <2> QED BY <2>2, <2>3, <2>4, <2>6
<1> QED BY <1>2, <1>3, <1>4, <1>5, <1>6 DEF Blocked

LEMMA HearBlocked ==
  ASSUME Harmless, UdsTypes, MemoryOK, ReadOK, Blocked, waiting => step # Done, NEW a, Hear(a), UNCHANGED memory,
         a.code \in {"download", "upload"} => a.result # "ok"
  PROVE  step' <= Download /\ MemoryOK' /\ ReadOK' /\ step' \in 1..Done /\ waiting' \in BOOLEAN
<1>0. step \in 1..Done /\ waiting \in BOOLEAN /\ step <= Download
      BY DEF UdsTypes, Blocked
<1>1. step \in Nat /\ Download = 4 /\ Upload = Blocks + 6 /\ Done = 2 * Blocks + 8
      BY <1>0, Constant DEF Download, Upload, Done
<1>2. step' <= Download
  <2>1. CASE Mine(a)
    <3>1. Moves(step, step', a.result = "ok") /\ a.code = Script.code /\ step # Done
          BY <1>0, <2>1, HearIs DEF Mine
    <3>2. step = Download => a.code = "download"
          BY <1>0, <3>1, ScriptIs DEF Shape, Request
    <3>3. PICK k : k = step'
          OBVIOUS
    <3> QED BY <1>0, <1>1, <3>1, <3>2, <3>3 DEF Moves
  <2>2. CASE ~Mine(a)
        BY <1>0, <2>2, HearIs
  <2> QED BY <2>1, <2>2
<1>3. (\A s \in 1..Blocks : step # Download + s) /\ step \notin (Upload + 1)..(Upload + Blocks)
      BY <1>0, <1>1, Constant
<1> QED BY <1>0, <1>2, <1>3, HearMemory

-----------------------------------------------------------------------------
(* Every request is one that the loader or another tester makes. *)
LEMMA Heads ==
  ASSUME UdsTypes, NEW q, q \in {toProxy, toEcu, answers}, q # <<>>
  PROVE  Head(q) = q[1] /\ 1 \in DOMAIN q /\ Popped(q, Tail(q)) /\ IsSeq(Tail(q))
BY SeqPopped DEF UdsTypes

LEMMA TailWished ==
  ASSUME NEW q, NEW r, Popped(q, r), \A i \in DOMAIN q : Known(q[i])
  PROVE  \A i \in DOMAIN r : Known(r[i])
BY Shorter

LEMMA MoreWished ==
  ASSUME NEW q, NEW r, NEW m, Pushed(q, r, m), \A i \in DOMAIN q : Known(q[i]), Known(m)
  PROVE  \A i \in DOMAIN r : Known(r[i])
BY Longer

LEMMA WishedIs ==
  ASSUME NEW E, NEW P, toEcu' = E, toProxy' = P, \A i \in DOMAIN E : Known(E[i]), \A i \in DOMAIN P : Known(P[i])
  PROVE  Wished'
BY DEF Wished

-----------------------------------------------------------------------------
LEMMA DownloadInit == Init => DownloadInv
<1> SUFFICES ASSUME Init PROVE DownloadInv
    OBVIOUS
<1>0. Download = 4 /\ Upload = Blocks + 6 /\ Done = 2 * Blocks + 8
      BY Constant DEF Download, Upload, Done
<1>1. DOMAIN toProxy = {} /\ DOMAIN toEcu = {} /\ DOMAIN answers = {} /\ DOMAIN memory = {} /\ step = 1
      BY DEF Init
<1>2. UdsTypes
  <2>1. <<>> \in Seq({})
        OBVIOUS
  <2>2. IsSeq(<<>>)
        BY <2>1 DEF IsSeq
  <2>3. toProxy = <<>> /\ toEcu = <<>> /\ answers = <<>>
        BY DEF Init
  <2>4. IsSeq(toProxy) /\ IsSeq(toEcu) /\ IsSeq(answers)
        BY <2>2, <2>3, Zenon
  <2>5. step \in 1..Done
        BY <1>0, <1>1, Constant
  <2>6. waiting \in BOOLEAN /\ dtAddr \in {NoAddress, Base} /\ dtUpload \in BOOLEAN
        BY DEF Init
  <2> QED BY <2>4, <2>5, <2>6 DEF UdsTypes
<1>3. Wished /\ MemoryOK /\ ReadOK
      BY <1>0, <1>1, Constant DEF Init, Wished, MemoryOK, ReadOK
<1>4. Blocked
      BY <1>0, <1>1 DEF Init, Blocked
<1>5. Flow
  <2> DEFINE p == Request("exit", 0, 0)
  <2>1. OfLoader(p)
        BY DEF OfLoader, Request, Transfers
  <2>2. Leads(p, step)
        BY <1>0, <1>1, Constant DEF Leads
  <2>3. Only(answers, toEcu, toProxy, p, Script, waiting)
        BY <1>1 DEF Only
  <2>4. Modes(p)
        BY DEF Init, Modes, Loading, Reading
  <2>5. Confirmed /\ ~waiting
        BY <1>1 DEF Init, Confirmed
  <2> QED BY <2>1, <2>2, <2>3, <2>4, <2>5 DEF Flow
<1> QED BY <1>2, <1>3, <1>4, <1>5 DEF DownloadInv

LEMMA DownloadRespond == ASSUME Harmless, DownloadInv, Respond PROVE DownloadInv'
<1>1. /\ toEcu # <<>> /\ toEcu' = Tail(toEcu) /\ UNCHANGED <<effect, toProxy, loader>>
      /\ AnsweredWith(Head(toEcu))
      BY RespondIs
<1>2. UdsTypes /\ Wished /\ MemoryOK /\ ReadOK
      BY DEF DownloadInv
<1>3. /\ MemoryOK' /\ dtAddr' \in {NoAddress, Base} /\ dtUpload' \in BOOLEAN /\ IsSeq(answers')
      /\ effect = "blockTransfer" => Blocked'
      /\ effect # "blockTransfer" => Flow'
  <2>1. CASE effect = "blockTransfer"
        BY <1>1, <1>2, <2>1, RespondBlocked DEF DownloadInv
  <2>2. CASE effect # "blockTransfer"
    <3>1. UNCHANGED <<toProxy, loader>> /\ Flow
          BY <1>1, <2>2 DEF DownloadInv
    <3> QED BY <1>1, <1>2, <2>2, <3>1, RespondFlow
  <2> QED BY <2>1, <2>2
<1>4. Popped(toEcu, toEcu') /\ IsSeq(toEcu')
      BY <1>1, <1>2, Heads
<1>5. PICK E : E = toEcu'
      OBVIOUS
<1>6. Wished'
  <2>1. \A i \in DOMAIN E : Known(E[i])
        BY <1>2, <1>4, <1>5, TailWished DEF Wished
  <2> QED BY <1>1, <1>2, <1>5, <2>1 DEF Wished
<1>7. UdsTypes' /\ ReadOK'
      BY <1>1, <1>2, <1>3, <1>4 DEF UdsTypes, ReadOK, loader
<1>8. effect' = effect
      BY <1>1
<1> QED BY <1>3, <1>6, <1>7, <1>8 DEF DownloadInv

LEMMA DownloadPass == ASSUME Harmless, DownloadInv, Pass PROVE DownloadInv'
<1>1. /\ toProxy # <<>> /\ toProxy' = Tail(toProxy)
      /\ toEcu' = Append(toEcu, Head(toProxy)) \/ toEcu' = toEcu
      /\ UNCHANGED <<answers, effect, step, waiting, key, read, dtAddr, dtUpload, memory>>
      BY DEF Pass, ecu, loader
<1>2. UdsTypes /\ Wished /\ MemoryOK /\ ReadOK
      BY DEF DownloadInv
<1>3. /\ Popped(toProxy, toProxy') /\ IsSeq(toProxy') /\ 1 \in DOMAIN toProxy
      /\ Pushed(toEcu, toEcu', toProxy[1]) /\ IsSeq(toEcu')
      BY <1>1, <1>2, Heads, SeqPushed, SeqStays DEF UdsTypes
<1>4. PICK E, P : E = toEcu' /\ P = toProxy'
      OBVIOUS
<1>5. Wished'
  <2>1. \A i \in DOMAIN P : Known(P[i])
        BY <1>2, <1>3, <1>4, TailWished DEF Wished
  <2>2. \A i \in DOMAIN E : Known(E[i])
        BY <1>2, <1>3, <1>4, MoreWished DEF Wished
  <2> QED BY <1>4, <2>1, <2>2, WishedIs
<1>6. UdsTypes' /\ ReadOK' /\ MemoryOK'
      BY <1>1, <1>2, <1>3 DEF UdsTypes, ReadOK, MemoryOK
<1>7. CASE effect = "blockTransfer"
  <2>1. toProxy[1].req.code \notin {"download", "upload"}
        BY <1>1, <1>2, <1>7, Heads DEF Pass, Refused
  <2>2. \A i \in DOMAIN E : E[i].req.code \notin {"download", "upload"}
        BY <1>3, <1>4, <1>7, <2>1, Longer DEF DownloadInv, Blocked
  <2>3. Blocked'
        BY <1>1, <1>4, <1>7, <2>2 DEF DownloadInv, Blocked
  <2> QED BY <1>1, <1>5, <1>6, <1>7, <2>3 DEF DownloadInv
<1>8. CASE effect # "blockTransfer"
  <2>1. Flow'
        BY <1>2, <1>8, PassFlow DEF DownloadInv
  <2> QED BY <1>1, <1>5, <1>6, <1>8, <2>1 DEF DownloadInv
<1> QED BY <1>7, <1>8

LEMMA DownloadPassBack == ASSUME Harmless, DownloadInv, PassBack PROVE DownloadInv'
<1>1. /\ answers # <<>> /\ answers' = Tail(answers)
      /\ UNCHANGED <<toEcu, toProxy, effect, dtAddr, dtUpload, memory>>
      /\ UNCHANGED loader \/ Hear(Head(answers))
      BY DEF PassBack, ecu
<1>2. UdsTypes /\ Wished /\ MemoryOK /\ ReadOK
      BY DEF DownloadInv
<1>3. /\ Popped(answers, answers') /\ IsSeq(answers') /\ 1 \in DOMAIN answers /\ Head(answers) = answers[1]
      BY <1>1, <1>2, Heads
<1>4. Wished'
      BY <1>1, <1>2 DEF Wished
<1>5. ASSUME step' \in 1..Done, waiting' \in BOOLEAN PROVE UdsTypes'
      BY <1>1, <1>2, <1>3, <1>5 DEF UdsTypes
<1>6. CASE effect = "blockTransfer"
  <2>0. Blocked
        BY <1>6 DEF DownloadInv
  <2>1. PICK B : B = answers'
        OBVIOUS
  <2>2. \A i \in DOMAIN B : B[i].code \notin {"download", "upload"}
        BY <1>3, <2>0, <2>1, Shorter DEF Blocked
  <2>3. step' <= Download /\ MemoryOK' /\ ReadOK' /\ step' \in 1..Done /\ waiting' \in BOOLEAN
    <3>1. CASE UNCHANGED loader
          BY <1>1, <1>2, <2>0, <3>1 DEF loader, Blocked, MemoryOK, ReadOK, UdsTypes
    <3>2. CASE Hear(Head(answers))
      <4>1. waiting => step # Done
            BY <2>0, Constant DEF Blocked, Download, Upload, Done
      <4>2. Head(answers).code \notin {"download", "upload"}
            BY <1>3, <2>0 DEF Blocked
      <4> QED BY <1>1, <1>2, <2>0, <3>2, <4>1, <4>2, HearBlocked
    <3> QED BY <1>1, <3>1, <3>2
  <2>4. Blocked'
        BY <1>1, <2>0, <2>1, <2>2, <2>3 DEF Blocked
  <2> QED BY <1>1, <1>4, <1>5, <1>6, <2>3, <2>4 DEF DownloadInv
<1>7. CASE effect # "blockTransfer"
  <2>1. Flow' /\ MemoryOK' /\ ReadOK' /\ step' \in 1..Done /\ waiting' \in BOOLEAN
        BY <1>2, <1>7, PassBackFlow DEF DownloadInv
  <2> QED BY <1>1, <1>4, <1>5, <1>7, <2>1 DEF DownloadInv
<1> QED BY <1>6, <1>7

LEMMA DownloadPassRefused == ASSUME Harmless, DownloadInv, PassRefused PROVE DownloadInv'
<1> DEFINE m == Head(toProxy)
           a == [to |-> m.from, code |-> m.req.code, x |-> m.req.x, y |-> 0, result |-> "subFunction"]
<1>1. /\ toProxy # <<>> /\ toProxy' = Tail(toProxy) /\ effect = "blockTransfer"
      /\ UNCHANGED <<toEcu, answers, effect, dtAddr, dtUpload, memory>>
      /\ UNCHANGED loader \/ Hear(a)
      BY DEF PassRefused, ecu, Refused
<1>2. UdsTypes /\ Wished /\ MemoryOK /\ ReadOK /\ Blocked
      BY <1>1 DEF DownloadInv
<1>3. Popped(toProxy, toProxy') /\ IsSeq(toProxy')
      BY <1>1, <1>2, Heads
<1>4. PICK P : P = toProxy'
      OBVIOUS
<1>5. Wished'
  <2>1. \A i \in DOMAIN P : Known(P[i])
        BY <1>2, <1>3, <1>4, TailWished DEF Wished
  <2> QED BY <1>1, <1>2, <1>4, <2>1 DEF Wished
<1>6. step' <= Download /\ MemoryOK' /\ ReadOK' /\ step' \in 1..Done /\ waiting' \in BOOLEAN
  <2>1. CASE UNCHANGED loader
        BY <1>1, <1>2, <2>1 DEF loader, Blocked, MemoryOK, ReadOK, UdsTypes
  <2>2. CASE Hear(a)
    <3>1. waiting => step # Done
          BY <1>2, Constant DEF Blocked, Download, Upload, Done
    <3>2. a.result # "ok"
          OBVIOUS
    <3> QED BY <1>1, <1>2, <2>2, <3>1, <3>2, HearBlocked
  <2> QED BY <1>1, <2>1, <2>2
<1>7. Blocked'
      BY <1>1, <1>2, <1>6 DEF Blocked
<1>8. UdsTypes'
      BY <1>1, <1>2, <1>3, <1>6 DEF UdsTypes
<1> QED BY <1>1, <1>5, <1>6, <1>7, <1>8 DEF DownloadInv

(* What the three ways to ask, and the wishes of the others, have in common. *)
LEMMA DownloadAsks ==
  ASSUME Harmless, DownloadInv, NEW m, toProxy' = Append(toProxy, m), Known(m),
         UNCHANGED <<effect, toEcu, answers, step, key, read, memory, dtAddr, dtUpload>>,
         \/ waiting' = waiting /\ (m.from = Loader => waiting /\ m.req = Script)
         \/ ~waiting /\ waiting' = TRUE /\ step # Done /\ m.from = Loader /\ m.req = Script
  PROVE  DownloadInv'
<1>1. UdsTypes /\ Wished /\ MemoryOK /\ ReadOK
      BY DEF DownloadInv
<1>2. Pushed(toProxy, toProxy', m) /\ IsSeq(toProxy')
      BY <1>1, SeqPushed DEF UdsTypes
<1>3. PICK P : P = toProxy'
      OBVIOUS
<1>4. Wished'
  <2>1. \A i \in DOMAIN P : Known(P[i])
        BY <1>1, <1>2, <1>3, MoreWished DEF Wished
  <2> QED BY <1>1, <1>3, <2>1 DEF Wished
<1>5. UdsTypes' /\ MemoryOK' /\ ReadOK'
      BY <1>1, <1>2 DEF UdsTypes, MemoryOK, ReadOK
<1>6. effect = "blockTransfer" => Blocked'
      BY DEF DownloadInv, Blocked
<1>7. effect # "blockTransfer" => Flow'
  <2> SUFFICES ASSUME effect # "blockTransfer" PROVE Flow'
      OBVIOUS
  <2>1. Flow
        BY DEF DownloadInv
  <2>2. UNCHANGED <<toEcu, answers, step, key, memory, dtAddr, dtUpload>>
        OBVIOUS
  <2> QED BY <1>1, <2>1, <2>2, AskFlow
<1> QED BY <1>4, <1>5, <1>6, <1>7 DEF DownloadInv

LEMMA NotDone == ASSUME DownloadInv, waiting PROVE step # Done
<1>1. CASE effect = "blockTransfer"
      BY <1>1, Constant DEF DownloadInv, Blocked, Download, Upload, Done
<1>2. CASE effect # "blockTransfer"
      BY <1>2 DEF DownloadInv, Flow
<1> QED BY <1>1, <1>2

LEMMA DownloadAsk == ASSUME Harmless, DownloadInv, Ask \/ AskAgain \/ AskTwice PROVE DownloadInv'
<1> DEFINE m == [from |-> Loader, req |-> Script]
<1>1. /\ toProxy' = Append(toProxy, m)
      /\ UNCHANGED <<effect, toEcu, answers, step, key, read, memory, dtAddr, dtUpload>>
      BY DEF Ask, AskAgain, AskTwice, Submit, ecu, loader
<1>2. \/ waiting' = waiting /\ waiting
      \/ ~waiting /\ waiting' = TRUE /\ step < Done
      BY DEF Ask, AskAgain, AskTwice, loader
<1>3. step \in 1..Done /\ step # Done
      BY <1>2, NotDone, Constant DEF DownloadInv, UdsTypes, Download, Upload, Done
<1>4. Known(m)
      BY <1>3, ScriptIs DEF Known
<1>5. m.from = Loader /\ m.req = Script
      OBVIOUS
<1> HIDE DEF m
<1> QED BY <1>1, <1>2, <1>3, <1>4, <1>5, DownloadAsks

LEMMA DownloadWish == ASSUME Harmless, DownloadInv, NEW t \in Testers, NEW req \in Wishes, Wish(t, req) PROVE DownloadInv'
<1> DEFINE m == [from |-> t, req |-> req]
<1>1. /\ toProxy' = Append(toProxy, m) /\ waiting' = waiting
      /\ UNCHANGED <<effect, toEcu, answers, step, key, read, memory, dtAddr, dtUpload>>
      BY DEF Wish, Submit, ecu, loader
<1>2. m.from # Loader /\ Known(m)
      BY DEF Wish, Known
<1> HIDE DEF m
<1> QED BY <1>1, <1>2, DownloadAsks

LEMMA DownloadLose == ASSUME Harmless, DownloadInv, Lose PROVE DownloadInv'
<1>1. UNCHANGED <<effect, toProxy, step, waiting, key, read, memory, dtAddr, dtUpload>>
      BY DEF Lose, ecu, loader
<1>2. UdsTypes /\ Wished /\ MemoryOK /\ ReadOK
      BY DEF DownloadInv
<1>3. \/ toEcu # <<>> /\ toEcu' = Tail(toEcu) /\ answers' = answers
      \/ answers # <<>> /\ answers' = Tail(answers) /\ toEcu' = toEcu
      BY DEF Lose
<1>4. PICK A, E : A = answers' /\ E = toEcu'
      OBVIOUS
<1>5. /\ IsSeq(A) /\ IsSeq(E)
      /\ \A i \in DOMAIN A : \E k \in DOMAIN answers : A[i] = answers[k]
      /\ \A i \in DOMAIN E : \E k \in DOMAIN toEcu : E[i] = toEcu[k]
  <2>1. CASE toEcu # <<>> /\ toEcu' = Tail(toEcu) /\ answers' = answers
    <3>1. Popped(toEcu, E) /\ IsSeq(E)
          BY <1>2, <1>4, <2>1, Heads
    <3>2. A = answers /\ IsSeq(A)
          BY <1>2, <1>4, <2>1 DEF UdsTypes
    <3> QED BY <3>1, <3>2, Shorter
  <2>2. CASE answers # <<>> /\ answers' = Tail(answers) /\ toEcu' = toEcu
    <3>1. Popped(answers, A) /\ IsSeq(A)
          BY <1>2, <1>4, <2>2, Heads
    <3> QED BY <1>2, <1>4, <2>2, <3>1, Shorter DEF UdsTypes
  <2> QED BY <1>3, <2>1, <2>2
<1>6. Wished'
  <2>1. \A i \in DOMAIN E : Known(E[i])
        BY <1>2, <1>5 DEF Wished
  <2> QED BY <1>1, <1>2, <1>4, <2>1 DEF Wished
<1>7. UdsTypes' /\ MemoryOK' /\ ReadOK'
      BY <1>1, <1>2, <1>4, <1>5 DEF UdsTypes, MemoryOK, ReadOK
<1>8. effect = "blockTransfer" => Blocked'
      BY <1>1, <1>4, <1>5 DEF DownloadInv, Blocked
<1>9. effect # "blockTransfer" => Flow'
      BY <1>2, LoseFlow DEF DownloadInv
<1> QED BY <1>1, <1>6, <1>7, <1>8, <1>9 DEF DownloadInv

LEMMA DownloadStays == ASSUME DownloadInv, UNCHANGED vars PROVE DownloadInv'
<1>1. UNCHANGED <<effect, toProxy, toEcu, answers, step, waiting, key, read, memory, dtAddr, dtUpload>>
      BY DEF vars, ecu, net, loader
<1>2. Script' = Script
      BY <1>1, SameScript
<1>3. UdsTypes' /\ Wished' /\ MemoryOK' /\ ReadOK'
      BY <1>1 DEF DownloadInv, UdsTypes, Wished, MemoryOK, ReadOK
<1>4. effect = "blockTransfer" => Blocked'
      BY <1>1 DEF DownloadInv, Blocked
<1>5. effect # "blockTransfer" => Flow'
  <2> SUFFICES ASSUME effect # "blockTransfer" PROVE Flow'
      OBVIOUS
  <2>1. PICK p : OfLoader(p) /\ Leads(p, step) /\ Only(answers, toEcu, toProxy, p, Script, waiting) /\ Modes(p)
        BY DEF DownloadInv, Flow
  <2>2. Modes(p)' /\ Confirmed'
        BY <1>1, <2>1 DEF DownloadInv, Flow, Modes, Loading, Reading, Confirmed
  <2>3. Leads(p, step') /\ Only(answers', toEcu', toProxy', p, Script', waiting')
        BY <1>1, <1>2, <2>1
  <2>4. waiting' => step' # Done /\ Ordered(answers', toEcu', toProxy', Script')
        BY <1>1, <1>2 DEF DownloadInv, Flow
  <2> QED BY <2>1, <2>2, <2>3, <2>4 DEF Flow
<1> QED BY <1>1, <1>3, <1>4, <1>5 DEF DownloadInv

LEMMA DownloadStep == ASSUME Harmless PROVE DownloadInv /\ [Next]_vars => DownloadInv'
<1> SUFFICES ASSUME DownloadInv, [Next]_vars PROVE DownloadInv'
    OBVIOUS
<1>1. CASE Respond
      BY <1>1, DownloadRespond
<1>2. CASE Pass
      BY <1>2, DownloadPass
<1>3. CASE PassBack
      BY <1>3, DownloadPassBack
<1>4. CASE PassRefused
      BY <1>4, DownloadPassRefused
<1>5. CASE Ask \/ AskAgain \/ AskTwice
      BY <1>5, DownloadAsk
<1>6. CASE Lose
      BY <1>6, DownloadLose
<1>7. CASE \E t \in Testers, req \in Wishes : Wish(t, req)
      BY <1>7, DownloadWish
<1>8. CASE UNCHANGED vars
      BY <1>8, DownloadStays
<1> QED BY <1>1, <1>2, <1>3, <1>4, <1>5, <1>6, <1>7, <1>8 DEF Next, System, Testing

LEMMA DownloadIs == DownloadInv => DownloadIntact
<1> SUFFICES ASSUME DownloadInv PROVE DownloadIntact
    OBVIOUS
<1>0. step \in Nat /\ Download = 4 /\ Upload = Blocks + 6 /\ Done = 2 * Blocks + 8
      BY Constant DEF Download, Upload, Done, DownloadInv, UdsTypes
<1>1. DOMAIN memory \subseteq Base..(Base + Blocks - 1)
      BY DEF DownloadInv, MemoryOK
<1>2. ASSUME step >= Upload, NEW s \in 1..Blocks PROVE Stored(Base + s - 1) = s
  <2>1. step > Download + s
        BY <1>0, <1>2, Constant
  <2>2. Base + s - 1 \in DOMAIN memory
        BY <2>1 DEF DownloadInv, MemoryOK
  <2>3. memory[Base + s - 1] = (Base + s - 1) - Base + 1
        BY <2>2 DEF DownloadInv, MemoryOK
  <2> QED BY <2>2, <2>3, Constant DEF Stored
<1>3. step = Done => read = [s \in 1..Blocks |-> s]
      BY DEF DownloadInv, ReadOK
<1> QED BY <1>1, <1>2, <1>3 DEF DownloadIntact

(* A download that was confirmed is in memory, nothing else is, and an upload reads it    *)
(* back (UDSResponder's 0x34 to 0x37 handlers), if the others leave its memory alone and  *)
(* the blocks have different numbers.                                                 *)
THEOREM DownloadIntactHolds ==
  ASSUME Harmless
  PROVE  Spec => []DownloadIntact
<1>1. Init => DownloadInv
      BY DownloadInit
<1>2. DownloadInv /\ [Next]_vars => DownloadInv'
      BY DownloadStep
<1>3. DownloadInv => DownloadIntact
      BY DownloadIs
<1> QED BY <1>1, <1>2, <1>3, PTL DEF Spec

(* Behind BlockTransfer no transfer begins (effects.BlockTransfer). *)
THEOREM TransfersBlockedHolds ==
  ASSUME Harmless
  PROVE  Spec => []TransfersBlocked
<1>1. Init => DownloadInv
      BY DownloadInit
<1>2. DownloadInv /\ [Next]_vars => DownloadInv'
      BY DownloadStep
<1>3. DownloadInv => TransfersBlocked
      BY DEF DownloadInv, Blocked, TransfersBlocked
<1> QED BY <1>1, <1>2, <1>3, PTL DEF Spec
=============================================================================
