--------------------------------- MODULE Uds --------------------------------
(***************************************************************************)
(* UDS requests and answers (canbus/UDS.py: UDS, UDSProxy, UDSResponder).      *)
(* Testers ask a simulated ECU for services through a proxy.  The responder    *)
(* has one session, one seed and one block transfer for all of them.  What     *)
(* it reads and writes in a transfer is placed by the block's number, so that   *)
(* a block may be sent again.                                                 *)
(*                                                                          *)
(* A message is one step on each side of the proxy (IsoTp has its frames) and   *)
(* may be lost.  One tester downloads a program; it repeats a request that got  *)
(* lost, and starts again when it is refused.  The others ask for this or that. *)
(* Addresses and sizes count blocks (DT_BLOCK_SIZE bytes).                     *)
(***************************************************************************)
EXTENDS Integers, Sequences, FiniteSets, Functions

CONSTANTS
  Testers,     \* testers, each on an interface of its own
  Loader,      \* the one that downloads
  Wishes,      \* the requests the others may make
  Base, Blocks,\* the download: first address, number of blocks
  SecMethod,   \* how a key is computed from a seed; 0: no key needed
  Seeds,       \* seeds the responder may draw
  Effects,     \* effects the proxy may have
  Priority,    \* of the links between the interfaces, the proxy and the ECU: 0 or 1
  MaxWishes,   \* bound: requests of the others
  MaxRepeats,  \* bound: requests repeated although nothing was lost
  MaxLost      \* bound: messages lost

BlockMod == 256      \* the number of a block has eight bits,
KeyMod == 65536    \* seeds and keys have sixteen

ASSUME UdsAssumption ==
  /\ IsFiniteSet(Testers) /\ Loader \in Testers
  /\ Base \in Nat /\ Blocks \in Nat \ {0}
  /\ SecMethod \in 0..3 /\ Seeds \subseteq 0..(KeyMod - 1) /\ Seeds # {}
  /\ Effects \subseteq {"forward", "redirect", "blockTransfer", "blockVIN"} /\ Effects # {}
  /\ Priority \in {0, 1} /\ MaxWishes \in Nat /\ MaxRepeats \in Nat /\ MaxLost \in Nat

(* x: the session, the key, the identifier, the address or the block's number;   *)
(* y: what is written, or the data format of a transfer.                        *)
Request(code, x, y) == [code |-> code, x |-> x, y |-> y]

diagnostic_session_control(session) == Request("session", session, 0)
ecu_reset == Request("reset", 1, 0)
read_data_by_identifier(id) == Request("readId", id, 0)
write_data_by_identifier(id, v) == Request("writeId", id, v)
read_memory_by_address(addr) == Request("readMem", addr, 0)
write_memory_by_address(addr, v) == Request("writeMem", addr, v)
request_transfer(addr, upload) == Request(IF upload THEN "upload" ELSE "download", addr, 0)
(* without a number it is the end of the transfer                               *)
transfer_block(seq, v) == IF seq # 0 THEN Request("transfer", seq, v) ELSE Request("exit", 0, 0)
SeedRequest == Request("seed", 0, 0)
KeyRequest(key) == Request("key", key, 0)

AnySession == {"reset", "readId", "writeId"}
Programming == {"readMem", "writeMem", "download", "upload", "transfer", "exit"}
Codes == {"session", "seed", "key"} \cup AnySession \cup Programming

(* Positive answers, and the codes of the negative ones: 0x11, 0x12, 0x22, 0x24,  *)
(* 0x35.                                                                        *)
Results == {"ok", "notSupported", "subFunction", "conditions", "sequence", "invalidKey"}

ASSUME WishesAssumption == Wishes \subseteq [code : Codes, x : Int, y : Int]

NoSeed == -1     \* SEED = None, and what __getattr__() returns before there is a SEED
NoAddress == -1
VIN == 1

VARIABLES
  session,    \* SESSION: 0 (also None after a reset), 1, 2, 3
  unlocked,   \* UNLOCKED
  seed,       \* SEED
  dtAddr,     \* DT_MEM_ADDR
  dtUpload,   \* DT_UPLOAD
  memory,     \* MEMORY: address -> block, for those written
  data,       \* DATA_BY_IDENTIFIER: identifier -> value, for those that have one
  effect,     \* the effect of the proxy
  toProxy,    \* requests on their way to the proxy: [from, req]
  toEcu,      \* requests the proxy has passed on
  answers,    \* answers on their way to the proxy: [to, code, x, y, result]
  step,       \* where the loader is in its script
  waiting,    \* has it asked and no answer yet?
  key,        \* the key it computed
  read,       \* the blocks it has read back
  wished, repeated, lost   \* bounds

ecu == <<session, unlocked, seed, dtAddr, dtUpload, memory, data>>
net == <<toProxy, toEcu, answers>>
loader == <<step, waiting, key, read>>
bounds == <<wished, repeated, lost>>
vars == <<ecu, effect, net, loader, bounds>>

Requests == [from : Testers, req : [code : Codes, x : Int, y : Int]]
Answers == [to : Testers, code : Codes, x : Int, y : Int, result : Results]

TypeOK ==
  /\ session \in 0..3 /\ unlocked \in BOOLEAN /\ seed \in Seeds \cup {NoSeed}
  /\ dtAddr \in Int /\ dtUpload \in BOOLEAN
  /\ DOMAIN memory \subseteq Int /\ DOMAIN data \subseteq Int
  /\ effect \in Effects
  /\ toProxy \in Seq(Requests) /\ toEcu \in Seq(Requests) /\ answers \in Seq(Answers)
  /\ step \in Nat /\ waiting \in BOOLEAN /\ key \in Int /\ read \in Seq(Int)
  /\ wished \in 0..MaxWishes /\ repeated \in 0..MaxRepeats /\ lost \in 0..MaxLost

Init ==
  /\ session = 0 /\ unlocked = FALSE /\ seed = NoSeed
  /\ dtAddr = NoAddress /\ dtUpload = FALSE
  /\ memory = <<>> /\ data = [i \in {VIN} |-> 0]
  /\ effect \in Effects
  /\ toProxy = <<>> /\ toEcu = <<>> /\ answers = <<>>
  /\ step = 1 /\ waiting = FALSE /\ key = 0 /\ read = <<>>
  /\ wished = 0 /\ repeated = 0 /\ lost = 0

-----------------------------------------------------------------------------
(* The responder. *)

Incoming(codes) == toEcu # <<>> /\ Head(toEcu).req.code \in codes
Req == Head(toEcu).req

Answer(result, y) ==
  /\ toEcu' = Tail(toEcu)
  /\ answers' = Append(answers, [to |-> Head(toEcu).from, code |-> Req.code, x |-> Req.x,
                                 y |-> y, result |-> result])
  /\ UNCHANGED <<effect, toProxy, loader, bounds>>

(* Every session but the three known ones is refused; there is no way to end one, *)
(* and a new one keeps the access.                                              *)
RespondSession ==
  /\ Incoming({"session"})
  /\ IF Req.x \in 1..3 THEN session' = Req.x /\ Answer("ok", 0)
                       ELSE session' = session /\ Answer("subFunction", 0)
  /\ UNCHANGED <<unlocked, seed, dtAddr, dtUpload, memory, data>>

(* add1, xor and m42swap; the sum of the first has seventeen bits.               *)
Bit(n, i) == (n \div 2^i) % 2
Xor(a, b) == FoldFunction(+, 0, [i \in 0..15 |-> IF Bit(a, i) = Bit(b, i) THEN 0 ELSE 2^i])
SwapBytes(n) == (n % 256) * 256 + n \div 256
Check(s) ==
  CASE SecMethod = 1 -> s + 1
    [] SecMethod = 2 -> Xor(s, 51966)
    [] OTHER -> SwapBytes((s * 42) % KeyMod)

RespondSeedOnce ==   \* mutant: a seed request while unlocked is refused, as a key is
  /\ Incoming({"seed"}) /\ session # 0 /\ SecMethod # 0
  /\ IF unlocked THEN seed' = seed /\ Answer("subFunction", 0)
     ELSE \E s \in Seeds : seed' = s /\ Answer("ok", s)
  /\ UNCHANGED <<session, unlocked, dtAddr, dtUpload, memory, data>>

(* A seed request while unlocked is answered with zero and draws none.           *)
RespondSeed ==
  /\ Incoming({"seed"}) /\ session # 0 /\ SecMethod # 0
  /\ IF unlocked THEN seed' = seed /\ Answer("ok", 0)
     ELSE \E s \in Seeds : seed' = s /\ Answer("ok", s)
  /\ UNCHANGED <<session, unlocked, dtAddr, dtUpload, memory, data>>

RespondKeyReusable ==   \* mutant: a good key leaves the seed
  /\ Incoming({"key"}) /\ session # 0 /\ SecMethod # 0
  /\ \/ unlocked /\ Answer("subFunction", 0) /\ UNCHANGED <<unlocked, seed>>
     \/ ~unlocked /\ seed = NoSeed /\ Answer("sequence", 0) /\ UNCHANGED <<unlocked, seed>>
     \/ ~unlocked /\ seed \in Seeds /\ Req.x # Check(seed) /\ Answer("invalidKey", 0)
        /\ UNCHANGED <<unlocked, seed>>
     \/ ~unlocked /\ seed \in Seeds /\ Req.x = Check(seed) /\ Answer("ok", 0)
        /\ unlocked' = TRUE /\ seed' = seed
  /\ UNCHANGED <<session, dtAddr, dtUpload, memory, data>>

(* A wrong key may be tried again with the same seed.                            *)
RespondKey ==
  /\ Incoming({"key"}) /\ session # 0 /\ SecMethod # 0
  /\ \/ unlocked /\ Answer("subFunction", 0) /\ UNCHANGED <<unlocked, seed>>
     \/ ~unlocked /\ seed = NoSeed /\ Answer("sequence", 0) /\ UNCHANGED <<unlocked, seed>>
     \/ ~unlocked /\ seed \in Seeds /\ Req.x # Check(seed) /\ Answer("invalidKey", 0)
        /\ UNCHANGED <<unlocked, seed>>
     \/ ~unlocked /\ seed \in Seeds /\ Req.x = Check(seed) /\ Answer("ok", 0)
        /\ unlocked' = TRUE /\ seed' = NoSeed
  /\ UNCHANGED <<session, dtAddr, dtUpload, memory, data>>

(* A reset leaves the transfer as it is.                                         *)
RespondReset ==
  /\ Incoming({"reset"}) /\ session # 0
  /\ session' = 0 /\ unlocked' = FALSE /\ seed' = NoSeed
  /\ Answer("ok", 0)
  /\ UNCHANGED <<dtAddr, dtUpload, memory, data>>

RespondReadId ==
  /\ Incoming({"readId"}) /\ session # 0
  /\ IF Req.x \in DOMAIN data THEN Answer("ok", data[Req.x]) ELSE Answer("subFunction", 0)
  /\ UNCHANGED ecu

RespondWriteId ==
  /\ Incoming({"writeId"}) /\ session # 0
  /\ data' = [i \in DOMAIN data \cup {Req.x} |-> IF i = Req.x THEN Req.y ELSE data[i]]
  /\ Answer("ok", 0)
  /\ UNCHANGED <<session, unlocked, seed, dtAddr, dtUpload, memory>>

Allowed == session = 2 /\ (SecMethod = 0 \/ unlocked)

Stored(a) == IF a \in DOMAIN memory THEN memory[a] ELSE 0
Store(a, v) == memory' = [i \in DOMAIN memory \cup {a} |-> IF i = a THEN v ELSE memory[i]]

RespondReadMemory ==
  /\ Incoming({"readMem"}) /\ Allowed
  /\ Answer("ok", Stored(Req.x))
  /\ UNCHANGED ecu

RespondWriteMemory ==
  /\ Incoming({"writeMem"}) /\ Allowed
  /\ Store(Req.x, Req.y) /\ Answer("ok", 0)
  /\ UNCHANGED <<session, unlocked, seed, dtAddr, dtUpload, data>>

(* Only data format 0.  A transfer that another request has begun is dropped.     *)
RespondRequestTransfer ==
  /\ Incoming({"download", "upload"}) /\ Allowed
  /\ IF Req.y = 0
     THEN dtAddr' = Req.x /\ dtUpload' = (Req.code = "upload") /\ Answer("ok", 0)
     ELSE UNCHANGED <<dtAddr, dtUpload>> /\ Answer("subFunction", 0)
  /\ UNCHANGED <<session, unlocked, seed, memory, data>>

BlockAtEnd(s) == dtAddr + s   \* mutant: blocks are counted from zero

(* Blocks are counted from one; block 0 lies before the address.                  *)
BlockAt(s) == dtAddr + s - 1

RespondTransfer ==
  /\ Incoming({"transfer"}) /\ Allowed
  /\ \/ dtAddr = NoAddress /\ Answer("subFunction", 0) /\ UNCHANGED memory
     \/ dtAddr # NoAddress /\ dtUpload /\ Answer("ok", Stored(BlockAt(Req.x))) /\ UNCHANGED memory
     \/ dtAddr # NoAddress /\ ~dtUpload /\ Answer("ok", 0) /\ Store(BlockAt(Req.x), Req.y)
  /\ UNCHANGED <<session, unlocked, seed, dtAddr, dtUpload, data>>

RespondExit ==
  /\ Incoming({"exit"}) /\ Allowed
  /\ dtAddr' = NoAddress
  /\ Answer(IF dtAddr = NoAddress THEN "subFunction" ELSE "ok", 0)
  /\ UNCHANGED <<session, unlocked, seed, dtUpload, memory, data>>

(* The catch-all.                                                               *)
RespondRefuse ==
  /\ \/ Incoming({"seed", "key"}) /\ (session = 0 \/ SecMethod = 0)
        /\ Answer(IF session = 0 THEN "conditions" ELSE "notSupported", 0)
     \/ Incoming(AnySession) /\ session = 0 /\ Answer("notSupported", 0)
     \/ Incoming(Programming) /\ ~Allowed /\ Answer("notSupported", 0)
  /\ UNCHANGED ecu

Respond ==
  \/ RespondSession \/ RespondSeed \/ RespondKey \/ RespondReset \/ RespondReadId \/ RespondWriteId
  \/ RespondReadMemory \/ RespondWriteMemory \/ RespondRequestTransfer \/ RespondTransfer
  \/ RespondExit \/ RespondRefuse

-----------------------------------------------------------------------------
(* The proxy.  The effects: pass everything on; BlockTransfer; BlockVINChange, whose *)
(* test compares text with bytes and is never true; and one that calls redirect().    *)
(* Over links of priority 1 everything goes to all of them.                         *)

(* Messages of eight bytes or more need a flow control, which only links of priority  *)
(* 1 carry (IsoTp): requests with an address, a block or the VIN, the answer with it.  *)
Whole(long) == Priority > 0 \/ ~long
LongRequest(req) ==
  \/ req.code \in {"readMem", "writeMem", "download", "upload"}
  \/ req.code = "transfer" /\ req.y # 0
  \/ req.code = "writeId" /\ req.x = VIN
LongAnswer(m) == m.code = "readId" /\ m.x = VIN /\ m.result = "ok"

Refused(req) == effect = "blockTransfer" /\ req.code \in {"download", "upload"}

(* redirect() looks up info['prev'], a set, in a dictionary: TypeError, whichever way  *)
(* the message goes.                                                               *)
Raises == effect = "redirect"

Pass ==
  /\ toProxy # <<>>
  /\ LET m == Head(toProxy) IN
       /\ ~Refused(m.req)
       /\ toEcu' = IF Whole(LongRequest(m.req)) /\ ~Raises THEN Append(toEcu, m) ELSE toEcu
  /\ toProxy' = Tail(toProxy)
  /\ UNCHANGED <<ecu, effect, answers, loader, bounds>>

-----------------------------------------------------------------------------
(* The testers.  The script of the loader: session, seed, key, download, the         *)
(* blocks, exit; upload, the blocks, exit.                                         *)
Download == 4
Upload == Download + Blocks + 2
Done == Upload + Blocks + 2

InTransfer(first, n) == n \in (first + 1)..(first + Blocks + 1)
BlockOf(first) == IF step > first + Blocks THEN 0 ELSE (step - first) % BlockMod

Script ==
  CASE step = 1 -> diagnostic_session_control(2)
    [] step = 2 -> SeedRequest
    [] step = 3 -> KeyRequest(key)
    [] step \in {Download, Upload} -> request_transfer(Base, step = Upload)
    [] InTransfer(Download, step) -> transfer_block(BlockOf(Download), step - Download)
    [] InTransfer(Upload, step) -> transfer_block(BlockOf(Upload), 0)

Submit(from, req) == toProxy' = Append(toProxy, [from |-> from, req |-> req])

Ask ==
  /\ ~waiting /\ step < Done
  /\ waiting' = TRUE /\ Submit(Loader, Script)
  /\ UNCHANGED <<ecu, effect, toEcu, answers, step, key, read, bounds>>

UnderWay ==
  \/ \E i \in DOMAIN toProxy : toProxy[i].from = Loader
  \/ \E i \in DOMAIN toEcu : toEcu[i].from = Loader
  \/ \E i \in DOMAIN answers : answers[i].to = Loader

(* It asks again when nothing is under way any more ...                             *)
AskAgain ==
  /\ waiting /\ ~UnderWay
  /\ Submit(Loader, Script)
  /\ UNCHANGED <<ecu, effect, toEcu, answers, loader, bounds>>

(* ... or too early.                                                              *)
AskTwice ==
  /\ waiting /\ UnderWay /\ repeated < MaxRepeats
  /\ repeated' = repeated + 1
  /\ Submit(Loader, Script)
  /\ UNCHANGED <<ecu, effect, toEcu, answers, loader, wished, lost>>

Wish(t, req) ==
  /\ t # Loader /\ wished < MaxWishes
  /\ wished' = wished + 1
  /\ Submit(t, req)
  /\ UNCHANGED <<ecu, effect, toEcu, answers, loader, repeated, lost>>

(* The answer moves the loader on; a seed of zero means that no key is needed, as     *)
(* does a responder without keys.  After a wrong key it asks for another seed,        *)
(* refused otherwise it begins again.                                              *)
Hear(a) ==
  LET mine == waiting /\ a.code = Script.code /\ a.x = Script.x IN
  /\ waiting' = (waiting /\ ~mine)
  /\ step' = IF ~mine THEN step
             ELSE IF step = 2 /\ (a.result = "notSupported" \/ (a.result = "ok" /\ a.y = 0))
             THEN Download
             ELSE IF a.result = "ok" THEN step + 1
             ELSE IF step = 3 THEN 2 ELSE 1
  /\ key' = IF mine /\ step = 2 /\ a.result = "ok" THEN Check(a.y) % KeyMod ELSE key
  /\ read' = IF mine /\ step \in (Upload + 1)..(Upload + Blocks) THEN Append(read, a.y)
             ELSE IF step' <= Upload THEN <<>> ELSE read

(* An answer passes the proxy and is seen on the interfaces it is sent to; a tester   *)
(* looks only at what is addressed to it.                                           *)
PassBack ==
  /\ answers # <<>>
  /\ answers' = Tail(answers)
  /\ IF Head(answers).to = Loader /\ Whole(LongAnswer(Head(answers))) /\ ~Raises
     THEN Hear(Head(answers))
     ELSE UNCHANGED loader
  /\ UNCHANGED <<ecu, effect, toProxy, toEcu, bounds>>

(* respond(): the proxy answers itself, with dispatch = info['prev'], which only links *)
(* of priority 1 look over; over the others it does not get the request to begin with.   *)
PassRefused ==
  /\ toProxy # <<>> /\ Refused(Head(toProxy).req)
  /\ toProxy' = Tail(toProxy)
  /\ LET m == Head(toProxy) IN
       IF m.from = Loader /\ Priority > 0
       THEN Hear([to |-> m.from, code |-> m.req.code, x |-> m.req.x, y |-> 0, result |-> "subFunction"])
       ELSE UNCHANGED loader
  /\ UNCHANGED <<ecu, effect, toEcu, answers, bounds>>

Lose ==
  /\ lost < MaxLost /\ lost' = lost + 1
  /\ \/ toEcu # <<>> /\ toEcu' = Tail(toEcu) /\ UNCHANGED <<toProxy, answers>>
     \/ answers # <<>> /\ answers' = Tail(answers) /\ UNCHANGED <<toProxy, toEcu>>
  /\ UNCHANGED <<ecu, effect, loader, wished, repeated>>

-----------------------------------------------------------------------------
System == Respond \/ Pass \/ PassBack \/ PassRefused
Testing == Ask \/ AskAgain

Next ==
  \/ System \/ Testing \/ AskTwice \/ Lose
  \/ \E t \in Testers, req \in Wishes : Wish(t, req)

Spec == Init /\ [][Next]_vars

(* Plugins handle what arrives; the loader does not give up.                         *)
FairSpec == Spec /\ WF_vars(System) /\ WF_vars(Testing)
-----------------------------------------------------------------------------
(* A key opens the ECU once, in a session: while the ECU is unlocked no seed is       *)
(* open that a key could be tried on, and outside a session it is locked and has      *)
(* no seed.                                                                        *)
Access ==
  /\ unlocked => session # 0 /\ seed = NoSeed
  /\ seed \in Seeds => session # 0

(* However many requests were lost or repeated, and whatever else the ECU was asked    *)
(* in between: a download that was confirmed is in memory, nothing else is, and an      *)
(* upload reads it back.                                                          *)
DownloadIntact ==
  /\ DOMAIN memory \subseteq Base..(Base + Blocks - 1)
  /\ step >= Upload => \A s \in 1..Blocks : Stored(Base + s - 1) = s
  /\ step = Done => read = [s \in 1..Blocks |-> s]

(* BlockTransfer: no transfer ever begins behind it.                                 *)
TransfersBlocked == effect = "blockTransfer" => dtAddr = NoAddress /\ step <= Download

(* A download comes to its end, over links of priority 1, unless the proxy forbids it  *)
(* or redirects it.                                                                *)
DownloadCompletes == effect \notin {"blockTransfer", "redirect"} => <>(step = Done)

(* "redirect message, redirect responses back to source".                              *)
RedirectCompletes == effect = "redirect" => <>(step = Done)

(* BlockVINChange: "don't allow VIN change".                                          *)
VinKept == effect = "blockVIN" => data[VIN] = 0
=============================================================================
