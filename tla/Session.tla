------------------------------ MODULE Session ------------------------------
(***************************************************************************)
(* session.h and the parts of presentation.h it calls: the session state   *)
(* machine of the file sender (TX, the server) and of the file receiver    *)
(* (RX, the client), joined by the network of module Gateway.              *)
(*                                                                         *)
(*    RX            TX                                                     *)
(*    open  --Hello--> open        Hello: type PAYLD, empty                *)
(*    setup <---Hi---- setup       Hi:    CTRL, the server's addresses     *)
(*    connected -ACK-> connected   ACK:   CTRL, addresses, window size     *)
(*    closed <--data-- closed      up to WIN_SIZ payload capsules          *)
(*    done  ----OK---> done        OK:    CTRL, then closed again, or the  *)
(*                                 session returns once fin is set         *)
(*                                                                         *)
(* One action is one call of a state handler, except that closedState,     *)
(* a loop, takes one step per submitTask and one to leave the loop.        *)
(***************************************************************************)
EXTENDS Gateway

CONSTANTS
  WIN_SIZ,    \* capsules per window (5)
  FileSizes,  \* sizes of the file the server may be started with
  CanFail     \* may a socket call of a process fail?

ASSUME SessionAssumption ==
  /\ WIN_SIZ \in 1..15              \* it must fit the 4-bit capWinSiz
  /\ FileSizes \subseteq Nat \ {0}  \* main starts no transfer of an empty file
  /\ CanFail \in BOOLEAN

VARIABLES
  fileSize,         \* DataSource::fileSize of the server's file
  ses,              \* [Dir -> SessionState]: Session, its processor, the process
  conns,            \* [Dir -> [0..1 -> Connection]]: Session::connections
  txFactory,        \* [Dir -> TxFactory]
  rxFactory,        \* [Dir -> RxFactory]
  rxcurrentWindow,  \* [Dir -> SUBSET MemBuff], a map keyed by cap.capid
  hdrid,            \* [Dir -> Nat]: chunks makeChunkforRx has allocated
  sink              \* Seq(Chunk): what the client has written to its file

sessionVars ==
  <<fileSize, ses, conns, txFactory, rxFactory, rxcurrentWindow, hdrid, sink>>
vars == <<gatewayVars, sessionVars>>

(* The states start() runs through; inq, send and recv are never set. *)
StateCodes == {"open", "setup", "connected", "closed", "done"}

Connection == [id : Nat, src : Nat, dst : Nat]
NoConnection == [id |-> 0, src |-> 0, dst |-> 0]

Capsule ==
  [n       : Nat,                \* capsuleId before it is cut to 16 bits
   copy    : Nat,                \* 0, or the number of the duplicate
   from    : Sender,             \* the source address of the datagram
   capType : {"CTRL", "PAYLD"},  \* PIGGY and INQ are never sent
   capid   : 0..(CapMod - 1),
   conn    : Connection,         \* srcid, destid and connid
   win     : 0..15,              \* capWinSiz
   fin     : BOOLEAN,            \* flag FIN of capFlags
   addrs   : Seq(Addr),          \* body of a CTRL capsule
   data    : Chunk]              \* body of a PAYLD capsule

MemBuff == [hid : Nat, cap : Capsule]

SessionState ==
  [proc      : {"alive", "NULL buffer", "io error", "SIGFPE"},
   next      : StateCodes,
   complete  : BOOLEAN,
   winSize   : Nat,
   capsuleId : Nat]

TxFactory ==
  [buffer : Seq(Chunk), fin : BOOLEAN, curSize : Int, chunkSize : Nat, pos : Nat]

RxFactory == [buffer : Seq(MemBuff), fin : BOOLEAN]

PeerList == [known : BOOLEAN, list : Seq(Addr \cup {Garbage}), count : Nat]

-----------------------------------------------------------------------------
(* Session::start: the handler of next runs until next is connected with   *)
(* complete set.                                                           *)
Returned(d) == ses[d].next = "connected" /\ ses[d].complete
At(d, code) == ses[d].proc = "alive" /\ ses[d].next = code /\ ~Returned(d)

(* openState files its connection under connection_count++, and every      *)
(* handler then uses connections[connection_count].                        *)
openedConn == 0
currentConn == 1

(* The static counters of genSrcId and genConnId, each drawn once. *)
genSrcId == 1

genConnId == 1

(* Mutant: the flags are copied from the parameters, where they are 0 (the *)
(* assignment commented out in setCapParams), over the FIN set before.     *)
NewCapsuleFlagsCopied(d, capType, conn, win, fin, addrs, data) ==
  [n |-> ses[d].capsuleId, copy |-> 0, from |-> "peer", capType |-> capType,
   capid |-> ses[d].capsuleId % CapMod, conn |-> conn,
   win |-> win % 16, fin |-> FALSE, addrs |-> addrs, data |-> data]

(* Mutant: capid is kept in a field too narrow for a window. *)
NewCapsuleNarrow(d, capType, conn, win, fin, addrs, data) ==
  [n |-> ses[d].capsuleId, copy |-> 0, from |-> "peer", capType |-> capType,
   capid |-> ses[d].capsuleId % 2, conn |-> conn,
   win |-> win % 16, fin |-> fin, addrs |-> addrs, data |-> data]

(* Mutant: capWinSiz is left as in the parameters, where it is 0. *)
NewCapsuleNoWindow(d, capType, conn, win, fin, addrs, data) ==
  [n |-> ses[d].capsuleId, copy |-> 0, from |-> "peer", capType |-> capType,
   capid |-> ses[d].capsuleId % CapMod, conn |-> conn,
   win |-> 0, fin |-> fin, addrs |-> addrs, data |-> data]

(* setCapParams on a capsule of a connection: header and body together. *)
NewCapsule(d, capType, conn, win, fin, addrs, data) ==
  [n |-> ses[d].capsuleId, copy |-> 0, from |-> "peer", capType |-> capType,
   capid |-> ses[d].capsuleId % CapMod, conn |-> conn,
   win |-> win % 16, fin |-> fin, addrs |-> addrs, data |-> data]

(* setCapParams uses up a capsule number. *)
Numbered(s) == [s EXCEPT !.capsuleId = @ + 1]

(* The chunk pull allocates, filled by recvfrom. *)
NewBuff(d, m) == [hid |-> hdrid[d], cap |-> m]

(* Mutant: the chunk of the slot before is popped (the try_pop commented   *)
(* out in submitTask).                                                     *)
PushedAndFreed(d, m) == <<NewBuff(d, m)>>

Pushed(d, m) == Append(rxFactory[d].buffer, NewBuff(d, m))

(* std::map assignment: a buffer replaces the one with the same key. *)
WindowPut(W, b) == {x \in W : x.cap.capid # b.cap.capid} \cup {b}

(* receiveState outside open: a payload is filed in the window. *)
Windowed(d, m) ==
  IF m.capType = "PAYLD"
    THEN WindowPut(rxcurrentWindow[d], NewBuff(d, m))
    ELSE rxcurrentWindow[d]

(* rbegin() of the window. *)
Highest(W) == CHOOSE b \in W : \A x \in W : x.cap.capid <= b.cap.capid

(* Mutant: the buffer is not popped. *)
NewBufferKept(d) ==
  /\ txFactory' = [txFactory EXCEPT ![d].buffer = Append(@, NoData)]
  /\ hdrid' = [hdrid EXCEPT ![d] = @ + 1]

(* compositor->newBuffer(TX) followed by try_pop. *)
NewBufferPopped(d) ==
  /\ txFactory' = [txFactory EXCEPT ![d].buffer = Tail(Append(@, NoData))]
  /\ hdrid' = [hdrid EXCEPT ![d] = @ + 1]

(* receiveState followed by try_pop: the handler goes on with the capsule  *)
(* at the head of the queue.                                               *)
PullPopped(d, m) ==
  /\ TakeCapsule(d, m)
  /\ rxFactory' = [rxFactory EXCEPT ![d].buffer = Tail(Pushed(d, m))]
  /\ hdrid' = [hdrid EXCEPT ![d] = @ + 1]

HeadCapsule(d, m) == Head(Pushed(d, m)).cap

(* Mutant: the decrement of winSize loses its guard. *)
SlotUsedUnguarded(s, fin) == [s EXCEPT !.winSize = (IF fin THEN 0 ELSE @) - 1]

(* What a pass of the loop of closedState does to winSize: submitTask sets *)
(* it to 0 at the end of the file, else it is decremented.                 *)
SlotUsed(s, fin) == [s EXCEPT !.winSize = IF fin THEN 0 ELSE @ - 1]

(* Mutant: the next window is one capsule larger. *)
LeaveDoneLarger(s, fin) ==
  [s EXCEPT !.complete = TRUE,
            !.winSize = IF fin THEN @ ELSE WIN_SIZ + 1,
            !.next = IF fin THEN "connected" ELSE "closed"]

(* Mutant: another window follows the last one. *)
LeaveDoneOpen(s, fin) ==
  [s EXCEPT !.complete = TRUE, !.winSize = WIN_SIZ, !.next = "closed"]

(* The end of doneState and the loop condition of start. *)
LeaveDone(s, fin) ==
  [s EXCEPT !.complete = TRUE,
            !.winSize = IF fin THEN @ ELSE WIN_SIZ,
            !.next = IF fin THEN "connected" ELSE "closed"]

-----------------------------------------------------------------------------
(* openState.  The server waits for a Hello (gateway->receive, which does  *)
(* not touch the window); the client sends one.                            *)
openStateTX ==
  /\ At(TX, "open")
  /\ \E m \in net[TX] :
       /\ PullPopped(TX, m)
       /\ conns' = [conns EXCEPT ![TX] =
                      [@ EXCEPT ![openedConn] = [NoConnection EXCEPT !.src = genSrcId],
                                ![currentConn].dst = HeadCapsule(TX, m).conn.src]]
  /\ ses' = [ses EXCEPT ![TX].next = "setup"]
  /\ UNCHANGED <<addressList, peers, dups, strays, fileSize, txFactory, rxcurrentWindow, sink>>

openStateRX ==
  /\ At(RX, "open")
  /\ NewBufferPopped(RX)
  /\ conns' = [conns EXCEPT ![RX][openedConn] = [NoConnection EXCEPT !.src = genSrcId]]
  /\ SendCapsule(RX, NewCapsule(RX, "PAYLD", conns[RX][currentConn], 0, FALSE, <<>>, NoData))
  /\ ses' = [ses EXCEPT ![RX] = Numbered([@ EXCEPT !.next = "setup"])]
  /\ UNCHANGED <<addressList, peers, dups, strays, fileSize, rxFactory, rxcurrentWindow, sink>>

(* setupState.  The server answers with its addresses; the client records  *)
(* them.                                                                   *)
setupStateTX ==
  /\ At(TX, "setup")
  /\ NewBufferPopped(TX)
  /\ SendCapsule(TX, NewCapsule(TX, "CTRL", conns[TX][currentConn], 0, FALSE,
                                addressList[TX], NoData))
  /\ ses' = [ses EXCEPT ![TX] = Numbered([@ EXCEPT !.next = "connected"])]
  /\ UNCHANGED <<addressList, peers, dups, strays, fileSize, conns, rxFactory,
                 rxcurrentWindow, sink>>

setupStateRX ==
  /\ At(RX, "setup")
  /\ \E m \in net[RX] :
       /\ PullPopped(RX, m)
       /\ rxcurrentWindow' = [rxcurrentWindow EXCEPT ![RX] = Windowed(RX, m)]
       /\ peers' = [peers EXCEPT ![RX] = DecodePeers(HeadCapsule(RX, m).addrs)]
       /\ conns' = [conns EXCEPT ![RX][currentConn].dst = HeadCapsule(RX, m).conn.src]
  /\ ses' = [ses EXCEPT ![RX].next = "connected"]
  /\ UNCHANGED <<addressList, dups, strays, fileSize, txFactory, sink>>

(* connectedState.  The server takes the window size, the addresses and    *)
(* the connection id from the ACK; the client chooses and sends them.      *)
connectedStateTX ==
  /\ At(TX, "connected")
  /\ \E m \in net[TX] :
       /\ PullPopped(TX, m)
       /\ rxcurrentWindow' = [rxcurrentWindow EXCEPT ![TX] = Windowed(TX, m)]
       /\ peers' = [peers EXCEPT ![TX] = DecodePeers(HeadCapsule(TX, m).addrs)]
       /\ conns' = [conns EXCEPT ![TX][currentConn].id = HeadCapsule(TX, m).conn.id]
       /\ ses' = [ses EXCEPT ![TX] = [@ EXCEPT !.next = "closed",
                                               !.winSize = HeadCapsule(TX, m).win]]
  /\ UNCHANGED <<addressList, dups, strays, fileSize, txFactory, sink>>

connectedStateRX ==
  /\ At(RX, "connected")
  /\ conns' = [conns EXCEPT ![RX][currentConn].id = genConnId]
  /\ NewBufferPopped(RX)
  /\ SendCapsule(RX, NewCapsule(RX, "CTRL", conns'[RX][currentConn], WIN_SIZ, FALSE,
                                addressList[RX], NoData))
  /\ ses' = [ses EXCEPT ![RX] = Numbered([@ EXCEPT !.next = "closed",
                                                   !.winSize = WIN_SIZ])]
  /\ UNCHANGED <<addressList, peers, dups, strays, fileSize, rxFactory, rxcurrentWindow, sink>>

(* closedState of the server, one submitTask: read a chunk of the file,    *)
(* flag it FIN if it is the last one, send it.                             *)
closedStateTX ==
  LET f == InputFromSource(txFactory[TX], fileSize)
      last == f.fin /\ Len(f.buffer) = 1
  IN  /\ At(TX, "closed")
      /\ ses[TX].winSize > 0
      /\ f.buffer # <<>>
      /\ txFactory' = [txFactory EXCEPT ![TX] = [f EXCEPT !.buffer = Tail(@)]]
      /\ SendCapsule(TX, NewCapsule(TX, "PAYLD", conns[TX][currentConn], 0, last,
                                    <<>>, Head(f.buffer)))
      /\ ses' = [ses EXCEPT ![TX] = Numbered(SlotUsed(@, last))]
      /\ UNCHANGED <<addressList, peers, dups, strays, fileSize, conns, rxFactory,
                     rxcurrentWindow, hdrid, sink>>

(* fetchChunk finds the buffer empty: "Buffer is NULL", exit(1). *)
bufferIsNull ==
  /\ At(TX, "closed")
  /\ ses[TX].winSize > 0
  /\ InputFromSource(txFactory[TX], fileSize).buffer = <<>>
  /\ ses' = [ses EXCEPT ![TX].proc = "NULL buffer"]
  /\ UNCHANGED <<gatewayVars, fileSize, conns, txFactory, rxFactory,
                 rxcurrentWindow, hdrid, sink>>

(* closedState of the client, one submitTask: receive a capsule, keep it   *)
(* in the queue, look at the highest capsule of the window for FIN.  With  *)
(* an empty window ("Buffer not found") only the slot is used up.          *)
closedStateRX ==
  /\ At(RX, "closed")
  /\ ses[RX].winSize > 0
  /\ \E m \in net[RX] :
       LET W == Windowed(RX, m)
           fin == rxFactory[RX].fin \/ (W # {} /\ Highest(W).cap.fin)
       IN  /\ TakeCapsule(RX, m)
           /\ rxFactory' = [rxFactory EXCEPT ![RX].buffer = Pushed(RX, m), ![RX].fin = fin]
           /\ rxcurrentWindow' = [rxcurrentWindow EXCEPT ![RX] = W]
           /\ ses' = [ses EXCEPT ![RX] = SlotUsed(@, W # {} /\ fin)]
  /\ hdrid' = [hdrid EXCEPT ![RX] = @ + 1]
  /\ UNCHANGED <<addressList, peers, dups, strays, fileSize, conns, txFactory, sink>>

(* closedState leaves its loop.  Nothing is ever submitted to the worker   *)
(* pool, so workersDone() holds at once.                                   *)
closedStateExit(d) ==
  /\ At(d, "closed")
  /\ ses[d].winSize = 0
  /\ ses' = [ses EXCEPT ![d].next = "done"]
  /\ UNCHANGED <<gatewayVars, fileSize, conns, txFactory, rxFactory,
                 rxcurrentWindow, hdrid, sink>>

(* doneState.  The server waits for a capsule, any capsule, as the OK. *)
doneStateTX ==
  /\ At(TX, "done")
  /\ \E m \in net[TX] :
       /\ PullPopped(TX, m)
       /\ rxcurrentWindow' = [rxcurrentWindow EXCEPT ![TX] = Windowed(TX, m)]
  /\ ses' = [ses EXCEPT ![TX] = LeaveDone(@, txFactory[TX].fin)]
  /\ UNCHANGED <<addressList, peers, dups, strays, fileSize, conns, txFactory, sink>>

(* The client writes the window to its file, drops as many chunks from the *)
(* queue as the window held, and sends the OK.  newBuffer(TX) is not       *)
(* popped here.  FIN in the parameters is not copied to the capsule.       *)
doneStateRX ==
  LET W == rxcurrentWindow[RX]
      q == rxFactory[RX].buffer
  IN  /\ At(RX, "done")
      /\ sink' = WriteWindow(sink, W)
      /\ txFactory' = [txFactory EXCEPT ![RX].buffer = Append(@, NoData)]
      /\ hdrid' = [hdrid EXCEPT ![RX] = @ + 1]
      /\ rxFactory' = [rxFactory EXCEPT ![RX].buffer = SubSeq(q, Cardinality(W) + 1, Len(q))]
      /\ rxcurrentWindow' = [rxcurrentWindow EXCEPT ![RX] = {}]
      /\ SendCapsule(RX, NewCapsule(RX, "CTRL", conns[RX][currentConn], WIN_SIZ, FALSE,
                                    <<>>, NoData))
      /\ ses' = [ses EXCEPT ![RX] = Numbered(LeaveDone(@, rxFactory[RX].fin))]
      /\ UNCHANGED <<addressList, peers, dups, strays, fileSize, conns>>

-----------------------------------------------------------------------------
(* selectAddrFromList with a list and a count of 0: an integer division by *)
(* zero kills the process (on the platforms the Makefile builds for).      *)
SendsNext(d) ==
  \/ d = RX /\ \E code \in {"open", "connected", "done"} : At(RX, code)
  \/ d = TX /\ At(TX, "setup")
  \/ /\ d = TX /\ At(TX, "closed") /\ ses[TX].winSize > 0
     /\ InputFromSource(txFactory[TX], fileSize).buffer # <<>>

divideByZero(d) ==
  /\ SendsNext(d)
  /\ ~Selectable(d)
  /\ ses' = [ses EXCEPT ![d].proc = "SIGFPE"]
  /\ UNCHANGED <<gatewayVars, fileSize, conns, txFactory, rxFactory,
                 rxcurrentWindow, hdrid, sink>>

(* recvfrom fails, or a sendto of the server does: exit(EXIT_FAILURE).  A  *)
(* sendto of the client that fails is only reported; the capsule is lost.  *)
ReceivesNext(d) ==
  \/ d = TX /\ \E code \in {"open", "connected", "done"} : At(TX, code)
  \/ d = RX /\ At(RX, "setup")
  \/ d = RX /\ At(RX, "closed") /\ ses[RX].winSize > 0

ioError(d) ==
  /\ CanFail
  /\ ReceivesNext(d) \/ (d = TX /\ SendsNext(TX) /\ Selectable(TX))
  /\ ses' = [ses EXCEPT ![d].proc = "io error"]
  /\ UNCHANGED <<gatewayVars, fileSize, conns, txFactory, rxFactory,
                 rxcurrentWindow, hdrid, sink>>

-----------------------------------------------------------------------------
Init ==
  /\ fileSize \in FileSizes
  /\ addressList \in [Dir -> InterfaceLists]
  /\ peers = [d \in Dir |-> NoPeers]
  /\ rot = [d \in Dir |-> 0]
  /\ net = [d \in Dir |-> {}]
  /\ peer_addr = [d \in Dir |-> "peer"]
  /\ lost = 0 /\ dups = 0 /\ strays = 0
  /\ ses = [d \in Dir |-> [proc |-> "alive", next |-> "open", complete |-> FALSE,
                           winSize |-> 0, capsuleId |-> 0]]
  /\ conns = [d \in Dir |-> [i \in 0..1 |-> NoConnection]]
  /\ txFactory = [d \in Dir |-> NewTxFactory]
  /\ rxFactory = [d \in Dir |-> NewRxFactory]
  /\ rxcurrentWindow = [d \in Dir |-> {}]
  /\ hdrid = [d \in Dir |-> 0]
  /\ sink = <<>>

Server ==
  \/ openStateTX \/ setupStateTX \/ connectedStateTX \/ closedStateTX
  \/ bufferIsNull \/ closedStateExit(TX) \/ doneStateTX
  \/ divideByZero(TX) \/ ioError(TX)

Client ==
  \/ openStateRX \/ setupStateRX \/ connectedStateRX \/ closedStateRX
  \/ closedStateExit(RX) \/ doneStateRX
  \/ divideByZero(RX) \/ ioError(RX)

(* The Hello of a second client, as openStateRX sends it. *)
StrayHello(n) ==
  [n |-> n, copy |-> 0, from |-> "stranger", capType |-> "PAYLD", capid |-> 0,
   conn |-> NoConnection, win |-> 0, fin |-> FALSE, addrs |-> <<>>, data |-> NoData]

Network ==
  (Lose \/ Duplicate \/ Stray(StrayHello(strays))) /\ UNCHANGED sessionVars

Stopped(d) == Returned(d) \/ ses[d].proc # "alive"

(* Both processes have ended. *)
Terminated == Stopped(TX) /\ Stopped(RX) /\ UNCHANGED vars

Next == Server \/ Client \/ Network \/ Terminated

Spec == Init /\ [][Next]_vars

(* The operating system runs a process that can take a step, and hands it  *)
(* a datagram that has arrived.                                            *)
FairSpec == Spec /\ WF_vars(Server) /\ WF_vars(Client)

-----------------------------------------------------------------------------
TypeOK ==
  /\ fileSize \in FileSizes
  /\ addressList \in [Dir -> InterfaceLists]
  /\ peers \in [Dir -> PeerList]
  /\ rot \in [Dir -> Nat]
  /\ net \in [Dir -> SUBSET Capsule]
  /\ peer_addr \in [Dir -> Sender]
  /\ lost \in Nat /\ dups \in Nat /\ strays \in Nat
  /\ ses \in [Dir -> SessionState]
  /\ conns \in [Dir -> [0..1 -> Connection]]
  /\ txFactory \in [Dir -> TxFactory]
  /\ rxFactory \in [Dir -> RxFactory]
  /\ rxcurrentWindow \in [Dir -> SUBSET MemBuff]
  /\ hdrid \in [Dir -> Nat]
  /\ sink \in Seq(Chunk)

(* Every chunk of s begins at the byte where the one before it ended. *)
EndOf(s, i) == IF i = 0 THEN 0 ELSE s[i].off + s[i].len
InSequence(s) == \A i \in 1..Len(s) : s[i].off = EndOf(s, i - 1)

(* Until a FIN arrives, the client's file is an exact prefix of the        *)
(* server's: sorting the window by capid undoes any reordering, and a      *)
(* window with a capsule missing is never written.                         *)
IntactPrefix == ~rxFactory[RX].fin => InSequence(sink)

(* So far no datagram was repeated and nobody but the client has spoken to *)
(* the server.                                                             *)
Undisturbed == dups = 0 /\ strays = 0

(* When the client's session returns, its file is the whole file. *)
WholeFileOnReturn ==
  Returned(RX) => InSequence(sink) /\ EndOf(sink, Len(sink)) = fileSize

(* Whatever is lost, repeated or overtaken, a client that returns has      *)
(* written the last byte of the server's file, and written it last: FIN is *)
(* seen only on the highest payload of a window, and that window is still  *)
(* written.                                                                *)
EndsWithLastByte ==
  Returned(RX) => EndOf(sink, Len(sink)) = fileSize

(* Flow control: the payloads under way and those the client holds         *)
(* unwritten never exceed one window, since the server waits for the OK.   *)
OneWindowOutstanding ==
  Cardinality({m \in net[RX] : m.capType = "PAYLD"})
    + Cardinality(rxcurrentWindow[RX]) <= WIN_SIZ

(* FIN is set on no capsule but the one that ends the file. *)
FinOnlyOnLast ==
  \A m \in net[RX] : m.fin => m.data.off + m.data.len = fileSize

(* The raw memBuff pointers of the client's window point to chunks that    *)
(* the queue still owns: no handler frees a chunk the window refers to.    *)
NoDangling ==
  \A b \in rxcurrentWindow[RX] :
    \E i \in 1..Len(rxFactory[RX].buffer) : rxFactory[RX].buffer[i] = b

(* After the handshake the addresses an end rotates over are exactly the   *)
(* peer's addresses without the loopback one; the entry read past the end  *)
(* of the list is never among them.                                        *)
PeerListExact ==
  \A d \in Dir : peers[d].known =>
    {peers[d].list[i] : i \in 1..peers[d].count}
      = {addressList[Peer(d)][i] : i \in 1..Len(addressList[Peer(d)])} \ {Lo}

(* When the server sends data, both ends hold the same valid connection    *)
(* id and go by the same window: they start with windows of one size, and  *)
(* as long as the server has slots of a window left, these and the         *)
(* payloads under way are never more than the slots the client still has   *)
(* to fill, and exactly as many if no capsule was lost.                    *)
HandshakeAgreed ==
  At(TX, "closed") =>
    /\ conns[TX][currentConn].id = conns[RX][currentConn].id
    /\ conns[TX][currentConn].id # 0
    /\ txFactory[TX].pos = 0 => \A d \in Dir : ses[d].winSize = WIN_SIZ
    /\ ses[TX].winSize > 0 =>
         LET slots == ses[TX].winSize + Cardinality({m \in net[RX] : m.capType = "PAYLD"})
         IN  slots <= ses[RX].winSize /\ (lost = 0 => slots = ses[RX].winSize)

(* Every process that still runs waits for a datagram, and none is under way. *)
Blocked(d) == ReceivesNext(d) /\ net[d] = {}
Stalled ==
  /\ \A d \in Dir : Stopped(d) \/ Blocked(d)
  /\ \E d \in Dir : Blocked(d)

(* The window is keyed by the 16-bit capid: among the payloads under way   *)
(* and those in the client's window the order of the keys is the order of  *)
(* sending, because the int curSize ends a transfer before capid wraps.    *)
Payloads ==
  {m \in net[RX] : m.capType = "PAYLD"} \cup {b.cap : b \in rxcurrentWindow[RX]}
KeysInSendOrder ==
  \A m, x \in Payloads : m.n < x.n => m.capid < x.capid

(* The buffers doneState allocates and never pops stay below one for every *)
(* window of the file: no handler but doneState leaves one behind.         *)
WindowsOf(size) == size \div (WIN_SIZ * (CHUNK - HEADER_SPACE)) + 1
BacklogPerWindow == Len(txFactory[RX].buffer) <= WindowsOf(fileSize)

(* There is no timer and no retransmission, so a lost capsule may leave    *)
(* both ends waiting for ever.  Without a loss and without a process that  *)
(* dies this cannot happen.                                                *)
NoStallWithoutFault ==
  Stalled => lost > 0 \/ \E d \in Dir : ses[d].proc # "alive"

(* A duplicated capsule may be written twice, and a second client may be   *)
(* taken for the first, but the client's file gets a hole only when a      *)
(* capsule reached no end.                                                 *)
NoHole ==
  lost = 0 => \A i \in 1..Len(sink) : sink[i].off <= EndOf(sink, i - 1)

(* Both sessions end. *)
Termination == <>(Returned(TX) /\ Returned(RX))

-----------------------------------------------------------------------------
(* What the comments of the code say and the code does not do. *)

(* "FIN - Last Buffer of Last Window has been sent" (datafactory.h:20). *)
LastCarriesFin ==
  \A m \in net[RX] :
    m.capType = "PAYLD" /\ m.data.off + m.data.len = fileSize => m.fin

(* "OK - Window received was intact" (datafactory.h:24). *)
OkMeansIntact ==
  (\E m \in net[TX] : m.capType = "CTRL" /\ m.addrs = <<>>) => InSequence(sink)

(* "the srcid is generated for the first capsule that was sent i.e the     *)
(* open state capsule" (session.h:97).                                     *)
SrcIdGenerated ==
  \A d \in Dir : \A m \in net[d] : m.conn.src = genSrcId

(* "remove the loopback address if the peer is not the host"               *)
(* (session.h:180): a peer with no other address is the host.              *)
LoopbackKeptOnHost ==
  \A d \in Dir :
    peers[d].known /\ addressList[Peer(d)] = <<Lo>> => peers[d].count = 1

(* "A Window sent on a connection must be ACKed on the same connection"    *)
(* (session.h:474): the server goes on once its client has the window.     *)
WindowAcked ==
  At(TX, "closed") =>
    txFactory[TX].pos
      <= EndOf(sink, Len(sink)) + WIN_SIZ * (CHUNK - HEADER_SPACE)
=============================================================================
