--------------------------- MODULE SessionProofs ---------------------------
(***************************************************************************)
(* Theorems about Session that hold for every file size, window size,      *)
(* interface list and amount of loss, duplication and reordering.          *)
(***************************************************************************)
EXTENDS Session, FiniteSetTheorems, SequenceTheorems, TLAPS

(* A window is a std::map: finitely many buffers, one per key. *)
Keyed(W) ==
  /\ IsFiniteSet(W)
  /\ \A b, c \in W : b.cap.capid = c.cap.capid => b = c

WindowsKeyed == \A d \in Dir : Keyed(rxcurrentWindow[d])

(* The server's source between two handlers: nothing is left in its        *)
(* buffer, the read position is within the file and fin is only set there  *)
(* once the end has been read.                                             *)
SourceOK ==
  LET f == txFactory[TX]
  IN  /\ f.buffer = <<>>
      /\ f.pos <= fileSize
      /\ HEADER_SPACE <= f.chunkSize
      /\ f.fin => f.pos = fileSize

-----------------------------------------------------------------------------
(* Walking the window (presentation.h:41) reaches a buffer at every        *)
(* position: some buffer has exactly i keys at or below its own.  Were     *)
(* there none, the ranks would put the n buffers into n - 1 places.        *)
LEMMA RankExists ==
  ASSUME NEW W \in SUBSET MemBuff, Keyed(W), NEW i \in 1..Cardinality(W)
  PROVE  \E b \in W : Rank(W, b) = i
<1> DEFINE n == Cardinality(W)
           f == [b \in W |-> Rank(W, b)]
<1>1. n \in Nat /\ IsFiniteSet(W)
  BY FS_CardinalityType DEF Keyed
<1>2. SUFFICES ASSUME \A b \in W : Rank(W, b) # i PROVE FALSE
  OBVIOUS
<1>3. \A b \in W : b.cap.capid \in Nat
  <2>1. \A b \in W : b.cap.capid \in 0..(CapMod - 1)
    BY DEF MemBuff, Capsule
  <2> QED BY <2>1
<1>4. ASSUME NEW b \in W PROVE Rank(W, b) \in (1..n) \ {i}
  <2> DEFINE B == {x \in W : x.cap.capid <= b.cap.capid}
  <2>1. IsFiniteSet(B) /\ Cardinality(B) <= n
    BY <1>1, FS_Subset
  <2>2. b \in B
    BY <1>3
  <2>3. Cardinality(B) \in Nat /\ Cardinality(B) # 0
    BY <2>1, <2>2, FS_CardinalityType, FS_EmptySet
  <2> QED BY <1>1, <1>2, <2>1, <2>3 DEF Rank
<1>5. IsFiniteSet((1..n) \ {i}) /\ Cardinality((1..n) \ {i}) = n - 1
  <2>1. IsFiniteSet(1..n) /\ Cardinality(1..n) = n
    BY <1>1, FS_Interval
  <2> HIDE DEF n
  <2> QED BY <2>1, FS_RemoveElement DEF n
<1>6. f \in [W -> (1..n) \ {i}]
  BY <1>4
<1>7. PICK b \in W, c \in W : b # c /\ f[b] = f[c]
  <2> HIDE DEF f, n
  <2>1. n - 1 < n
    BY <1>1
  <2>2. Cardinality((1..n) \ {i}) < Cardinality(W)
    BY <1>5, <2>1 DEF n
  <2> QED BY <1>1, <1>5, <1>6, <2>2, FS_PigeonHole
<1>8. ASSUME NEW x \in W, NEW y \in W, x.cap.capid < y.cap.capid
      PROVE  Rank(W, x) # Rank(W, y)
  <2> DEFINE X == {z \in W : z.cap.capid <= x.cap.capid}
             Y == {z \in W : z.cap.capid <= y.cap.capid}
  <2>1. X \in SUBSET Y /\ y \in Y /\ y \notin X
    BY <1>3, <1>8
  <2>2. IsFiniteSet(Y)
    BY <1>1, FS_Subset
  <2>3. Cardinality(X) # Cardinality(Y)
    BY <2>1, <2>2, FS_Subset
  <2> QED BY <2>3 DEF Rank
<1>9. b.cap.capid < c.cap.capid \/ c.cap.capid < b.cap.capid
  BY <1>3, <1>7 DEF Keyed
<1> QED BY <1>7, <1>8, <1>9

(* A window is written as a sequence of chunks (presentation.h:19-53). *)
LEMMA WriteWindowType ==
  ASSUME NEW s \in Seq(Chunk), NEW W \in SUBSET MemBuff, Keyed(W)
  PROVE  WriteWindow(s, W) \in Seq(Chunk)
<1> DEFINE n == Cardinality(W)
           w == [i \in 1..n |-> InCapidOrder(W)[i].cap.data]
<1>1. n \in Nat
  BY FS_CardinalityType DEF Keyed
<1>2. ASSUME NEW i \in 1..n PROVE InCapidOrder(W)[i] \in W
  BY RankExists DEF InCapidOrder
<1>3. \A b \in MemBuff : b.cap.data \in Chunk
  BY DEF MemBuff, Capsule
<1>4. \A i \in 1..n : w[i] \in Chunk
  BY <1>2, <1>3
<1>5. w \in Seq(Chunk)
  <2> HIDE DEF n
  <2> QED BY <1>1, <1>4
<1> QED BY <1>5, ConcatProperties DEF WriteWindow

(* Filing a buffer under its key keeps one buffer per key. *)
LEMMA WindowPutKeyed ==
  ASSUME NEW W, Keyed(W), NEW b
  PROVE  Keyed(WindowPut(W, b))
<1>1. IsFiniteSet({x \in W : x.cap.capid # b.cap.capid})
  BY FS_Subset DEF Keyed
<1>2. IsFiniteSet(WindowPut(W, b))
  BY <1>1, FS_AddElement DEF WindowPut
<1> QED BY <1>2 DEF Keyed, WindowPut

(* The peer list decoded from a capsule (session.h:168-228) has a          *)
(* non-negative count, and a positive one only if the capsule had          *)
(* addresses.                                                              *)
LEMMA DecodePeersType ==
  ASSUME NEW addrs \in Seq(Addr)
  PROVE  /\ DecodePeers(addrs) \in PeerList
         /\ DecodePeers(addrs).known
         /\ DecodePeers(addrs).count > 0 => addrs # <<>>
<1> DEFINE n == Len(addrs)
           k == Cardinality(LoopbackAt(addrs))
           list == [i \in 1..n |->
                     IF \A j \in LoopbackAt(addrs) : i < j THEN addrs[i]
                     ELSE IF i < n THEN addrs[i + 1] ELSE Garbage]
<1>1. n \in Nat /\ \A i \in 1..n : addrs[i] \in Addr
  OBVIOUS
<1>2. IsFiniteSet(1..n) /\ Cardinality(1..n) = n
  <2> HIDE DEF n
  <2>1. n \in Int /\ 1 \in Int
    BY <1>1
  <2> QED BY <1>1, <2>1, FS_Interval
<1>3. k \in Nat /\ k <= n
  <2>1. LoopbackAt(addrs) \in SUBSET (1..n)
    BY DEF LoopbackAt
  <2> QED BY <1>2, <2>1, FS_Subset, FS_CardinalityType
<1>4. n - k \in Nat /\ (n - k > 0 => addrs # <<>>)
  BY <1>1, <1>3
<1>5. list \in Seq(Addr \cup {Garbage})
  <2>1. \A i \in 1..n : list[i] \in Addr \cup {Garbage}
    BY <1>1
  <2> HIDE DEF n
  <2> QED BY <1>1, <2>1 DEF n
<1> QED BY <1>4, <1>5 DEF DecodePeers, PeerList

(* Reading a chunk (datafactory.h:198-226): the chunk begins where the     *)
(* stream was and ends where it is left, within the file, and fin is set   *)
(* with a chunk only at the end of the file.                               *)
LEMMA InputFromSourceOK ==
  ASSUME NEW f \in TxFactory, NEW size \in Nat,
         f.buffer = <<>>, f.pos <= size, HEADER_SPACE <= f.chunkSize,
         f.fin => f.pos = size,
         InputFromSource(f, size).buffer # <<>>
  PROVE  LET g == InputFromSource(f, size)
         IN  /\ g \in TxFactory
             /\ Head(g.buffer) \in Chunk
             /\ Head(g.buffer).off + Head(g.buffer).len = g.pos
             /\ Tail(g.buffer) = <<>>
             /\ g.pos <= size
             /\ HEADER_SPACE <= g.chunkSize
             /\ g.fin => g.pos = size
<1> USE ChunkAssumption, WidthAssumption
<1> DEFINE g == InputFromSource(f, size)
           want == f.chunkSize - HEADER_SPACE
           readSize == readStream(f, size, want)
           c == [off |-> f.pos, len |-> readSize]
<1>1. /\ f.pos \in Nat /\ f.chunkSize \in Nat /\ f.curSize \in Int
      /\ f.fin \in BOOLEAN
  BY DEF TxFactory
<1>2. want \in Nat /\ readSize \in Nat /\ f.pos + readSize <= size
  BY <1>1 DEF readStream
<1>3. readSize < want => f.pos + readSize = size
  BY <1>1, <1>2 DEF readStream
<1>4. f.pos = size => readSize = 0
  BY <1>1, <1>2 DEF readStream
<1>5. ~SourceExhausted(f, size)
  BY DEF InputFromSource
<1>6. Int32(f.curSize + readSize) \in Int
  <2>1. \A n \in Int : Int32(n) \in Int
    BY DEF Int32
  <2> HIDE DEF readSize
  <2>2. f.curSize + readSize \in Int
    BY <1>1, <1>2
  <2> QED BY <2>1, <2>2
<1>7. c \in Chunk
  BY <1>1, <1>2 DEF Chunk
<1>8. g = [f EXCEPT !.fin = @ \/ readSize < want,
                    !.chunkSize = IF readSize < want THEN readSize + HEADER_SPACE ELSE @,
                    !.buffer = Append(@, c),
                    !.pos = @ + readSize,
                    !.curSize = Int32(@ + readSize)]
  BY <1>5 DEF InputFromSource
<1> HIDE DEF want, readSize, c, g
<1>9. /\ g.buffer = <<c>> /\ g.pos = f.pos + readSize
      /\ g.fin = (f.fin \/ readSize < want)
      /\ g.chunkSize = IF readSize < want THEN readSize + HEADER_SPACE ELSE f.chunkSize
      /\ g.curSize = Int32(f.curSize + readSize)
  BY <1>8 DEF TxFactory
<1>10. g \in TxFactory
  <2>1. <<c>> \in Seq(Chunk)
    BY <1>7
  <2>2. g.chunkSize \in Nat /\ g.pos \in Nat /\ g.fin \in BOOLEAN
    BY <1>1, <1>2, <1>9
  <2>3. g = [buffer |-> g.buffer, fin |-> g.fin, curSize |-> g.curSize,
             chunkSize |-> g.chunkSize, pos |-> g.pos]
    BY <1>8 DEF TxFactory
  <2> QED BY <1>6, <1>9, <2>1, <2>2, <2>3 DEF TxFactory
<1>11. Head(g.buffer) = c /\ Tail(g.buffer) = <<>>
  BY <1>7, <1>9
<1>12. c.off + c.len = g.pos
  BY <1>9 DEF c
<1>13. g.pos <= size /\ HEADER_SPACE <= g.chunkSize /\ (g.fin => g.pos = size)
  BY <1>1, <1>2, <1>3, <1>4, <1>9
<1> QED BY <1>7, <1>10, <1>11, <1>12, <1>13 DEF g

-----------------------------------------------------------------------------
(* What the calls that several handlers share do to the type invariant. *)

(* setCapParams builds a capsule (session.h:73-160): the connection's      *)
(* fields, capid cut to its width and the window size to 4 bits.           *)
LEMMA NewCapsuleType ==
  ASSUME TypeOK, NEW d \in Dir, NEW capType \in {"CTRL", "PAYLD"},
         NEW conn \in Connection, NEW win \in Nat, NEW fin \in BOOLEAN,
         NEW addrs \in Seq(Addr), NEW data \in Chunk
  PROVE  NewCapsule(d, capType, conn, win, fin, addrs, data) \in Capsule
<1>1. ses[d].capsuleId \in Nat
  BY DEF TypeOK, SessionState
<1>2. ses[d].capsuleId % CapMod \in 0..(CapMod - 1) /\ win % 16 \in 0..15
  BY <1>1, WidthAssumption
<1> QED BY <1>1, <1>2 DEF NewCapsule, Capsule, Sender

(* A send (gateway.h:134-174) adds one capsule to the peer's net at most. *)
LEMMA SendCapsuleType ==
  ASSUME TypeOK, NEW d \in Dir, NEW cap \in Capsule, SendCapsule(d, cap)
  PROVE  /\ rot' \in [Dir -> Nat] /\ peer_addr' \in [Dir -> Sender] /\ lost' \in Nat
         /\ net' \in [Dir -> SUBSET Capsule]
<1>1. /\ rot' \in [Dir -> Nat] /\ peer_addr' \in [Dir -> Sender]
      /\ lost' \in Nat
  BY DEF TypeOK, SendCapsule
<1>2. net' \in [Dir -> SUBSET Capsule]
  <2>1. Peer(d) \in Dir
    BY DEF Peer, Dir
  <2>2. CASE Misrouted(d)
    BY <2>2 DEF TypeOK, SendCapsule
  <2>3. CASE ~Misrouted(d)
    <3>1. net' = [net EXCEPT ![Peer(d)] = @ \cup {cap}]
      BY <2>3 DEF SendCapsule
    <3> QED BY <2>1, <3>1 DEF TypeOK
  <2> QED BY <2>2, <2>3
<1> QED BY <1>1, <1>2

(* A receive (gateway.h:175-217) files the capsule it takes at the end of  *)
(* the queue.                                                              *)
LEMMA TakeCapsuleType ==
  ASSUME TypeOK, NEW d \in Dir, NEW m, TakeCapsule(d, m)
  PROVE  /\ rot' \in [Dir -> Nat] /\ peer_addr' \in [Dir -> Sender] /\ lost' \in Nat
         /\ net' \in [Dir -> SUBSET Capsule]
         /\ m \in net[d] /\ m \in Capsule
         /\ NewBuff(d, m) \in MemBuff
         /\ Pushed(d, m) \in Seq(MemBuff)
         /\ Pushed(d, m) # <<>>
         /\ Windowed(d, m) \in SUBSET MemBuff
<1>1. m \in net[d] /\ m \in Capsule
  BY DEF TypeOK, TakeCapsule, Deliverable
<1>2. /\ rot' \in [Dir -> Nat] /\ peer_addr' \in [Dir -> Sender] /\ lost' \in Nat
      /\ net' \in [Dir -> SUBSET Capsule]
  <2>1. m.from \in Sender
    BY <1>1 DEF Capsule
  <2> QED BY <2>1 DEF TypeOK, TakeCapsule
<1>3. NewBuff(d, m) \in MemBuff
  BY <1>1 DEF TypeOK, NewBuff, MemBuff
<1>4. rxFactory[d].buffer \in Seq(MemBuff)
  BY DEF TypeOK, RxFactory
<1>5. Pushed(d, m) \in Seq(MemBuff) /\ Pushed(d, m) # <<>>
  BY <1>3, <1>4 DEF Pushed
<1>6. Windowed(d, m) \in SUBSET MemBuff
  BY <1>3 DEF TypeOK, Windowed, WindowPut
<1> QED BY <1>1, <1>2, <1>3, <1>5, <1>6

LEMMA PullPoppedType ==
  ASSUME TypeOK, NEW d \in Dir, NEW m, PullPopped(d, m)
  PROVE  /\ rxFactory' \in [Dir -> RxFactory]
         /\ hdrid' \in [Dir -> Nat]
         /\ HeadCapsule(d, m) \in Capsule
<1>1. Pushed(d, m) \in Seq(MemBuff) /\ Pushed(d, m) # <<>>
  BY TakeCapsuleType DEF PullPopped
<1>2. Tail(Pushed(d, m)) \in Seq(MemBuff) /\ Head(Pushed(d, m)) \in MemBuff
  BY <1>1, HeadTailProperties
<1>3. rxFactory' \in [Dir -> RxFactory]
  BY <1>2 DEF TypeOK, RxFactory, PullPopped
<1>4. hdrid' \in [Dir -> Nat]
  BY DEF TypeOK, PullPopped
<1>5. HeadCapsule(d, m) \in Capsule
  BY <1>2 DEF HeadCapsule, MemBuff
<1> QED BY <1>3, <1>4, <1>5

(* newBuffer(TX) and the try_pop after it leave the buffer as long as it   *)
(* was, so an empty buffer stays empty.                                    *)
LEMMA NewBufferPoppedType ==
  ASSUME TypeOK, NEW d \in Dir, NewBufferPopped(d)
  PROVE  /\ txFactory' \in [Dir -> TxFactory]
         /\ hdrid' \in [Dir -> Nat]
         /\ SourceOK => SourceOK' \/ fileSize' # fileSize
<1> DEFINE q == txFactory[d].buffer
<1>1. q \in Seq(Chunk) /\ NoData \in Chunk
  BY DEF TypeOK, TxFactory, NoData, Chunk
<1>2. Append(q, NoData) \in Seq(Chunk) /\ Append(q, NoData) # <<>>
  BY <1>1
<1>3. Tail(Append(q, NoData)) \in Seq(Chunk)
  BY <1>2, HeadTailProperties
<1>4. txFactory' = [txFactory EXCEPT ![d].buffer = Tail(Append(q, NoData))]
  BY DEF NewBufferPopped, TypeOK, TxFactory
<1>5. txFactory' \in [Dir -> TxFactory]
  <2> HIDE DEF q
  <2> QED BY <1>3, <1>4 DEF TypeOK, TxFactory
<1>6. hdrid' \in [Dir -> Nat]
  BY DEF TypeOK, NewBufferPopped
<1>7. ASSUME SourceOK, fileSize' = fileSize PROVE SourceOK'
  <2>1. q = <<>> => Tail(Append(q, NoData)) = <<>>
    BY <1>1
  <2>2. CASE d = TX
    BY <1>4, <1>7, <2>1, <2>2 DEF SourceOK, TypeOK, TxFactory
  <2>3. CASE d # TX
    <3>1. txFactory'[TX] = txFactory[TX]
      BY <1>4, <2>3 DEF TypeOK, Dir
    <3> QED BY <1>7, <3>1 DEF SourceOK
  <2> QED BY <2>2, <2>3
<1> QED BY <1>5, <1>6, <1>7

(* The header's ids of any capsule are those of a connection record. *)
LEMMA CapsuleFields ==
  ASSUME NEW c \in Capsule
  PROVE  /\ c.conn.id \in Nat /\ c.conn.src \in Nat
         /\ c.win \in Nat /\ c.addrs \in Seq(Addr)
         /\ c.fin \in BOOLEAN
<1>1. c.conn \in Connection /\ c.win \in 0..15 /\ c.addrs \in Seq(Addr) /\ c.fin \in BOOLEAN
  BY DEF Capsule
<1>2. c.conn.id \in Nat /\ c.conn.src \in Nat
  BY <1>1 DEF Connection
<1>3. c.win \in Nat
  BY <1>1
<1> QED BY <1>1, <1>2, <1>3

-----------------------------------------------------------------------------
TypeInv == TypeOK /\ WindowsKeyed /\ SourceOK

(* The initial state of both ends is well typed. *)
LEMMA TypeInit == Init => TypeInv
<1> SUFFICES ASSUME Init PROVE TypeInv
  OBVIOUS
<1> USE ChunkAssumption, AddressAssumption, SessionAssumption
<1>1. fileSize \in Nat
  BY DEF Init
<1>2. NoPeers \in PeerList /\ NoConnection \in Connection
  BY DEF NoPeers, PeerList, NoConnection, Connection
<1>3. NewTxFactory \in TxFactory /\ NewRxFactory \in RxFactory
  BY DEF NewTxFactory, TxFactory, NewRxFactory, RxFactory
<1>4. TypeOK
  BY <1>2, <1>3 DEF Init, TypeOK, SessionState, StateCodes, Sender
<1>5. WindowsKeyed
  BY FS_EmptySet DEF Init, WindowsKeyed, Keyed
<1>6. SourceOK
  BY <1>1 DEF Init, SourceOK, NewTxFactory, Dir, TX
<1> QED BY <1>4, <1>5, <1>6 DEF TypeInv

(* Filing a received capsule keeps the windows keyed (session.h:594-601). *)
LEMMA WindowedKeyed ==
  ASSUME TypeOK, WindowsKeyed, NEW d \in Dir, NEW m,
         rxcurrentWindow' = [rxcurrentWindow EXCEPT ![d] = Windowed(d, m)]
  PROVE  WindowsKeyed'
<1>1. Keyed(Windowed(d, m))
  BY WindowPutKeyed DEF Windowed, WindowsKeyed
<1> QED BY <1>1 DEF WindowsKeyed, TypeOK

(* The updates handlers make to the session record. *)
LEMMA SessionUpdates ==
  ASSUME NEW s \in SessionState, NEW code \in StateCodes,
         NEW n \in Nat, NEW k \in Nat
  PROVE  /\ [s EXCEPT !.next = code] \in SessionState
         /\ [s EXCEPT !.winSize = n] \in SessionState
         /\ [s EXCEPT !.capsuleId = k] \in SessionState
         /\ [s EXCEPT !.next = code, !.winSize = n] \in SessionState
         /\ [s EXCEPT !.complete = TRUE, !.winSize = n, !.next = code] \in SessionState
BY DEF SessionState

LEMMA SesType ==
  ASSUME TypeOK, NEW d \in Dir, NEW s \in SessionState,
         ses' = [ses EXCEPT ![d] = s]
  PROVE  ses' \in [Dir -> SessionState]
BY DEF TypeOK

LEMMA NumberedType ==
  ASSUME NEW s \in SessionState
  PROVE  Numbered(s) \in SessionState
<1>1. s.capsuleId \in Nat
  BY DEF SessionState
<1>2. s.capsuleId + 1 \in Nat /\ "open" \in StateCodes
  BY <1>1 DEF StateCodes
<1> QED BY <1>1, <1>2, SessionUpdates DEF Numbered

(* winSize is decremented only in a loop that runs while it is positive    *)
(* (session.h:477-483), so it never wraps.                                 *)
LEMMA SlotUsedType ==
  ASSUME NEW s \in SessionState, s.winSize > 0, NEW fin \in BOOLEAN
  PROVE  SlotUsed(s, fin) \in SessionState
<1>1. s.winSize \in Nat
  BY DEF SessionState
<1>2. (IF fin THEN 0 ELSE s.winSize - 1) \in Nat
  BY <1>1
<1>3. "open" \in StateCodes
  BY DEF StateCodes
<1> QED BY <1>1, <1>2, <1>3, SessionUpdates DEF SlotUsed

LEMMA LeaveDoneType ==
  ASSUME NEW s \in SessionState, NEW fin \in BOOLEAN
  PROVE  LeaveDone(s, fin) \in SessionState
<1>0. WIN_SIZ \in Nat
  BY SessionAssumption
<1>1. s.winSize \in Nat
  BY DEF SessionState
<1>2. /\ (IF fin THEN s.winSize ELSE WIN_SIZ) \in Nat
      /\ (IF fin THEN "connected" ELSE "closed") \in StateCodes
  BY <1>0, <1>1 DEF StateCodes
<1> QED BY <1>2, SessionUpdates DEF LeaveDone

(* The steps that change nothing but the state of a process. *)
LEMMA TypeStops ==
  ASSUME TypeInv, NEW d \in Dir,
         bufferIsNull \/ closedStateExit(d) \/ divideByZero(d) \/ ioError(d)
  PROVE  TypeInv'
<1>1. TypeOK /\ WindowsKeyed /\ SourceOK /\ TX \in Dir
  BY DEF TypeInv, Dir
<1>2. ASSUME NEW s \in SessionState
      PROVE  /\ [s EXCEPT !.next = "done"] \in SessionState
             /\ [s EXCEPT !.proc = "NULL buffer"] \in SessionState
             /\ [s EXCEPT !.proc = "SIGFPE"] \in SessionState
             /\ [s EXCEPT !.proc = "io error"] \in SessionState
  BY DEF SessionState, StateCodes
<1>3. ses' \in [Dir -> SessionState]
  <2>1. CASE bufferIsNull
    BY <1>1, <1>2, <2>1 DEF TypeOK, bufferIsNull
  <2>2. CASE closedStateExit(d)
    BY <1>1, <1>2, <2>2 DEF TypeOK, closedStateExit
  <2>3. CASE divideByZero(d)
    BY <1>1, <1>2, <2>3 DEF TypeOK, divideByZero
  <2>4. CASE ioError(d)
    BY <1>1, <1>2, <2>4 DEF TypeOK, ioError
  <2> QED BY <2>1, <2>2, <2>3, <2>4
<1>4. UNCHANGED <<gatewayVars, fileSize, conns, txFactory, rxFactory,
                  rxcurrentWindow, hdrid, sink>>
  BY DEF bufferIsNull, closedStateExit, divideByZero, ioError
<1> QED BY <1>1, <1>3, <1>4 DEF TypeInv, TypeOK, WindowsKeyed, SourceOK, gatewayVars

(* The handlers of the server keep the type invariant. *)
LEMMA TypeServer ==
  ASSUME TypeInv, Server
  PROVE  TypeInv'
<1> USE SessionAssumption, AddressAssumption
<1>0. /\ TypeOK /\ WindowsKeyed /\ SourceOK
      /\ TX \in Dir /\ fileSize \in Nat
      /\ ses[TX] \in SessionState
      /\ conns[TX][currentConn] \in Connection
      /\ addressList[TX] \in Seq(Addr)
      /\ NoData \in Chunk /\ <<>> \in Seq(Addr)
  BY DEF TypeInv, TypeOK, Dir, currentConn, NoData, Chunk
<1>1. CASE openStateTX
  <2>1. PICK m \in net[TX] :
          /\ PullPopped(TX, m)
          /\ conns' = [conns EXCEPT ![TX] =
                         [@ EXCEPT ![openedConn] = [NoConnection EXCEPT !.src = genSrcId],
                                   ![currentConn].dst = HeadCapsule(TX, m).conn.src]]
    BY <1>1 DEF openStateTX
  <2>2. /\ rot' \in [Dir -> Nat] /\ peer_addr' \in [Dir -> Sender] /\ lost' \in Nat
        /\ net' \in [Dir -> SUBSET Capsule]
        /\ rxFactory' \in [Dir -> RxFactory] /\ hdrid' \in [Dir -> Nat]
        /\ HeadCapsule(TX, m).conn.src \in Nat
    BY <1>0, <2>1, TakeCapsuleType, PullPoppedType, CapsuleFields DEF PullPopped
  <2>3. conns' \in [Dir -> [0..1 -> Connection]]
    <3> DEFINE c == [conns[TX][currentConn] EXCEPT !.dst = HeadCapsule(TX, m).conn.src]
               o == [NoConnection EXCEPT !.src = genSrcId]
    <3>1. c \in Connection /\ o \in Connection
      BY <1>0, <2>2 DEF Connection, NoConnection, genSrcId
    <3>2. conns' = [conns EXCEPT ![TX] = [@ EXCEPT ![openedConn] = o, ![currentConn] = c]]
      BY <1>0, <2>1 DEF TypeOK, openedConn, currentConn
    <3> HIDE DEF c, o
    <3>3. [conns[TX] EXCEPT ![openedConn] = o, ![currentConn] = c] \in [0..1 -> Connection]
      BY <1>0, <3>1 DEF TypeOK
    <3> QED BY <1>0, <3>2, <3>3 DEF TypeOK
  <2>4. ses' \in [Dir -> SessionState]
    <3>1. [ses[TX] EXCEPT !.next = "setup"] \in SessionState
      BY <1>0 DEF SessionState, StateCodes
    <3> QED BY <1>0, <1>1, <3>1 DEF openStateTX, TypeOK
  <2> QED BY <1>0, <1>1, <2>2, <2>3, <2>4
          DEF openStateTX, TypeInv, TypeOK, WindowsKeyed, SourceOK
<1>2. CASE setupStateTX
  <2>1. /\ rot' \in [Dir -> Nat] /\ peer_addr' \in [Dir -> Sender] /\ lost' \in Nat
        /\ net' \in [Dir -> SUBSET Capsule]
    BY <1>0, <1>2, NewCapsuleType, SendCapsuleType DEF setupStateTX
  <2>2. txFactory' \in [Dir -> TxFactory] /\ hdrid' \in [Dir -> Nat] /\ SourceOK'
    BY <1>0, <1>2, NewBufferPoppedType DEF setupStateTX
  <2>3. ses' \in [Dir -> SessionState]
    <3>1. [ses[TX] EXCEPT !.next = "connected"] \in SessionState
      BY <1>0 DEF SessionState, StateCodes
    <3>2. Numbered([ses[TX] EXCEPT !.next = "connected"]) \in SessionState
      BY <3>1, NumberedType
    <3> QED BY <1>0, <1>2, <3>2, SesType DEF setupStateTX
  <2> QED BY <1>0, <1>2, <2>1, <2>2, <2>3 DEF setupStateTX, TypeInv, TypeOK, WindowsKeyed
<1>3. CASE connectedStateTX
  <2>1. PICK m \in net[TX] :
          /\ PullPopped(TX, m)
          /\ rxcurrentWindow' = [rxcurrentWindow EXCEPT ![TX] = Windowed(TX, m)]
          /\ peers' = [peers EXCEPT ![TX] = DecodePeers(HeadCapsule(TX, m).addrs)]
          /\ conns' = [conns EXCEPT ![TX][currentConn].id = HeadCapsule(TX, m).conn.id]
          /\ ses' = [ses EXCEPT ![TX] = [@ EXCEPT !.next = "closed",
                                                  !.winSize = HeadCapsule(TX, m).win]]
    BY <1>3 DEF connectedStateTX
  <2>2. /\ rot' \in [Dir -> Nat] /\ peer_addr' \in [Dir -> Sender] /\ lost' \in Nat
        /\ net' \in [Dir -> SUBSET Capsule]
        /\ rxFactory' \in [Dir -> RxFactory] /\ hdrid' \in [Dir -> Nat]
        /\ HeadCapsule(TX, m) \in Capsule
        /\ Windowed(TX, m) \in SUBSET MemBuff
    BY <1>0, <2>1, TakeCapsuleType, PullPoppedType DEF PullPopped
  <2>3. /\ HeadCapsule(TX, m).conn.id \in Nat /\ HeadCapsule(TX, m).win \in Nat
        /\ HeadCapsule(TX, m).addrs \in Seq(Addr)
    BY <2>2, CapsuleFields
  <2>4. peers' \in [Dir -> PeerList]
    BY <1>0, <2>1, <2>3, DecodePeersType DEF TypeOK
  <2>5. conns' \in [Dir -> [0..1 -> Connection]]
    BY <1>0, <2>1, <2>3 DEF TypeOK, Connection, currentConn
  <2>6. ses' \in [Dir -> SessionState]
    <3>1. [ses[TX] EXCEPT !.next = "closed", !.winSize = HeadCapsule(TX, m).win]
            \in SessionState
      BY <1>0, <2>3 DEF SessionState, StateCodes
    <3> QED BY <1>0, <2>1, <3>1 DEF TypeOK
  <2>7. WindowsKeyed' /\ rxcurrentWindow' \in [Dir -> SUBSET MemBuff]
    BY <1>0, <2>1, <2>2, WindowedKeyed DEF TypeOK
  <2> QED BY <1>0, <1>3, <2>2, <2>4, <2>5, <2>6, <2>7
          DEF connectedStateTX, TypeInv, TypeOK, SourceOK
<1>4. CASE closedStateTX
  <2> DEFINE f == InputFromSource(txFactory[TX], fileSize)
             last == f.fin /\ Len(f.buffer) = 1
  <2>1. txFactory[TX] \in TxFactory
    BY <1>0 DEF TypeOK
  <2>2. f.buffer # <<>>
    BY <1>4 DEF closedStateTX
  <2>3. /\ f \in TxFactory
        /\ Head(f.buffer) \in Chunk
        /\ Tail(f.buffer) = <<>>
        /\ f.pos <= fileSize
        /\ HEADER_SPACE <= f.chunkSize
        /\ f.fin => f.pos = fileSize
    BY <1>0, <2>1, <2>2, InputFromSourceOK DEF SourceOK
  <2>4. /\ txFactory' = [txFactory EXCEPT ![TX] = [f EXCEPT !.buffer = Tail(@)]]
        /\ SendCapsule(TX, NewCapsule(TX, "PAYLD", conns[TX][currentConn], 0, last,
                                      <<>>, Head(f.buffer)))
        /\ ses' = [ses EXCEPT ![TX] = Numbered(SlotUsed(@, last))]
        /\ ses[TX].winSize > 0
        /\ UNCHANGED <<addressList, peers, dups, strays, fileSize, conns, rxFactory,
                       rxcurrentWindow, hdrid, sink>>
    BY <1>4 DEF closedStateTX
  <2> HIDE DEF f
  <2>5. [f EXCEPT !.buffer = Tail(@)] \in TxFactory
    <3>1. Tail(f.buffer) \in Seq(Chunk)
      BY <2>3, EmptySeq
    <3> QED BY <2>3, <3>1 DEF TxFactory
  <2>6. txFactory' \in [Dir -> TxFactory] /\ SourceOK'
    BY <1>0, <2>3, <2>4, <2>5 DEF TypeOK, SourceOK, TxFactory
  <2>7. last \in BOOLEAN
    OBVIOUS
  <2>8. /\ rot' \in [Dir -> Nat] /\ peer_addr' \in [Dir -> Sender] /\ lost' \in Nat
        /\ net' \in [Dir -> SUBSET Capsule]
    BY <1>0, <2>3, <2>4, <2>7, NewCapsuleType, SendCapsuleType
  <2>9. ses' \in [Dir -> SessionState]
    <3>1. SlotUsed(ses[TX], last) \in SessionState
      BY <1>0, <2>4, <2>7, SlotUsedType
    <3> QED BY <1>0, <2>4, <3>1, NumberedType, SesType
  <2> QED BY <1>0, <2>4, <2>6, <2>8, <2>9 DEF TypeInv, TypeOK, WindowsKeyed
<1>5. CASE bufferIsNull \/ closedStateExit(TX) \/ divideByZero(TX) \/ ioError(TX)
  BY <1>0, <1>5, TypeStops DEF TypeInv
<1>6. CASE doneStateTX
  <2>1. PICK m \in net[TX] :
          /\ PullPopped(TX, m)
          /\ rxcurrentWindow' = [rxcurrentWindow EXCEPT ![TX] = Windowed(TX, m)]
    BY <1>6 DEF doneStateTX
  <2>2. /\ rot' \in [Dir -> Nat] /\ peer_addr' \in [Dir -> Sender] /\ lost' \in Nat
        /\ net' \in [Dir -> SUBSET Capsule]
        /\ rxFactory' \in [Dir -> RxFactory] /\ hdrid' \in [Dir -> Nat]
        /\ Windowed(TX, m) \in SUBSET MemBuff
    BY <1>0, <2>1, TakeCapsuleType, PullPoppedType DEF PullPopped
  <2>3. ses' \in [Dir -> SessionState]
    BY <1>0, <1>6, LeaveDoneType DEF doneStateTX, TypeOK, TxFactory
  <2>4. WindowsKeyed' /\ rxcurrentWindow' \in [Dir -> SUBSET MemBuff]
    BY <1>0, <2>1, <2>2, WindowedKeyed DEF TypeOK
  <2> QED BY <1>0, <1>6, <2>2, <2>3, <2>4 DEF doneStateTX, TypeInv, TypeOK, SourceOK
<1> QED BY <1>1, <1>2, <1>3, <1>4, <1>5, <1>6 DEF Server

(* The handlers of the client keep the type invariant. *)
LEMMA TypeClient ==
  ASSUME TypeInv, Client
  PROVE  TypeInv'
<1> USE SessionAssumption, AddressAssumption
<1>0. /\ TypeOK /\ WindowsKeyed /\ SourceOK
      /\ RX \in Dir /\ TX \in Dir /\ TX # RX
      /\ ses[RX] \in SessionState
      /\ conns[RX][currentConn] \in Connection
      /\ addressList[RX] \in Seq(Addr)
      /\ NoData \in Chunk /\ <<>> \in Seq(Addr)
      /\ WIN_SIZ \in Nat
  BY DEF TypeInv, TypeOK, Dir, TX, RX, currentConn, NoData, Chunk
<1>1. CASE openStateRX
  <2>1. /\ rot' \in [Dir -> Nat] /\ peer_addr' \in [Dir -> Sender] /\ lost' \in Nat
        /\ net' \in [Dir -> SUBSET Capsule]
    BY <1>0, <1>1, NewCapsuleType, SendCapsuleType DEF openStateRX
  <2>2. txFactory' \in [Dir -> TxFactory] /\ hdrid' \in [Dir -> Nat] /\ SourceOK'
    BY <1>0, <1>1, NewBufferPoppedType DEF openStateRX
  <2>3. conns' \in [Dir -> [0..1 -> Connection]]
    <3>1. [NoConnection EXCEPT !.src = genSrcId] \in Connection
      BY DEF NoConnection, Connection, genSrcId
    <3> QED BY <1>0, <1>1, <3>1 DEF openStateRX, TypeOK, openedConn
  <2>4. ses' \in [Dir -> SessionState]
    <3>1. [ses[RX] EXCEPT !.next = "setup"] \in SessionState
      BY <1>0 DEF SessionState, StateCodes
    <3>2. Numbered([ses[RX] EXCEPT !.next = "setup"]) \in SessionState
      BY <3>1, NumberedType
    <3> QED BY <1>0, <1>1, <3>2, SesType DEF openStateRX
  <2> QED BY <1>0, <1>1, <2>1, <2>2, <2>3, <2>4
          DEF openStateRX, TypeInv, TypeOK, WindowsKeyed
<1>2. CASE setupStateRX
  <2>1. PICK m \in net[RX] :
          /\ PullPopped(RX, m)
          /\ rxcurrentWindow' = [rxcurrentWindow EXCEPT ![RX] = Windowed(RX, m)]
          /\ peers' = [peers EXCEPT ![RX] = DecodePeers(HeadCapsule(RX, m).addrs)]
          /\ conns' = [conns EXCEPT ![RX][currentConn].dst = HeadCapsule(RX, m).conn.src]
    BY <1>2 DEF setupStateRX
  <2>2. /\ rot' \in [Dir -> Nat] /\ peer_addr' \in [Dir -> Sender] /\ lost' \in Nat
        /\ net' \in [Dir -> SUBSET Capsule]
        /\ rxFactory' \in [Dir -> RxFactory] /\ hdrid' \in [Dir -> Nat]
        /\ HeadCapsule(RX, m) \in Capsule
        /\ Windowed(RX, m) \in SUBSET MemBuff
    BY <1>0, <2>1, TakeCapsuleType, PullPoppedType DEF PullPopped
  <2>3. HeadCapsule(RX, m).conn.src \in Nat /\ HeadCapsule(RX, m).addrs \in Seq(Addr)
    BY <2>2, CapsuleFields
  <2>4. peers' \in [Dir -> PeerList]
    BY <1>0, <2>1, <2>3, DecodePeersType DEF TypeOK
  <2>5. conns' \in [Dir -> [0..1 -> Connection]]
    BY <1>0, <2>1, <2>3 DEF TypeOK, Connection, currentConn
  <2>6. ses' \in [Dir -> SessionState]
    <3>1. [ses[RX] EXCEPT !.next = "connected"] \in SessionState
      BY <1>0 DEF SessionState, StateCodes
    <3> QED BY <1>0, <1>2, <3>1 DEF setupStateRX, TypeOK
  <2>7. WindowsKeyed' /\ rxcurrentWindow' \in [Dir -> SUBSET MemBuff]
    BY <1>0, <2>1, <2>2, WindowedKeyed DEF TypeOK
  <2> QED BY <1>0, <1>2, <2>2, <2>4, <2>5, <2>6, <2>7
          DEF setupStateRX, TypeInv, TypeOK, SourceOK
<1>3. CASE connectedStateRX
  <2>1. conns' \in [Dir -> [0..1 -> Connection]]
    BY <1>0, <1>3 DEF connectedStateRX, TypeOK, Connection, currentConn, genConnId
  <2>2. conns'[RX][currentConn] \in Connection
    BY <1>0, <2>1 DEF currentConn
  <2>3. /\ rot' \in [Dir -> Nat] /\ peer_addr' \in [Dir -> Sender] /\ lost' \in Nat
        /\ net' \in [Dir -> SUBSET Capsule]
    <3>1. NewCapsule(RX, "CTRL", conns'[RX][currentConn], WIN_SIZ, FALSE,
                     addressList[RX], NoData) \in Capsule
      BY <1>0, <2>2, NewCapsuleType
    <3> QED BY <1>0, <1>3, <3>1, SendCapsuleType DEF connectedStateRX
  <2>4. txFactory' \in [Dir -> TxFactory] /\ hdrid' \in [Dir -> Nat] /\ SourceOK'
    BY <1>0, <1>3, NewBufferPoppedType DEF connectedStateRX
  <2>5. ses' \in [Dir -> SessionState]
    <3>1. [ses[RX] EXCEPT !.next = "closed", !.winSize = WIN_SIZ] \in SessionState
      BY <1>0, SessionUpdates DEF StateCodes
    <3>2. Numbered([ses[RX] EXCEPT !.next = "closed", !.winSize = WIN_SIZ])
            \in SessionState
      BY <3>1, NumberedType
    <3> QED BY <1>0, <1>3, <3>2, SesType DEF connectedStateRX
  <2> QED BY <1>0, <1>3, <2>1, <2>3, <2>4, <2>5
          DEF connectedStateRX, TypeInv, TypeOK, WindowsKeyed
<1>4. CASE closedStateRX
  <2>1. PICK m \in net[RX] :
          LET W == Windowed(RX, m)
              fin == rxFactory[RX].fin \/ (W # {} /\ Highest(W).cap.fin)
          IN  /\ TakeCapsule(RX, m)
              /\ rxFactory' = [rxFactory EXCEPT ![RX].buffer = Pushed(RX, m), ![RX].fin = fin]
              /\ rxcurrentWindow' = [rxcurrentWindow EXCEPT ![RX] = W]
              /\ ses' = [ses EXCEPT ![RX] = SlotUsed(@, W # {} /\ fin)]
    BY <1>4 DEF closedStateRX
  <2> DEFINE W == Windowed(RX, m)
             fin == rxFactory[RX].fin \/ (W # {} /\ Highest(W).cap.fin)
  <2>2. /\ rot' \in [Dir -> Nat] /\ peer_addr' \in [Dir -> Sender] /\ lost' \in Nat
        /\ net' \in [Dir -> SUBSET Capsule]
        /\ Pushed(RX, m) \in Seq(MemBuff)
        /\ W \in SUBSET MemBuff
    BY <1>0, <2>1, TakeCapsuleType
  <2>3. fin \in BOOLEAN /\ (W # {} /\ fin) \in BOOLEAN
    OBVIOUS
  <2>4. WindowsKeyed' /\ rxcurrentWindow' \in [Dir -> SUBSET MemBuff]
    BY <1>0, <2>1, <2>2, WindowedKeyed DEF TypeOK
  <2>5. ses' \in [Dir -> SessionState]
    <3>1. SlotUsed(ses[RX], W # {} /\ fin) \in SessionState
      BY <1>0, <1>4, <2>3, SlotUsedType DEF closedStateRX
    <3> QED BY <1>0, <2>1, <3>1, SesType
  <2>6. rxFactory' \in [Dir -> RxFactory]
    <3> HIDE DEF fin
    <3>1. rxFactory' = [rxFactory EXCEPT ![RX].buffer = Pushed(RX, m), ![RX].fin = fin]
      BY <2>1 DEF fin
    <3> QED BY <1>0, <2>2, <2>3, <3>1 DEF TypeOK, RxFactory
  <2>7. hdrid' \in [Dir -> Nat]
    BY <1>0, <1>4 DEF closedStateRX, TypeOK
  <2> QED BY <1>0, <1>4, <2>2, <2>4, <2>5, <2>6, <2>7
          DEF closedStateRX, TypeInv, TypeOK, SourceOK
<1>5. CASE closedStateExit(RX) \/ divideByZero(RX) \/ ioError(RX)
  BY <1>0, <1>5, TypeStops
<1>6. CASE doneStateRX
  <2> DEFINE W == rxcurrentWindow[RX]
             q == rxFactory[RX].buffer
  <2>1. W \in SUBSET MemBuff /\ Keyed(W) /\ q \in Seq(MemBuff)
    BY <1>0 DEF TypeOK, WindowsKeyed, RxFactory
  <2>2. sink' \in Seq(Chunk)
    <3>1. sink \in Seq(Chunk) /\ sink' = WriteWindow(sink, W)
      BY <1>0, <1>6 DEF doneStateRX, TypeOK
    <3> QED BY <2>1, <3>1, WriteWindowType
  <2>3. SubSeq(q, Cardinality(W) + 1, Len(q)) \in Seq(MemBuff)
    <3>1. Cardinality(W) \in Nat
      BY <2>1, FS_CardinalityType DEF Keyed
    <3>2. Len(q) \in Nat /\ \A i \in 1..Len(q) : q[i] \in MemBuff
      BY <2>1
    <3> HIDE DEF W, q
    <3>3. /\ Cardinality(W) + 1 \in Int /\ Len(q) \in Int
          /\ \A i \in (Cardinality(W) + 1)..Len(q) : q[i] \in MemBuff
      BY <3>1, <3>2
    <3> QED BY <3>3, SubSeqProperties
  <2>4. rxFactory' \in [Dir -> RxFactory]
    <3> DEFINE r == SubSeq(q, Cardinality(W) + 1, Len(q))
    <3>1. rxFactory' = [rxFactory EXCEPT ![RX].buffer = r]
      BY <1>6 DEF doneStateRX
    <3> HIDE DEF r
    <3>2. r \in Seq(MemBuff)
      BY <2>3 DEF r
    <3> QED BY <1>0, <3>1, <3>2 DEF TypeOK, RxFactory
  <2>5. txFactory' \in [Dir -> TxFactory] /\ SourceOK'
    <3>1. /\ txFactory' = [txFactory EXCEPT ![RX].buffer = Append(@, NoData)]
          /\ fileSize' = fileSize
      BY <1>6 DEF doneStateRX
    <3>2. Append(txFactory[RX].buffer, NoData) \in Seq(Chunk)
      BY <1>0 DEF TypeOK, TxFactory
    <3>3. txFactory' \in [Dir -> TxFactory]
      BY <1>0, <3>1, <3>2 DEF TypeOK, TxFactory
    <3>4. txFactory'[TX] = txFactory[TX]
      BY <1>0, <3>1 DEF TypeOK
    <3> QED BY <1>0, <3>1, <3>3, <3>4 DEF SourceOK
  <2>6. WindowsKeyed' /\ rxcurrentWindow' \in [Dir -> SUBSET MemBuff]
    <3>1. Keyed({})
      BY FS_EmptySet DEF Keyed
    <3> QED BY <1>0, <1>6, <3>1 DEF doneStateRX, TypeOK, WindowsKeyed
  <2>7. /\ rot' \in [Dir -> Nat] /\ peer_addr' \in [Dir -> Sender] /\ lost' \in Nat
        /\ net' \in [Dir -> SUBSET Capsule]
    BY <1>0, <1>6, NewCapsuleType, SendCapsuleType DEF doneStateRX
  <2>8. ses' \in [Dir -> SessionState]
    <3>1. rxFactory[RX].fin \in BOOLEAN
      BY <1>0 DEF TypeOK, RxFactory
    <3>2. Numbered(LeaveDone(ses[RX], rxFactory[RX].fin)) \in SessionState
      BY <1>0, <3>1, LeaveDoneType, NumberedType
    <3> QED BY <1>0, <1>6, <3>2, SesType DEF doneStateRX
  <2>9. hdrid' \in [Dir -> Nat]
    BY <1>0, <1>6 DEF doneStateRX, TypeOK
  <2> QED BY <1>0, <1>6, <2>2, <2>4, <2>5, <2>6, <2>7, <2>8, <2>9
          DEF doneStateRX, TypeInv, TypeOK
<1> QED BY <1>1, <1>2, <1>3, <1>4, <1>5, <1>6 DEF Client

(* The network invents no capsule. *)
LEMMA TypeNetwork ==
  ASSUME TypeInv, Network
  PROVE  TypeInv'
<1>0. TypeOK /\ WindowsKeyed /\ SourceOK /\ UNCHANGED sessionVars
  BY DEF TypeInv, Network
<1>1. CASE Lose
  <2>1. net' \in [Dir -> SUBSET Capsule] /\ lost' \in Nat
    BY <1>0, <1>1 DEF Lose, TypeOK
  <2> QED BY <1>0, <1>1, <2>1
          DEF Lose, TypeInv, TypeOK, WindowsKeyed, SourceOK, sessionVars
<1>2. CASE Duplicate
  <2>1. PICK d \in Dir : \E m \in net[d] :
          net' = [net EXCEPT ![d] = @ \cup {[m EXCEPT !.copy = dups + 1]}]
    BY <1>2 DEF Duplicate
  <2>2. PICK m \in net[d] :
          net' = [net EXCEPT ![d] = @ \cup {[m EXCEPT !.copy = dups + 1]}]
    BY <2>1
  <2>3. m \in Capsule /\ dups + 1 \in Nat
    BY <1>0, <2>2 DEF TypeOK
  <2>4. [m EXCEPT !.copy = dups + 1] \in Capsule
    BY <2>3 DEF Capsule
  <2>5. net' \in [Dir -> SUBSET Capsule] /\ dups' \in Nat
    BY <1>0, <1>2, <2>2, <2>3, <2>4 DEF Duplicate, TypeOK
  <2> QED BY <1>0, <1>2, <2>5
          DEF Duplicate, TypeInv, TypeOK, WindowsKeyed, SourceOK, sessionVars
<1>3. CASE Stray(StrayHello(strays))
  <2>1. NoConnection \in Connection /\ <<>> \in Seq(Addr) /\ NoData \in Chunk
    BY DEF NoConnection, Connection, NoData, Chunk
  <2>2. strays \in Nat /\ 0 \in 0..(CapMod - 1)
    BY <1>0, WidthAssumption DEF TypeOK
  <2>3. StrayHello(strays) \in Capsule
    BY <2>1, <2>2 DEF StrayHello, Capsule, Sender
  <2>4. net' \in [Dir -> SUBSET Capsule] /\ strays' \in Nat
    BY <1>0, <1>3, <2>3 DEF Stray, TypeOK, Dir
  <2> QED BY <1>0, <1>3, <2>4
          DEF Stray, TypeInv, TypeOK, WindowsKeyed, SourceOK, sessionVars
<1> QED BY <1>1, <1>2, <1>3 DEF Network

LEMMA TypeUnchanged ==
  ASSUME TypeInv, UNCHANGED vars
  PROVE  TypeInv'
BY DEF TypeInv, TypeOK, WindowsKeyed, SourceOK, vars, gatewayVars, sessionVars

LEMMA TypeStep ==
  ASSUME TypeInv, [Next]_vars
  PROVE  TypeInv'
<1>1. CASE Server
  BY <1>1, TypeServer
<1>2. CASE Client
  BY <1>2, TypeClient
<1>3. CASE Network
  BY <1>3, TypeNetwork
<1>4. CASE Terminated \/ UNCHANGED vars
  BY <1>4, TypeUnchanged DEF Terminated
<1> QED BY <1>1, <1>2, <1>3, <1>4 DEF Next

LEMMA TypeInvariant == Spec => []TypeInv
<1>1. TypeInv /\ [Next]_vars => TypeInv'
  BY TypeStep
<1> QED BY TypeInit, <1>1, PTL DEF Spec

(* Every state either end reaches is well typed: in particular winSize     *)
(* never wraps below zero (session.h:481), capid and capWinSiz fit their   *)
(* header fields, peer_addressCount is never negative (session.h:188), and *)
(* each position of a window that is written holds a buffer.               *)
THEOREM TypeCorrect == Spec => []TypeOK
<1>1. TypeInv => TypeOK
  BY DEF TypeInv
<1> QED BY TypeInvariant, <1>1, PTL

-----------------------------------------------------------------------------
(* What a step can do to the datagrams under way. *)
LEMMA NetSent ==
  ASSUME TypeOK, NEW d \in Dir, NEW cap, SendCapsule(d, cap)
  PROVE  /\ net'[d] = net[d]
         /\ net'[Peer(d)] \subseteq net[Peer(d)] \cup {cap}
         /\ peers[d].known => peers[d].count > 0
<1>1. Peer(d) \in Dir /\ Peer(d) # d
  BY DEF Peer, Dir, TX, RX
<1>2. CASE Misrouted(d)
  BY <1>2 DEF SendCapsule, Selectable
<1>3. CASE ~Misrouted(d)
  <2>1. net' = [net EXCEPT ![Peer(d)] = @ \cup {cap}]
    BY <1>3 DEF SendCapsule
  <2> QED BY <1>1, <2>1 DEF TypeOK, SendCapsule, Selectable
<1> QED BY <1>2, <1>3

LEMMA NetTaken ==
  ASSUME TypeOK, NEW d \in Dir, NEW m, TakeCapsule(d, m), NEW e \in Dir
  PROVE  net'[e] \subseteq net[e]
BY DEF TypeOK, TakeCapsule

(* A second client's Hello is added to what is on its way to the server. *)
LEMMA NetStray ==
  ASSUME TypeOK, Stray(StrayHello(strays))
  PROVE  /\ net'[RX] = net[RX]
         /\ \A c \in net'[TX] : c \in net[TX] \/ c.addrs = <<>>
<1>1. net' = [net EXCEPT ![TX] = @ \cup {StrayHello(strays)}]
  BY DEF Stray
<1>2. StrayHello(strays).addrs = <<>>
  BY DEF StrayHello
<1> QED BY <1>1, <1>2 DEF TypeOK, Dir, TX, RX

(* Each datagram after another network step is one from before, but for    *)
(* copy.                                                                   *)
LEMMA NetFault ==
  ASSUME TypeOK, Lose \/ Duplicate, NEW e \in Dir, NEW c \in net'[e]
  PROVE  \E m \in net[e] :
           /\ c.capType = m.capType /\ c.addrs = m.addrs
           /\ c.fin = m.fin /\ c.data = m.data
           /\ c.n = m.n /\ c.capid = m.capid
<1>1. CASE Lose
  <2>1. c \in net[e]
    BY <1>1 DEF Lose, TypeOK
  <2> QED BY <2>1
<1>2. CASE Duplicate
  <2>1. PICK d \in Dir : \E m \in net[d] :
          net' = [net EXCEPT ![d] = @ \cup {[m EXCEPT !.copy = dups + 1]}]
    BY <1>2 DEF Duplicate
  <2>2. PICK m \in net[d] :
          net' = [net EXCEPT ![d] = @ \cup {[m EXCEPT !.copy = dups + 1]}]
    BY <2>1
  <2>3. CASE c \in net[e]
    BY <2>3
  <2>4. CASE c \notin net[e]
    <3>1. d = e /\ c = [m EXCEPT !.copy = dups + 1]
      BY <2>2, <2>4 DEF TypeOK
    <3>2. m \in Capsule
      BY DEF TypeOK
    <3>3. /\ c.capType = m.capType /\ c.addrs = m.addrs
          /\ c.fin = m.fin /\ c.data = m.data
          /\ c.n = m.n /\ c.capid = m.capid
      BY <3>1, <3>2 DEF Capsule
    <3> QED BY <3>1, <3>3
  <2> QED BY <2>3, <2>4
<1> QED BY <1>1, <1>2

(* The steps that leave the network alone. *)
LEMMA NetUnchanged ==
  ASSUME NEW d \in Dir,
         \/ bufferIsNull \/ closedStateExit(d) \/ divideByZero(d) \/ ioError(d)
         \/ Terminated \/ UNCHANGED vars
  PROVE  UNCHANGED <<net, peers, fileSize, rxFactory, rxcurrentWindow>>
BY DEF bufferIsNull, closedStateExit, divideByZero, ioError, Terminated,
       vars, gatewayVars, sessionVars

-----------------------------------------------------------------------------
LEMMA FinStep ==
  ASSUME TypeInv, FinOnlyOnLast, [Next]_vars
  PROVE  FinOnlyOnLast'
<1>0. TypeOK /\ SourceOK /\ TX \in Dir /\ RX \in Dir /\ Peer(TX) = RX /\ Peer(RX) = TX
  BY DEF TypeInv, Dir, TX, RX, Peer
<1>1. ASSUME fileSize' = fileSize, net'[RX] \subseteq net[RX]
      PROVE  FinOnlyOnLast'
  BY <1>1 DEF FinOnlyOnLast
<1>2. CASE openStateTX \/ connectedStateTX \/ doneStateTX
  <2>1. fileSize' = fileSize /\ \E m : TakeCapsule(TX, m)
    BY <1>2 DEF openStateTX, connectedStateTX, doneStateTX, PullPopped
  <2> QED BY <1>0, <1>1, <2>1, NetTaken
<1>3. CASE setupStateRX \/ closedStateRX
  <2>1. fileSize' = fileSize /\ \E m : TakeCapsule(RX, m)
    BY <1>3 DEF setupStateRX, closedStateRX, PullPopped
  <2> QED BY <1>0, <1>1, <2>1, NetTaken
<1>4. CASE openStateRX \/ connectedStateRX \/ doneStateRX
  <2>1. fileSize' = fileSize /\ \E c : SendCapsule(RX, c)
    BY <1>4 DEF openStateRX, connectedStateRX, doneStateRX
  <2> QED BY <1>0, <1>1, <2>1, NetSent
<1>5. CASE setupStateTX
  <2> DEFINE c == NewCapsule(TX, "CTRL", conns[TX][currentConn], 0, FALSE,
                             addressList[TX], NoData)
  <2>1. fileSize' = fileSize /\ SendCapsule(TX, c)
    BY <1>5 DEF setupStateTX
  <2>2. ~c.fin
    BY DEF NewCapsule
  <2> HIDE DEF c
  <2>3. net'[RX] \subseteq net[RX] \cup {c}
    BY <1>0, <2>1, NetSent
  <2> QED BY <2>1, <2>2, <2>3 DEF FinOnlyOnLast
<1>6. CASE closedStateTX
  <2> DEFINE f == InputFromSource(txFactory[TX], fileSize)
             last == f.fin /\ Len(f.buffer) = 1
             c == NewCapsule(TX, "PAYLD", conns[TX][currentConn], 0, last,
                             <<>>, Head(f.buffer))
  <2>1. fileSize' = fileSize /\ SendCapsule(TX, c) /\ f.buffer # <<>>
    BY <1>6 DEF closedStateTX
  <2>2. txFactory[TX] \in TxFactory /\ fileSize \in Nat
    BY <1>0, SessionAssumption DEF TypeOK
  <2>3. /\ Head(f.buffer).off + Head(f.buffer).len = f.pos
        /\ f.fin => f.pos = fileSize
    BY <1>0, <2>1, <2>2, InputFromSourceOK DEF SourceOK
  <2> HIDE DEF f
  <2>4. c.fin = last /\ c.data = Head(f.buffer)
    BY DEF NewCapsule
  <2> HIDE DEF c
  <2>5. net'[RX] \subseteq net[RX] \cup {c}
    BY <1>0, <2>1, NetSent
  <2>6. c.fin => c.data.off + c.data.len = fileSize
    BY <2>3, <2>4
  <2> QED BY <2>1, <2>5, <2>6 DEF FinOnlyOnLast
<1>7. CASE Network
  <2>1. /\ fileSize' = fileSize
        /\ Lose \/ Duplicate \/ Stray(StrayHello(strays))
    BY <1>7 DEF Network, sessionVars
  <2>2. ASSUME NEW c \in net'[RX], c.fin
        PROVE  c.data.off + c.data.len = fileSize'
    BY <1>0, <2>1, <2>2, NetFault, NetStray DEF FinOnlyOnLast
  <2> QED BY <2>2 DEF FinOnlyOnLast
<1>8. ASSUME NEW d \in Dir,
             \/ bufferIsNull \/ closedStateExit(d) \/ divideByZero(d) \/ ioError(d)
             \/ Terminated \/ UNCHANGED vars
      PROVE  FinOnlyOnLast'
  BY <1>8, NetUnchanged DEF FinOnlyOnLast
<1> QED BY <1>0, <1>2, <1>3, <1>4, <1>5, <1>6, <1>7, <1>8 DEF Next, Server, Client

(* The FIN flag set in submitTask (session.h:617-620) is set on no capsule *)
(* but one whose data ends at the last byte of the file, whatever the      *)
(* sizes of file, chunk and int, and whatever the network does.            *)
THEOREM FinCorrect == Spec => []FinOnlyOnLast
<1>1. Init => FinOnlyOnLast
  BY DEF Init, FinOnlyOnLast, Dir, RX
<1>2. TypeInv /\ FinOnlyOnLast /\ [Next]_vars => FinOnlyOnLast'
  BY FinStep
<1> QED BY TypeInvariant, <1>1, <1>2, PTL DEF Spec

-----------------------------------------------------------------------------
(* The client has not sent its ACK yet. *)
Shaking ==
  \/ ses[RX].next \in {"open", "setup"}
  \/ ses[RX].next = "connected" /\ ~ses[RX].complete

(* Until then the client's window and queue are empty and no payload is on *)
(* its way to it: the server cannot send one, because it has been given no *)
(* address (a repeated Hello leaves it with an empty list, on which        *)
(* selectAddrFromList ends the process).                                   *)
ShakingClean ==
  Shaking =>
    /\ rxcurrentWindow[RX] = {}
    /\ rxFactory[RX].buffer = <<>>
    /\ \A m \in net[RX] : m.capType = "CTRL"
    /\ \A m \in net[TX] : m.addrs = <<>>
    /\ ~(peers[TX].known /\ peers[TX].count > 0)

(* The server's queue is empty between two handlers, and it has a peer     *)
(* list when it comes to sending data.                                     *)
ServerReady ==
  /\ rxFactory[TX].buffer = <<>>
  /\ ses[TX].next \in {"closed", "done"} => peers[TX].known

Owned == ServerReady /\ ShakingClean /\ NoDangling

(* A handler that pulls and pops with an empty queue leaves it empty and   *)
(* goes on with the capsule it has pulled.                                 *)
LEMMA PulledAlone ==
  ASSUME TypeOK, NEW d \in Dir, NEW m, PullPopped(d, m), rxFactory[d].buffer = <<>>
  PROVE  /\ rxFactory'[d].buffer = <<>>
         /\ rxFactory'[Peer(d)] = rxFactory[Peer(d)]
         /\ HeadCapsule(d, m) = m
         /\ m \in net[d]
<1>1. Peer(d) \in Dir /\ Peer(d) # d
  BY DEF Peer, Dir, TX, RX
<1>2. m \in net[d] /\ NewBuff(d, m) \in MemBuff
  BY TakeCapsuleType DEF PullPopped
<1>3. Pushed(d, m) = <<NewBuff(d, m)>>
  BY DEF Pushed
<1>4. Head(Pushed(d, m)) = NewBuff(d, m) /\ Tail(Pushed(d, m)) = <<>>
  BY <1>2, <1>3
<1>5. HeadCapsule(d, m) = m
  BY <1>4 DEF HeadCapsule, NewBuff
<1>6. rxFactory'[d].buffer = <<>> /\ rxFactory'[Peer(d)] = rxFactory[Peer(d)]
  BY <1>1, <1>4 DEF PullPopped, TypeOK, RxFactory
<1> QED BY <1>2, <1>5, <1>6

(* The steps that only move or end a process. *)
LEMMA Stops ==
  ASSUME TypeOK, NEW d \in Dir,
         \/ bufferIsNull /\ d = TX
         \/ closedStateExit(d) \/ divideByZero(d) \/ ioError(d)
  PROVE  /\ \/ ses[d].next = "closed" /\ ses'[d].next = "done" /\ ses[d].winSize = 0
            \/ ses'[d].next = ses[d].next
         /\ ses'[d].complete = ses[d].complete
         /\ ses'[d].winSize = ses[d].winSize
         /\ ses'[d].capsuleId = ses[d].capsuleId
         /\ ses'[Peer(d)] = ses[Peer(d)]
<1>0. ses[d] \in SessionState /\ Peer(d) \in Dir /\ Peer(d) # d
  BY DEF TypeOK, Peer, Dir, TX, RX
<1>1. CASE closedStateExit(d)
  <2>1. /\ ses[d].next = "closed" /\ ses[d].winSize = 0
        /\ ses'[d] = [ses[d] EXCEPT !.next = "done"]
        /\ ses'[Peer(d)] = ses[Peer(d)]
    BY <1>0, <1>1 DEF closedStateExit, At, TypeOK
  <2> QED BY <1>0, <2>1 DEF SessionState
<1>2. CASE (bufferIsNull /\ d = TX) \/ divideByZero(d) \/ ioError(d)
  <2>1. PICK p : ses' = [ses EXCEPT ![d].proc = p]
    BY <1>2 DEF bufferIsNull, divideByZero, ioError
  <2>2. ses'[d] = [ses[d] EXCEPT !.proc = p] /\ ses'[Peer(d)] = ses[Peer(d)]
    BY <1>0, <2>1 DEF TypeOK
  <2> QED BY <1>0, <2>2 DEF SessionState
<1> QED BY <1>1, <1>2

(* The handlers of the server keep Owned. *)
LEMMA OwnedServer ==
  ASSUME TypeInv, Owned, Server
  PROVE  Owned'
<1>0. /\ TypeOK /\ SourceOK /\ ServerReady /\ ShakingClean /\ NoDangling
      /\ TX \in Dir /\ RX \in Dir /\ TX # RX /\ Peer(TX) = RX
  BY DEF TypeInv, Owned, Dir, TX, RX, Peer
<1>1. ASSUME ses'[RX] = ses[RX] PROVE Shaking' = Shaking
  BY <1>1 DEF Shaking
<1>2. ASSUME NEW m, PullPopped(TX, m)
      PROVE  /\ rxFactory'[TX].buffer = <<>> /\ rxFactory'[RX] = rxFactory[RX]
             /\ HeadCapsule(TX, m) = m /\ m \in net[TX]
             /\ net'[TX] \subseteq net[TX] /\ net'[RX] \subseteq net[RX]
  BY <1>0, <1>2, PulledAlone, NetTaken DEF ServerReady, PullPopped
<1>3. CASE openStateTX
  <2>1. PICK m : PullPopped(TX, m)
    BY <1>3 DEF openStateTX
  <2>2. /\ ses'[RX] = ses[RX] /\ ses'[TX].next = "setup"
        /\ UNCHANGED <<peers, rxcurrentWindow>>
    <3>1. ses[TX] \in SessionState
      BY <1>0 DEF TypeOK
    <3>2. /\ ses'[RX] = ses[RX] /\ ses'[TX] = [ses[TX] EXCEPT !.next = "setup"]
          /\ UNCHANGED <<peers, rxcurrentWindow>>
      BY <1>0, <1>3 DEF openStateTX, TypeOK
    <3> QED BY <3>1, <3>2 DEF SessionState
  <2>3. ServerReady'
    BY <1>2, <2>1, <2>2 DEF ServerReady
  <2>4. ShakingClean' /\ NoDangling'
    BY <1>0, <1>1, <1>2, <2>1, <2>2 DEF ShakingClean, NoDangling
  <2> QED BY <2>3, <2>4 DEF Owned
<1>4. CASE setupStateTX
  <2> DEFINE c == NewCapsule(TX, "CTRL", conns[TX][currentConn], 0, FALSE,
                             addressList[TX], NoData)
  <2>1. SendCapsule(TX, c) /\ UNCHANGED <<peers, rxFactory, rxcurrentWindow>>
    BY <1>4 DEF setupStateTX
  <2>2. ses'[RX] = ses[RX] /\ ses'[TX].next = "connected"
    BY <1>0, <1>4 DEF setupStateTX, Numbered, TypeOK, SessionState
  <2>3. c.capType = "CTRL"
    BY DEF NewCapsule
  <2> HIDE DEF c
  <2>4. net'[TX] = net[TX] /\ net'[RX] \subseteq net[RX] \cup {c}
    BY <1>0, <2>1, NetSent
  <2>5. ServerReady'
    BY <1>0, <2>1, <2>2 DEF ServerReady
  <2>6. ShakingClean'
    BY <1>0, <1>1, <2>1, <2>2, <2>3, <2>4 DEF ShakingClean
  <2>7. NoDangling'
    BY <1>0, <2>1 DEF NoDangling
  <2> QED BY <2>5, <2>6, <2>7 DEF Owned
<1>5. CASE connectedStateTX
  <2>1. PICK m : /\ PullPopped(TX, m)
                 /\ rxcurrentWindow' = [rxcurrentWindow EXCEPT ![TX] = Windowed(TX, m)]
                 /\ peers' = [peers EXCEPT ![TX] = DecodePeers(HeadCapsule(TX, m).addrs)]
    BY <1>5 DEF connectedStateTX
  <2>2. ses'[RX] = ses[RX] /\ rxcurrentWindow'[RX] = rxcurrentWindow[RX]
    BY <1>0, <1>5, <2>1 DEF connectedStateTX, TypeOK
  <2>3. m \in Capsule /\ m.addrs \in Seq(Addr)
    BY <1>0, <1>2, <2>1, CapsuleFields DEF TypeOK
  <2>4. /\ peers'[TX] = DecodePeers(m.addrs) /\ peers'[TX].known
        /\ peers'[TX].count > 0 => m.addrs # <<>>
    BY <1>0, <1>2, <2>1, <2>3, DecodePeersType DEF TypeOK
  <2>5. ServerReady'
    BY <1>2, <2>1, <2>4 DEF ServerReady
  <2>6. ShakingClean' /\ NoDangling'
    BY <1>0, <1>1, <1>2, <2>1, <2>2, <2>4 DEF ShakingClean, NoDangling
  <2> QED BY <2>5, <2>6 DEF Owned
<1>6. CASE closedStateTX
  <2>1. PICK c : SendCapsule(TX, c)
    BY <1>6 DEF closedStateTX
  <2>2. /\ ses'[RX] = ses[RX] /\ ses[TX].next = "closed"
        /\ UNCHANGED <<peers, rxFactory, rxcurrentWindow>>
    BY <1>0, <1>6 DEF closedStateTX, At, TypeOK
  <2>3. peers[TX].known /\ peers[TX].count > 0
    BY <1>0, <2>1, <2>2, NetSent DEF ServerReady
  <2>4. ~Shaking'
    BY <1>0, <1>1, <2>2, <2>3 DEF ShakingClean
  <2>5. ServerReady'
    BY <1>0, <2>2, <2>3 DEF ServerReady
  <2>6. NoDangling'
    BY <1>0, <2>2 DEF NoDangling
  <2> QED BY <2>4, <2>5, <2>6 DEF Owned, ShakingClean
<1>7. CASE bufferIsNull \/ closedStateExit(TX) \/ divideByZero(TX) \/ ioError(TX)
  <2>1. UNCHANGED <<net, peers, rxFactory, rxcurrentWindow>>
    BY <1>0, <1>7, NetUnchanged
  <2>2. ses'[RX] = ses[RX]
    BY <1>0, <1>7 DEF bufferIsNull, closedStateExit, divideByZero, ioError, TypeOK
  <2>3. ses'[TX].next = ses[TX].next \/ ses[TX].next = "closed"
    BY <1>0, <1>7, Stops
  <2>4. ServerReady'
    BY <1>0, <2>1, <2>3 DEF ServerReady
  <2>5. ShakingClean' /\ NoDangling'
    BY <1>0, <1>1, <2>1, <2>2 DEF ShakingClean, NoDangling
  <2> QED BY <2>4, <2>5 DEF Owned
<1>8. CASE doneStateTX
  <2>1. PICK m : /\ PullPopped(TX, m)
                 /\ rxcurrentWindow' = [rxcurrentWindow EXCEPT ![TX] = Windowed(TX, m)]
    BY <1>8 DEF doneStateTX
  <2>2. /\ ses'[RX] = ses[RX] /\ rxcurrentWindow'[RX] = rxcurrentWindow[RX]
        /\ ses[TX].next = "done" /\ peers' = peers
    BY <1>0, <1>8, <2>1 DEF doneStateTX, At, TypeOK
  <2>3. ServerReady'
    BY <1>0, <1>2, <2>1, <2>2 DEF ServerReady
  <2>4. ShakingClean' /\ NoDangling'
    BY <1>0, <1>1, <1>2, <2>1, <2>2 DEF ShakingClean, NoDangling
  <2> QED BY <2>3, <2>4 DEF Owned
<1> QED BY <1>3, <1>4, <1>5, <1>6, <1>7, <1>8 DEF Server

(* The handlers of the client keep Owned. *)
LEMMA OwnedClient ==
  ASSUME TypeInv, Owned, Client
  PROVE  Owned'
<1>0. /\ TypeOK /\ ServerReady /\ ShakingClean /\ NoDangling
      /\ TX \in Dir /\ RX \in Dir /\ TX # RX /\ Peer(RX) = TX
  BY DEF TypeInv, Owned, Dir, TX, RX, Peer
<1>1. ASSUME ses'[TX] = ses[TX], peers'[TX] = peers[TX], rxFactory'[TX] = rxFactory[TX]
      PROVE  ServerReady'
  BY <1>0, <1>1 DEF ServerReady
<1>2. CASE openStateRX
  <2> DEFINE c == NewCapsule(RX, "PAYLD", conns[RX][currentConn], 0, FALSE, <<>>, NoData)
  <2>1. /\ SendCapsule(RX, c) /\ Shaking
        /\ UNCHANGED <<peers, rxFactory, rxcurrentWindow>>
    BY <1>2 DEF openStateRX, At, Shaking
  <2>2. c.addrs = <<>>
    BY DEF NewCapsule
  <2> HIDE DEF c
  <2>3. net'[RX] = net[RX] /\ net'[TX] \subseteq net[TX] \cup {c}
    BY <1>0, <2>1, NetSent
  <2>4. ses'[TX] = ses[TX]
    BY <1>0, <1>2 DEF openStateRX, TypeOK
  <2>5. ShakingClean'
    BY <1>0, <2>1, <2>2, <2>3 DEF ShakingClean
  <2>6. NoDangling'
    BY <1>0, <2>1 DEF NoDangling
  <2> QED BY <1>1, <2>1, <2>4, <2>5, <2>6 DEF Owned
<1>3. CASE setupStateRX
  <2>1. PICK m : /\ PullPopped(RX, m)
                 /\ rxcurrentWindow' = [rxcurrentWindow EXCEPT ![RX] = Windowed(RX, m)]
                 /\ peers' = [peers EXCEPT ![RX] = DecodePeers(HeadCapsule(RX, m).addrs)]
    BY <1>3 DEF setupStateRX
  <2>2. Shaking /\ ses'[TX] = ses[TX] /\ peers'[TX] = peers[TX]
    BY <1>0, <1>3, <2>1 DEF setupStateRX, At, Shaking, TypeOK
  <2>3. /\ rxcurrentWindow[RX] = {} /\ rxFactory[RX].buffer = <<>>
        /\ \A x \in net[RX] : x.capType = "CTRL"
    BY <1>0, <2>2 DEF ShakingClean
  <2>4. /\ rxFactory'[RX].buffer = <<>> /\ rxFactory'[TX] = rxFactory[TX]
        /\ m \in net[RX]
    BY <1>0, <2>1, <2>3, PulledAlone
  <2>5. net'[TX] \subseteq net[TX] /\ net'[RX] \subseteq net[RX]
    BY <1>0, <2>1, NetTaken DEF PullPopped
  <2>6. rxcurrentWindow'[RX] = {}
    BY <1>0, <2>1, <2>3, <2>4 DEF Windowed, TypeOK
  <2>7. ShakingClean' /\ NoDangling'
    BY <1>0, <2>2, <2>4, <2>5, <2>6 DEF ShakingClean, NoDangling
  <2> QED BY <1>1, <2>2, <2>4, <2>7 DEF Owned
<1>4. CASE connectedStateRX
  <2>1. UNCHANGED <<peers, rxFactory, rxcurrentWindow>>
    BY <1>4 DEF connectedStateRX
  <2>2. ses'[TX] = ses[TX] /\ ses'[RX].next = "closed"
    BY <1>0, <1>4 DEF connectedStateRX, Numbered, TypeOK, SessionState
  <2>3. ShakingClean' /\ NoDangling'
    BY <1>0, <2>1, <2>2 DEF ShakingClean, Shaking, NoDangling
  <2> QED BY <1>1, <2>1, <2>2, <2>3 DEF Owned
<1>5. CASE closedStateRX
  <2>0. ses[RX] \in SessionState /\ rxFactory[RX] \in RxFactory
    BY <1>0 DEF TypeOK
  <2>1. PICK m \in net[RX] :
          LET W == Windowed(RX, m)
              fin == rxFactory[RX].fin \/ (W # {} /\ Highest(W).cap.fin)
          IN  /\ TakeCapsule(RX, m)
              /\ rxFactory' = [rxFactory EXCEPT ![RX].buffer = Pushed(RX, m), ![RX].fin = fin]
              /\ rxcurrentWindow' = [rxcurrentWindow EXCEPT ![RX] = W]
              /\ ses' = [ses EXCEPT ![RX] = SlotUsed(@, W # {} /\ fin)]
    BY <1>5 DEF closedStateRX
  <2> DEFINE W == Windowed(RX, m)
             fin == rxFactory[RX].fin \/ (W # {} /\ Highest(W).cap.fin)
  <2>2. rxFactory'[RX].buffer = Pushed(RX, m) /\ rxFactory'[TX] = rxFactory[TX]
    BY <1>0, <2>0, <2>1 DEF TypeOK, RxFactory
  <2>3. ses'[TX] = ses[TX] /\ ses'[RX].next = "closed"
    <3>1. ses'[TX] = ses[TX] /\ ses'[RX] = SlotUsed(ses[RX], W # {} /\ fin)
      BY <1>0, <2>1 DEF TypeOK
    <3>2. ses[RX].next = "closed"
      BY <1>5 DEF closedStateRX, At
    <3> QED BY <2>0, <3>1, <3>2 DEF SlotUsed, SessionState
  <2>4. peers' = peers
    BY <1>5 DEF closedStateRX
  <2>5. NoDangling'
    <3> DEFINE q == rxFactory[RX].buffer
               b == NewBuff(RX, m)
    <3>1. q \in Seq(MemBuff) /\ b \in MemBuff
      BY <1>0, <2>1, TakeCapsuleType DEF TypeOK, RxFactory
    <3>2. rxFactory'[RX].buffer = Append(q, b)
      BY <2>2 DEF Pushed
    <3>3. rxcurrentWindow'[RX] \subseteq rxcurrentWindow[RX] \cup {b}
      BY <1>0, <2>1 DEF Windowed, WindowPut, TypeOK
    <3>4. \A x \in rxcurrentWindow[RX] : \E i \in 1..Len(q) : q[i] = x
      BY <1>0 DEF NoDangling
    <3> HIDE DEF q, b
    <3>5. ASSUME NEW x \in rxcurrentWindow'[RX]
          PROVE  \E i \in 1..Len(Append(q, b)) : Append(q, b)[i] = x
      <4>1. CASE x = b
        <5>1. Len(q) + 1 \in 1..Len(Append(q, b)) /\ Append(q, b)[Len(q) + 1] = b
          BY <3>1
        <5> QED BY <4>1, <5>1
      <4>2. CASE x # b
        <5>1. PICK i \in 1..Len(q) : q[i] = x
          BY <3>3, <3>4, <4>2
        <5>2. i \in 1..Len(Append(q, b)) /\ Append(q, b)[i] = x
          BY <3>1, <5>1
        <5> QED BY <5>2
      <4> QED BY <4>1, <4>2
    <3> QED BY <3>2, <3>5 DEF NoDangling
  <2>6. ShakingClean'
    BY <2>3 DEF ShakingClean, Shaking
  <2> QED BY <1>1, <2>2, <2>3, <2>4, <2>5, <2>6 DEF Owned
<1>6. CASE closedStateExit(RX) \/ divideByZero(RX) \/ ioError(RX)
  <2>1. UNCHANGED <<net, peers, rxFactory, rxcurrentWindow>>
    BY <1>0, <1>6, NetUnchanged
  <2>2. ses'[TX] = ses[TX]
    BY <1>0, <1>6 DEF closedStateExit, divideByZero, ioError, TypeOK
  <2>3. Shaking' => Shaking
    BY <1>0, <1>6, Stops DEF Shaking
  <2>4. ShakingClean' /\ NoDangling'
    BY <1>0, <2>1, <2>3 DEF ShakingClean, NoDangling
  <2> QED BY <1>1, <2>1, <2>2, <2>4 DEF Owned
<1>7. CASE doneStateRX
  <2>1. rxcurrentWindow'[RX] = {} /\ peers' = peers /\ rxFactory'[TX] = rxFactory[TX]
    BY <1>0, <1>7 DEF doneStateRX, TypeOK
  <2>2. ses'[TX] = ses[TX]
    BY <1>0, <1>7 DEF doneStateRX, TypeOK
  <2>3. ~Shaking'
    <3>1. ses'[RX] = Numbered(LeaveDone(ses[RX], rxFactory[RX].fin))
      BY <1>0, <1>7 DEF doneStateRX, TypeOK
    <3>2. ses[RX] \in SessionState
      BY <1>0 DEF TypeOK
    <3>3. ses'[RX].complete /\ ses'[RX].next \in {"connected", "closed"}
      BY <3>1, <3>2 DEF Numbered, LeaveDone, SessionState
    <3> QED BY <3>3 DEF Shaking
  <2>4. ShakingClean' /\ NoDangling'
    BY <2>1, <2>3 DEF ShakingClean, NoDangling
  <2> QED BY <1>1, <2>1, <2>2, <2>4 DEF Owned
<1> QED BY <1>2, <1>3, <1>4, <1>5, <1>6, <1>7 DEF Client

LEMMA OwnedNetwork ==
  ASSUME TypeInv, Owned, Network
  PROVE  Owned'
<1>0. /\ TypeOK /\ ServerReady /\ ShakingClean /\ NoDangling
      /\ TX \in Dir /\ RX \in Dir
  BY DEF TypeInv, Owned, Dir
<1>1. /\ Lose \/ Duplicate \/ Stray(StrayHello(strays))
      /\ UNCHANGED <<ses, peers, rxFactory, rxcurrentWindow>>
  BY DEF Network, Lose, Duplicate, Stray, sessionVars
<1>2. ServerReady' /\ NoDangling'
  BY <1>0, <1>1 DEF ServerReady, NoDangling
<1>3. ASSUME Shaking, NEW c \in net'[RX] PROVE c.capType = "CTRL"
  BY <1>0, <1>1, <1>3, NetFault, NetStray DEF ShakingClean
<1>4. ASSUME Shaking, NEW c \in net'[TX] PROVE c.addrs = <<>>
  BY <1>0, <1>1, <1>4, NetFault, NetStray DEF ShakingClean
<1>5. Shaking' = Shaking
  BY <1>1 DEF Shaking
<1>6. ShakingClean'
  BY <1>0, <1>1, <1>3, <1>4, <1>5 DEF ShakingClean
<1> QED BY <1>2, <1>6 DEF Owned

LEMMA OwnedInvariant == Spec => []Owned
<1>1. Init => Owned
  BY DEF Init, Owned, ServerReady, ShakingClean, Shaking, NoDangling,
         NewRxFactory, NoPeers, Dir, TX, RX
<1>2. TypeInv /\ Owned /\ [Next]_vars => Owned'
  <2> SUFFICES ASSUME TypeInv, Owned, [Next]_vars PROVE Owned'
    OBVIOUS
  <2>1. CASE Server
    BY <2>1, OwnedServer
  <2>2. CASE Client
    BY <2>2, OwnedClient
  <2>3. CASE Network
    BY <2>3, OwnedNetwork
  <2>4. CASE Terminated \/ UNCHANGED vars
    BY <2>4 DEF Terminated, Owned, ServerReady, ShakingClean, Shaking, NoDangling,
                vars, gatewayVars, sessionVars
  <2> QED BY <2>1, <2>2, <2>3, <2>4 DEF Next
<1> QED BY TypeInvariant, <1>1, <1>2, PTL DEF Spec

(* The window of the client holds raw pointers into chunks its queue owns  *)
(* (session.h:600): no order of handlers, losses, duplicates and late      *)
(* capsules lets a try_pop (session.h:405, 525) free a chunk the window    *)
(* still refers to.                                                        *)
THEOREM WindowOwned == Spec => []NoDangling
<1>1. Owned => NoDangling
  BY DEF Owned
<1> QED BY OwnedInvariant, <1>1, PTL

-----------------------------------------------------------------------------
(* The numbers on the capsules: what the server counts while it reads its  *)
(* file, and what a payload's number says about its bytes.                 *)

(* The bytes of the file in a full capsule. *)
PayloadSize == CHUNK - HEADER_SPACE

(* The server's count of capsules agrees with its position in the file:    *)
(* the Hi is number 0 and every payload but the last is full.  The int     *)
(* curSize is the position as long as it has not wrapped.                  *)
SourceCount ==
  LET f == txFactory[TX]
      id == ses[TX].capsuleId
  IN  /\ f.curSize <= IntMax
      /\ f.curSize >= 0 => f.curSize = f.pos
      /\ id = 0 <=> ses[TX].next \in {"open", "setup"}
      /\ id = 0 => f.pos = 0 /\ ~f.fin
      /\ ~f.fin => /\ f.chunkSize = CHUNK
                   /\ id > 0 => f.pos = (id - 1) * PayloadSize
      /\ f.fin => id > 1 /\ (id - 2) * PayloadSize <= f.pos

(* The number of a capsule of the server survives its 16-bit field, says   *)
(* where in the file its bytes begin, and tells whether it is the last.    *)
Stamped(m) ==
  /\ m.capid = m.n
  /\ m.n < ses[TX].capsuleId
  /\ m.capType = "PAYLD" =>
       /\ m.n > 0
       /\ m.data.off = (m.n - 1) * PayloadSize
       /\ ~m.fin => m.data.len = PayloadSize
       /\ m.fin <=> (txFactory[TX].fin /\ m.n + 1 = ses[TX].capsuleId)

AllStamped ==
  /\ \A m \in net[RX] : Stamped(m)
  /\ \A b \in rxcurrentWindow[RX] : b.cap.capType = "PAYLD" /\ Stamped(b.cap)

-----------------------------------------------------------------------------
LEMMA PayloadSizeType == PayloadSize \in Nat /\ PayloadSize > 0 /\ PayloadSize <= IntMax
BY ChunkAssumption, WidthAssumption DEF PayloadSize

(* k parts of size p fit into M only if k is at most the quotient. *)
LEMMA QuotientBound ==
  ASSUME NEW k \in Nat, NEW p \in Nat, p > 0, NEW M \in Nat, k * p <= M
  PROVE  k <= M \div p
<1> DEFINE q == M \div p
<1>1. q \in Int /\ M < (q + 1) * p
  OBVIOUS
<1> HIDE DEF q
<1>2. SUFFICES ASSUME q + 1 <= k PROVE FALSE
  BY <1>1 DEF q
<1>3. (k - (q + 1)) * p >= 0
  <2>1. k - (q + 1) \in Nat
    BY <1>1, <1>2
  <2>2. \A a \in Nat : a * p >= 0
    OBVIOUS
  <2> QED BY <2>1, <2>2
<1>4. (k - (q + 1)) * p = k * p - (q + 1) * p
  BY <1>1
<1> QED BY <1>1, <1>3, <1>4

(* An int sum is the sum or, past IntMax, a negative number. *)
LEMMA Int32Sum ==
  ASSUME NEW n \in Nat, n <= 2 * IntMax
  PROVE  /\ n <= IntMax => Int32(n) = n
         /\ n > IntMax => Int32(n) < 0
         /\ Int32(n) \in Int
<1> DEFINE M == IntMax + 1
<1>1. M \in Nat /\ M > 0 /\ IntMax \in Nat
  BY WidthAssumption
<1>2. Int32(n) = ((n + M) % (2 * M)) - M
  BY <1>1 DEF Int32
<1>3. ASSUME n < M PROVE (n + M) % (2 * M) = n + M
  BY <1>1, <1>3
<1>4. ASSUME n >= M PROVE (n + M) % (2 * M) = n - M
  BY <1>1, <1>4
<1> HIDE DEF M
<1>5. n <= 2 * M - 2 /\ (n <= IntMax <=> n < M)
  BY <1>1 DEF M
<1> QED BY <1>1, <1>2, <1>3, <1>4, <1>5

(* Reading a chunk (datafactory.h:198-226) moves the count with the file:  *)
(* it happens only while curSize has not wrapped, and unless it sets fin   *)
(* it reads a full payload.                                                *)
LEMMA ReadCounts ==
  ASSUME NEW f \in TxFactory, NEW size \in Nat,
         f.buffer = <<>>, f.pos <= size, HEADER_SPACE <= f.chunkSize,
         f.fin => f.pos = size,
         ~f.fin => f.chunkSize = CHUNK,
         f.curSize <= IntMax, f.curSize >= 0 => f.curSize = f.pos,
         InputFromSource(f, size).buffer # <<>>
  PROVE  LET g == InputFromSource(f, size)
         IN  /\ ~f.fin /\ f.pos <= IntMax
             /\ Len(g.buffer) = 1 /\ Head(g.buffer).off = f.pos
             /\ g.curSize <= IntMax
             /\ g.curSize >= 0 => g.curSize = g.pos
             /\ f.pos <= g.pos
             /\ ~g.fin => /\ g.chunkSize = CHUNK
                          /\ g.pos = f.pos + PayloadSize
                          /\ Head(g.buffer).len = PayloadSize
<1> USE ChunkAssumption, WidthAssumption, PayloadSizeType
<1> DEFINE g == InputFromSource(f, size)
           want == f.chunkSize - HEADER_SPACE
           readSize == readStream(f, size, want)
           c == [off |-> f.pos, len |-> readSize]
<1>1. /\ f.pos \in Nat /\ f.chunkSize \in Nat /\ f.curSize \in Int
      /\ f.fin \in BOOLEAN
  BY DEF TxFactory
<1>2. ~SourceExhausted(f, size)
  BY DEF InputFromSource
<1>3. f.curSize = f.pos /\ f.pos < size
  BY <1>1, <1>2 DEF SourceExhausted
<1>4. ~f.fin /\ f.chunkSize = CHUNK /\ want = PayloadSize
  <2>1. ~f.fin
    BY <1>1, <1>3
  <2> QED BY <2>1 DEF PayloadSize
<1>5. readSize \in Nat /\ readSize <= PayloadSize
  BY <1>1, <1>3, <1>4 DEF readStream
<1>6. g = [f EXCEPT !.fin = @ \/ readSize < want,
                    !.chunkSize = IF readSize < want THEN readSize + HEADER_SPACE ELSE @,
                    !.buffer = Append(@, c),
                    !.pos = @ + readSize,
                    !.curSize = Int32(@ + readSize)]
  BY <1>2 DEF InputFromSource
<1> HIDE DEF want, readSize, g
<1>7. /\ g.buffer = <<c>> /\ g.pos = f.pos + readSize
      /\ g.fin = (f.fin \/ readSize < want)
      /\ g.chunkSize = IF readSize < want THEN readSize + HEADER_SPACE ELSE f.chunkSize
      /\ g.curSize = Int32(f.curSize + readSize)
  BY <1>6 DEF TxFactory
<1>8. Len(g.buffer) = 1 /\ Head(g.buffer).off = f.pos /\ Head(g.buffer).len = readSize
  BY <1>7
<1>9. f.curSize + readSize \in Nat /\ f.curSize + readSize <= 2 * IntMax
  BY <1>1, <1>3, <1>5
<1>10. g.curSize <= IntMax /\ (g.curSize >= 0 => g.curSize = g.pos) /\ f.pos <= g.pos
  <2>1. PICK n \in Nat : n = f.curSize + readSize
    BY <1>9
  <2>2. Int32(n) \in Int /\ (n <= IntMax => Int32(n) = n) /\ (n > IntMax => Int32(n) < 0)
    BY <1>9, <2>1, Int32Sum
  <2>3. g.curSize = Int32(n) /\ g.pos = n
    BY <1>3, <1>7, <2>1
  <2> QED BY <1>1, <1>3, <1>5, <2>1, <2>2, <2>3
<1>11. ~g.fin => /\ g.chunkSize = CHUNK
                 /\ g.pos = f.pos + PayloadSize
                 /\ Head(g.buffer).len = PayloadSize
  <2>1. ~g.fin => ~(readSize < want)
    BY <1>7
  <2>2. ~(readSize < want) => readSize = PayloadSize
    BY <1>4, <1>5
  <2> QED BY <1>4, <1>7, <1>8, <2>1, <2>2
<1> QED BY <1>1, <1>3, <1>4, <1>8, <1>10, <1>11 DEF g

(* The stamps stay true when the server sends nothing, for what is still   *)
(* under way and for what the client files of it.                          *)
LEMMA StampsKept ==
  ASSUME AllStamped,
         ses'[TX].capsuleId = ses[TX].capsuleId,
         txFactory'[TX].fin = txFactory[TX].fin,
         \A c \in net'[RX] : \E m \in net[RX] :
            /\ c.capType = m.capType /\ c.fin = m.fin /\ c.data = m.data
            /\ c.n = m.n /\ c.capid = m.capid,
         \A b \in rxcurrentWindow'[RX] :
            \/ b \in rxcurrentWindow[RX]
            \/ b.cap \in net[RX] /\ b.cap.capType = "PAYLD"
  PROVE  AllStamped'
BY DEF AllStamped, Stamped

LEMMA SourceKept ==
  ASSUME SourceCount,
         ses'[TX].capsuleId = ses[TX].capsuleId,
         txFactory'[TX] = txFactory[TX],
         ses'[TX].next \in {"open", "setup"} <=> ses[TX].next \in {"open", "setup"}
  PROVE  SourceCount'
BY DEF SourceCount

KeyInv == SourceCount /\ AllStamped

(* The handlers of the server keep count. *)
LEMMA KeyServer ==
  ASSUME TypeInv, KeyInv, Server
  PROVE  KeyInv'
<1>0. /\ TypeOK /\ SourceOK /\ SourceCount /\ AllStamped
      /\ TX \in Dir /\ RX \in Dir /\ TX # RX /\ Peer(TX) = RX
      /\ ses[TX] \in SessionState /\ txFactory[TX] \in TxFactory
      /\ fileSize \in Nat
  BY SessionAssumption DEF TypeInv, KeyInv, TypeOK, Dir, TX, RX, Peer
<1>1. ASSUME ses'[TX].capsuleId = ses[TX].capsuleId,
             txFactory'[TX] = txFactory[TX],
             ses'[TX].next \in {"open", "setup"} <=> ses[TX].next \in {"open", "setup"},
             net'[RX] \subseteq net[RX], rxcurrentWindow'[RX] = rxcurrentWindow[RX]
      PROVE  KeyInv'
  BY <1>0, <1>1, SourceKept, StampsKept DEF KeyInv
<1>2. CASE openStateTX
  <2>1. PICK m : TakeCapsule(TX, m)
    BY <1>2 DEF openStateTX, PullPopped
  <2>2. net'[RX] \subseteq net[RX] /\ UNCHANGED <<txFactory, rxcurrentWindow>>
    BY <1>0, <1>2, <2>1, NetTaken DEF openStateTX
  <2>3. ses[TX].next = "open" /\ ses'[TX] = [ses[TX] EXCEPT !.next = "setup"]
    BY <1>0, <1>2 DEF openStateTX, At, TypeOK
  <2>4. ses'[TX].next = "setup" /\ ses'[TX].capsuleId = ses[TX].capsuleId
    BY <1>0, <2>3 DEF SessionState
  <2> QED BY <1>1, <2>2, <2>3, <2>4
<1>3. CASE setupStateTX
  <2> DEFINE c == NewCapsule(TX, "CTRL", conns[TX][currentConn], 0, FALSE,
                             addressList[TX], NoData)
  <2>1. SendCapsule(TX, c) /\ UNCHANGED rxcurrentWindow
    BY <1>3 DEF setupStateTX
  <2>2. ses[TX].next = "setup" /\ ses[TX].capsuleId = 0
    BY <1>0, <1>3 DEF setupStateTX, At, SourceCount
  <2>3. ses'[TX].next = "connected" /\ ses'[TX].capsuleId = 1
    <3>1. ses'[TX] = Numbered([ses[TX] EXCEPT !.next = "connected"])
      BY <1>0, <1>3 DEF setupStateTX, TypeOK
    <3>2. ses'[TX].next = "connected" /\ ses'[TX].capsuleId = ses[TX].capsuleId + 1
      BY <1>0, <3>1 DEF Numbered, SessionState
    <3> QED BY <2>2, <3>2
  <2>4. /\ txFactory'[TX].fin = txFactory[TX].fin
        /\ txFactory'[TX].pos = txFactory[TX].pos
        /\ txFactory'[TX].curSize = txFactory[TX].curSize
        /\ txFactory'[TX].chunkSize = txFactory[TX].chunkSize
    BY <1>0, <1>3 DEF setupStateTX, NewBufferPopped, TypeOK, TxFactory
  <2>5. c.capType = "CTRL" /\ c.n = 0 /\ c.capid = 0
    BY <2>2, WidthAssumption DEF NewCapsule
  <2> HIDE DEF c
  <2>6. net'[RX] \subseteq net[RX] \cup {c}
    BY <1>0, <2>1, NetSent
  <2>7. SourceCount'
    BY <1>0, <2>2, <2>3, <2>4, PayloadSizeType DEF SourceCount
  <2>8. net[RX] = {} /\ rxcurrentWindow[RX] = {}
    <3>1. \A m \in net[RX] : m.n \in Nat
      BY <1>0 DEF TypeOK, Capsule
    <3>2. \A b \in rxcurrentWindow[RX] : b.cap.n \in Nat
      BY <1>0 DEF TypeOK, MemBuff, Capsule
    <3>3. \A m : Stamped(m) => m.n < 0
      BY <2>2 DEF Stamped
    <3> QED BY <1>0, <3>1, <3>2, <3>3 DEF AllStamped
  <2>9. AllStamped'
    BY <2>1, <2>3, <2>5, <2>6, <2>8 DEF AllStamped, Stamped
  <2> QED BY <2>7, <2>9 DEF KeyInv
<1>4. CASE connectedStateTX
  <2>1. PICK m : /\ TakeCapsule(TX, m)
                 /\ rxcurrentWindow' = [rxcurrentWindow EXCEPT ![TX] = Windowed(TX, m)]
                 /\ ses' = [ses EXCEPT ![TX] = [@ EXCEPT !.next = "closed",
                                                         !.winSize = HeadCapsule(TX, m).win]]
    BY <1>4 DEF connectedStateTX, PullPopped
  <2>2. /\ net'[RX] \subseteq net[RX] /\ UNCHANGED txFactory
        /\ rxcurrentWindow'[RX] = rxcurrentWindow[RX]
    BY <1>0, <1>4, <2>1, NetTaken DEF connectedStateTX, TypeOK
  <2>3. /\ ses[TX].next = "connected" /\ ses'[TX].next = "closed"
        /\ ses'[TX].capsuleId = ses[TX].capsuleId
    BY <1>0, <1>4, <2>1 DEF connectedStateTX, At, TypeOK, SessionState
  <2> QED BY <1>1, <2>2, <2>3
<1>5. CASE closedStateTX
  <2> DEFINE f == txFactory[TX]
             g == InputFromSource(f, fileSize)
             last == g.fin /\ Len(g.buffer) = 1
             id == ses[TX].capsuleId
  <2>0. PICK c : c = NewCapsule(TX, "PAYLD", conns[TX][currentConn], 0, last,
                                <<>>, Head(g.buffer))
    OBVIOUS
  <2>1. /\ SendCapsule(TX, c) /\ g.buffer # <<>> /\ ses[TX].next = "closed"
        /\ UNCHANGED rxcurrentWindow
    BY <1>5, <2>0 DEF closedStateTX, At
  <2>2. id \in Nat /\ id > 0 /\ f.pos \in Nat
    <3>1. id \in Nat /\ id # 0 /\ f.pos \in Nat
      BY <1>0, <2>1 DEF SourceCount, SessionState, TxFactory
    <3> QED BY <3>1
  <2>3. /\ ~f.fin /\ f.pos <= IntMax
        /\ Len(g.buffer) = 1 /\ Head(g.buffer).off = f.pos
        /\ g.curSize <= IntMax
        /\ g.curSize >= 0 => g.curSize = g.pos
        /\ f.pos <= g.pos
        /\ ~g.fin => /\ g.chunkSize = CHUNK
                     /\ g.pos = f.pos + PayloadSize
                     /\ Head(g.buffer).len = PayloadSize
    BY <1>0, <2>1, ReadCounts DEF SourceOK, SourceCount
  <2>4. g \in TxFactory
    BY <1>0, <2>1, InputFromSourceOK DEF SourceOK
  <2>5. f.pos = (id - 1) * PayloadSize
    BY <1>0, <2>2, <2>3 DEF SourceCount
  <2>6. id < CapMod
    <3>1. id - 1 \in Nat /\ IntMax \in Nat
      BY <2>2, WidthAssumption
    <3>2. id - 1 <= IntMax \div PayloadSize
      BY <2>3, <2>5, <3>1, PayloadSizeType, QuotientBound
    <3>3. IntMax \div PayloadSize \in Int
      BY PayloadSizeType, WidthAssumption
    <3> QED BY <2>2, <3>2, <3>3, KeyAssumption, WidthAssumption DEF PayloadSize
  <2>7. /\ c.capType = "PAYLD" /\ c.n = id /\ c.capid = id
        /\ c.fin = g.fin /\ c.data = Head(g.buffer)
    <3>1. id % CapMod = id
      BY <2>2, <2>6, WidthAssumption
    <3>2. last = g.fin
      BY <2>3, <2>4 DEF TxFactory
    <3> QED BY <2>0, <3>1, <3>2 DEF NewCapsule
  <2>8. ses'[TX].next = "closed" /\ ses'[TX].capsuleId = id + 1
    <3>1. ses'[TX] = Numbered(SlotUsed(ses[TX], last))
      BY <1>0, <1>5 DEF closedStateTX, TypeOK
    <3> QED BY <1>0, <2>1, <3>1 DEF Numbered, SlotUsed, SessionState
  <2>9. /\ txFactory'[TX].fin = g.fin /\ txFactory'[TX].pos = g.pos
        /\ txFactory'[TX].curSize = g.curSize /\ txFactory'[TX].chunkSize = g.chunkSize
    <3>1. txFactory'[TX] = [g EXCEPT !.buffer = Tail(@)]
      BY <1>0, <1>5 DEF closedStateTX, TypeOK
    <3> HIDE DEF g
    <3> QED BY <2>4, <3>1 DEF TxFactory
  <2>10. net'[RX] \subseteq net[RX] \cup {c}
    BY <1>0, <2>1, NetSent
  <2> HIDE DEF g
  <2>11. SourceCount'
    <3>1. id + 1 # 0 /\ id + 1 > 1 /\ (id + 1) - 2 = id - 1 /\ (id + 1) - 1 = id
      BY <2>2
    <3>2. id * PayloadSize = (id - 1) * PayloadSize + PayloadSize
      BY <2>2, PayloadSizeType
    <3> HIDE DEF f
    <3> QED BY <2>3, <2>5, <2>8, <2>9, <3>1, <3>2 DEF SourceCount
  <2>12. Stamped(c)'
    <3>1. id < id + 1 /\ id + 1 = ses'[TX].capsuleId
      BY <2>2, <2>8
    <3> QED BY <2>2, <2>3, <2>5, <2>7, <2>9, <3>1 DEF Stamped
  <2>13. ASSUME NEW m, m.n \in Nat, Stamped(m) PROVE Stamped(m)'
    <3>1. m.n < id
      BY <2>13 DEF Stamped
    <3>2. m.n < id + 1 /\ m.n + 1 # id + 1
      BY <2>2, <2>13, <3>1
    <3>3. m.capType = "PAYLD" => ~m.fin
      BY <2>3, <2>13 DEF Stamped
    <3> QED BY <2>8, <2>13, <3>2, <3>3 DEF Stamped
  <2>14. /\ \A m \in net[RX] : m.n \in Nat
         /\ \A b \in rxcurrentWindow[RX] : b.cap.n \in Nat
    BY <1>0 DEF TypeOK, MemBuff, Capsule
  <2>15. AllStamped'
    BY <1>0, <2>1, <2>10, <2>12, <2>13, <2>14 DEF AllStamped
  <2> QED BY <2>11, <2>15 DEF KeyInv
<1>6. CASE bufferIsNull \/ closedStateExit(TX) \/ divideByZero(TX) \/ ioError(TX)
  <2>1. UNCHANGED <<net, rxcurrentWindow, txFactory>>
    BY <1>6 DEF bufferIsNull, closedStateExit, divideByZero, ioError, gatewayVars
  <2>2. /\ \/ ses[TX].next = "closed" /\ ses'[TX].next = "done"
           \/ ses'[TX].next = ses[TX].next
        /\ ses'[TX].capsuleId = ses[TX].capsuleId
    BY <1>0, <1>6, Stops
  <2> QED BY <1>1, <2>1, <2>2
<1>7. CASE doneStateTX
  <2>1. PICK m : /\ TakeCapsule(TX, m)
                 /\ rxcurrentWindow' = [rxcurrentWindow EXCEPT ![TX] = Windowed(TX, m)]
    BY <1>7 DEF doneStateTX, PullPopped
  <2>2. /\ net'[RX] \subseteq net[RX] /\ UNCHANGED txFactory
        /\ rxcurrentWindow'[RX] = rxcurrentWindow[RX]
    BY <1>0, <1>7, <2>1, NetTaken DEF doneStateTX, TypeOK
  <2>3. /\ ses[TX].next = "done"
        /\ ses'[TX] = LeaveDone(ses[TX], txFactory[TX].fin)
    BY <1>0, <1>7 DEF doneStateTX, At, TypeOK
  <2>4. /\ ses'[TX].next \in {"connected", "closed"}
        /\ ses'[TX].capsuleId = ses[TX].capsuleId
    BY <1>0, <2>3 DEF LeaveDone, SessionState
  <2> QED BY <1>1, <2>2, <2>3, <2>4
<1> QED BY <1>2, <1>3, <1>4, <1>5, <1>6, <1>7 DEF Server

(* No handler of the client touches what the server counts, and what the   *)
(* client files has come from the server.                                  *)
LEMMA KeyClient ==
  ASSUME TypeInv, KeyInv, Client
  PROVE  KeyInv'
<1>0. /\ TypeOK /\ SourceCount /\ AllStamped
      /\ TX \in Dir /\ RX \in Dir /\ TX # RX /\ Peer(RX) = TX
  BY DEF TypeInv, KeyInv, Dir, TX, RX, Peer
<1>1. ses'[TX] = ses[TX]
  <2>1. CASE closedStateExit(RX) \/ divideByZero(RX) \/ ioError(RX)
    BY <1>0, <2>1, Stops
  <2>2. CASE \/ openStateRX \/ setupStateRX \/ connectedStateRX \/ closedStateRX
             \/ doneStateRX
    BY <1>0, <2>2 DEF openStateRX, setupStateRX, connectedStateRX, closedStateRX,
                      doneStateRX, TypeOK
  <2> QED BY <2>1, <2>2 DEF Client
<1>2. txFactory'[TX] = txFactory[TX]
  BY <1>0 DEF Client, openStateRX, setupStateRX, connectedStateRX, closedStateRX,
              doneStateRX, closedStateExit, divideByZero, ioError, NewBufferPopped, TypeOK
<1>3. net'[RX] \subseteq net[RX]
  <2>1. CASE openStateRX \/ connectedStateRX \/ doneStateRX
    <3>1. PICK c : SendCapsule(RX, c)
      BY <2>1 DEF openStateRX, connectedStateRX, doneStateRX
    <3> QED BY <1>0, <3>1, NetSent
  <2>2. CASE setupStateRX \/ closedStateRX
    <3>1. PICK m : TakeCapsule(RX, m)
      BY <2>2 DEF setupStateRX, closedStateRX, PullPopped
    <3> QED BY <1>0, <3>1, NetTaken
  <2>3. CASE closedStateExit(RX) \/ divideByZero(RX) \/ ioError(RX)
    BY <1>0, <2>3, NetUnchanged
  <2> QED BY <2>1, <2>2, <2>3 DEF Client
<1>4. ASSUME NEW b \in rxcurrentWindow'[RX]
      PROVE  \/ b \in rxcurrentWindow[RX]
             \/ b.cap \in net[RX] /\ b.cap.capType = "PAYLD"
  <2>1. CASE \/ openStateRX \/ connectedStateRX \/ doneStateRX
             \/ closedStateExit(RX) \/ divideByZero(RX) \/ ioError(RX)
    BY <1>0, <1>4, <2>1 DEF openStateRX, connectedStateRX, doneStateRX, closedStateExit,
                            divideByZero, ioError, TypeOK
  <2>2. CASE setupStateRX \/ closedStateRX
    <3>1. PICK m \in net[RX] :
            rxcurrentWindow' = [rxcurrentWindow EXCEPT ![RX] = Windowed(RX, m)]
      BY <2>2 DEF setupStateRX, closedStateRX
    <3> QED BY <1>0, <1>4, <3>1 DEF Windowed, WindowPut, NewBuff, TypeOK
  <2> QED BY <2>1, <2>2 DEF Client
<1>5. SourceCount'
  BY <1>0, <1>1, <1>2, SourceKept
<1>6. AllStamped'
  BY <1>0, <1>1, <1>2, <1>3, <1>4, StampsKept
<1> QED BY <1>5, <1>6 DEF KeyInv

LEMMA KeyNetwork ==
  ASSUME TypeInv, KeyInv, Network
  PROVE  KeyInv'
<1>0. TypeOK /\ SourceCount /\ AllStamped /\ RX \in Dir
  BY DEF TypeInv, KeyInv, Dir
<1>1. /\ Lose \/ Duplicate \/ Stray(StrayHello(strays))
      /\ UNCHANGED <<ses, txFactory, rxcurrentWindow>>
  BY DEF Network, sessionVars
<1>2. ASSUME NEW c \in net'[RX]
      PROVE  \E m \in net[RX] :
               /\ c.capType = m.capType /\ c.fin = m.fin /\ c.data = m.data
               /\ c.n = m.n /\ c.capid = m.capid
  BY <1>0, <1>1, <1>2, NetFault, NetStray
<1>3. SourceCount'
  BY <1>0, <1>1, SourceKept
<1>4. AllStamped'
  BY <1>0, <1>1, <1>2, StampsKept
<1> QED BY <1>3, <1>4 DEF KeyInv

LEMMA KeyInvariant == Spec => []KeyInv
<1>1. Init => KeyInv
  <2> SUFFICES ASSUME Init PROVE KeyInv
    OBVIOUS
  <2>1. txFactory[TX] = NewTxFactory /\ ses[TX].capsuleId = 0 /\ ses[TX].next = "open"
    BY DEF Init, Dir
  <2>2. SourceCount
    BY <2>1, WidthAssumption DEF SourceCount, NewTxFactory
  <2>3. AllStamped
    BY DEF Init, AllStamped, Dir
  <2> QED BY <2>2, <2>3 DEF KeyInv
<1>2. TypeInv /\ KeyInv /\ [Next]_vars => KeyInv'
  <2> SUFFICES ASSUME TypeInv, KeyInv, [Next]_vars PROVE KeyInv'
    OBVIOUS
  <2>1. CASE Server
    BY <2>1, KeyServer
  <2>2. CASE Client
    BY <2>2, KeyClient
  <2>3. CASE Network
    BY <2>3, KeyNetwork
  <2>4. CASE Terminated \/ UNCHANGED vars
    BY <2>4 DEF Terminated, KeyInv, SourceCount, AllStamped, Stamped,
                vars, gatewayVars, sessionVars
  <2> QED BY <2>1, <2>2, <2>3, <2>4 DEF Next
<1> QED BY TypeInvariant, <1>1, <1>2, PTL DEF Spec

(* The client files payloads under the 16 bits capid keeps of their number *)
(* (session.h:600, datafactory.h:66).  For every size of file, chunk, int  *)
(* and window, the order of those keys is the order of sending, under      *)
(* loss, duplication and reordering: curSize wraps (datafactory.h:224) and *)
(* ends the transfer before capid can.                                     *)
THEOREM KeysOrdered == Spec => []KeysInSendOrder
<1>1. KeyInv => KeysInSendOrder
  BY DEF KeyInv, AllStamped, Stamped, KeysInSendOrder, Payloads
<1> QED BY KeyInvariant, <1>1, PTL
=============================================================================
