--------------------------- MODULE TransferProofs ---------------------------
(***************************************************************************)
(* The data transfer of Session while no datagram is repeated and no       *)
(* second client speaks: window after window, under loss, reordering,      *)
(* addresses that lead nowhere and processes that die.  When the order is  *)
(* kept, it is the transfer of FileTransfer until a datagram is lost.      *)
(***************************************************************************)
EXTENDS HandshakeProofs, SessionRefinement, FunctionTheorems, WellFoundedInduction

(* The payloads the server has sent: its capsule number 0 was the Hi. *)
Sent == ses[TX].capsuleId - 1

(* The client's unwritten payloads and those on their way to it, by number. *)
Held(n) == \E b \in rxcurrentWindow[RX] : b.cap.n = n
UnderWay(n) == \E m \in net[RX] : m.n = n

(* The client's file so far is the first chunks of the server's, and a     *)
(* buffer is left behind for every window of it.                           *)
WrittenWindows ==
  /\ \A i \in 1..Len(sink) :
       sink[i] = [off |-> (i - 1) * PayloadSize, len |-> PayloadSize]
  /\ Len(sink) = Len(txFactory[RX].buffer) * WIN_SIZ

(* Before the first payload. *)
Fresh ==
  /\ sink = <<>> /\ txFactory[RX].buffer = <<>>
  /\ rxcurrentWindow[RX] = {} /\ ~rxFactory[RX].fin
  /\ ~txFactory[TX].fin /\ ses[TX].capsuleId <= 1

(* Where the server is in the window that follows what the client has      *)
(* written.                                                                *)
ServerInWindow ==
  /\ ses[TX].next \in {"closed", "done"}
  /\ ses[TX].next = "done" => ses[TX].winSize = 0
  /\ Len(sink) <= Sent /\ Sent <= Len(sink) + WIN_SIZ
  /\ ~txFactory[TX].fin => Sent = Len(sink) + WIN_SIZ - ses[TX].winSize
  /\ txFactory[TX].fin => ses[TX].winSize = 0 /\ Len(sink) < Sent

(* Where the client is in it: it has as many payloads as it has used       *)
(* slots, until it gets the one with FIN.                                  *)
ClientInWindow ==
  /\ ses[RX].next \in {"closed", "done"}
  /\ ses[RX].next = "done" => ses[RX].winSize = 0
  /\ ~rxFactory[RX].fin =>
       /\ ses[RX].winSize <= WIN_SIZ
       /\ Cardinality(rxcurrentWindow[RX]) = WIN_SIZ - ses[RX].winSize
       /\ \A b \in rxcurrentWindow[RX] : ~b.cap.fin
  /\ rxFactory[RX].fin =>
       ses[RX].winSize = 0 /\ txFactory[TX].fin /\ Held(Sent)

(* No payload of the window is in two places, and one that was sent is in  *)
(* none of them only if something was lost.                                *)
PayloadsInWindow ==
  /\ \A m \in net[RX] : Len(sink) < m.n /\ ~Held(m.n)
  /\ \A b \in rxcurrentWindow[RX] :
       /\ Len(sink) < b.cap.n
       /\ b.cap.fin => b.cap.data.off + b.cap.data.len = fileSize
  /\ ~Reorder => \A m \in net[RX], b \in rxcurrentWindow[RX] : b.cap.n < m.n
  /\ lost = 0 => \A n \in (Len(sink) + 1)..Sent : Held(n) \/ UnderWay(n)

(* A window is under way. *)
Filling ==
  /\ Quiet(TX)
  /\ ServerInWindow /\ ClientInWindow /\ PayloadsInWindow /\ WrittenWindows

(* The client has written a window, not the last one, and the server does  *)
(* not know yet.                                                           *)
Answered ==
  /\ Awaits(TX) /\ Quiet(RX)
  /\ ses[TX].next \in {"closed", "done"} /\ ses[TX].winSize = 0 /\ ~txFactory[TX].fin
  /\ ses[RX].next = "closed" /\ ses[RX].winSize = WIN_SIZ /\ ~rxFactory[RX].fin
  /\ rxcurrentWindow[RX] = {}
  /\ Sent = Len(sink) /\ Len(sink) > 0 /\ WrittenWindows

(* The client has written the last window and returned. *)
Finished ==
  /\ Returned(RX) /\ rxFactory[RX].fin /\ txFactory[TX].fin
  /\ rxcurrentWindow[RX] = {}
  /\ \A m \in net[RX] : Sent - WIN_SIZ < m.n
  /\ (Len(txFactory[RX].buffer) - 1) * WIN_SIZ < Sent
  /\ lost = 0 /\ ~Reorder => InSequence(sink) /\ EndOf(sink, Len(sink)) = fileSize
  /\ \/ Returned(TX) /\ Quiet(TX)
     \/ ses[TX].next \in {"closed", "done"} /\ ses[TX].winSize = 0 /\ Awaits(TX)

DataOnly ==
  /\ \A m \in net[RX] : m.capType = "PAYLD" /\ m.from = "peer"
  /\ \A m, x \in net[RX] : m.n = x.n => m = x

TransferInv ==
  /\ ~Past(TX) => Fresh
  /\ Past(TX) => DataOnly /\ (Filling \/ Answered \/ Finished)

-----------------------------------------------------------------------------
(* Things with different numbers from lo + 1 to lo + k are at most k, and  *)
(* exactly k when every number occurs.                                     *)
LEMMA CountInRange ==
  ASSUME NEW lo \in Int, NEW k \in Nat, NEW S, NEW f \in [S -> (lo + 1)..(lo + k)],
         \A x, y \in S : f[x] = f[y] => x = y
  PROVE  /\ IsFiniteSet(S)
         /\ Cardinality(S) <= k
         /\ Cardinality(S) = k <=> \A n \in (lo + 1)..(lo + k) : \E x \in S : f[x] = n
<1> DEFINE T == (lo + 1)..(lo + k)
<1>1. IsFiniteSet(T) /\ Cardinality(T) = k
  <2>1. lo + 1 \in Int /\ lo + k \in Int
    OBVIOUS
  <2>2. Cardinality(T) = IF lo + 1 > lo + k THEN 0 ELSE lo + k - (lo + 1) + 1
    BY <2>1, FS_Interval
  <2>3. IsFiniteSet(T)
    BY <2>1, FS_Interval
  <2> QED BY <2>2, <2>3
<1> HIDE DEF T
<1>2. f \in [S -> T]
  BY DEF T
<1>3. f \in Injection(S, T)
  BY <1>2, Fun_IsInj
<1>4. /\ IsFiniteSet(S) /\ Cardinality(S) <= Cardinality(T)
      /\ Cardinality(S) = Cardinality(T) <=> f \in Surjection(S, T)
  BY <1>1, <1>3, FS_Injection
<1>5. f \in Surjection(S, T) <=> \A n \in T : \E x \in S : f[x] = n
  BY <1>2 DEF Surjection
<1> QED BY <1>1, <1>4, <1>5 DEF T

(* W holds the payloads lo + 1 to lo + k, under their numbers. *)
Covers(W, lo, k) ==
  /\ W \in SUBSET MemBuff /\ Keyed(W)
  /\ \A b \in W : b.cap.capid = b.cap.n /\ b.cap.n \in (lo + 1)..(lo + k)
  /\ \A n \in (lo + 1)..(lo + k) : \E b \in W : b.cap.n = n

(* Sorting such a window by its keys puts the payloads in the order of     *)
(* their numbers.                                                          *)
LEMMA SortedWindow ==
  ASSUME NEW W, NEW lo \in Nat, NEW k \in Nat, Covers(W, lo, k)
  PROVE  /\ Cardinality(W) = k
         /\ \A i \in 1..k : /\ InCapidOrder(W)[i] \in W
                            /\ InCapidOrder(W)[i].cap.n = lo + i
<1>0. /\ W \in SUBSET MemBuff /\ Keyed(W)
      /\ \A b \in W : b.cap.capid = b.cap.n /\ b.cap.n \in (lo + 1)..(lo + k)
      /\ \A n \in (lo + 1)..(lo + k) : \E b \in W : b.cap.n = n
  BY DEF Covers
<1>1. \A x, y \in W : x.cap.n = y.cap.n => x = y
  BY <1>0 DEF Keyed
<1>2. ASSUME NEW j \in 0..k, NEW B, B = {x \in W : x.cap.n <= lo + j}
      PROVE  Cardinality(B) = j
  <2> DEFINE f == [x \in B |-> x.cap.n]
  <2>1. j \in Nat /\ lo + j \in Nat
    OBVIOUS
  <2>2. \A x \in B : x \in W /\ x.cap.n \in (lo + 1)..(lo + j)
    BY <1>0, <1>2, <2>1
  <2>3. f \in [B -> (lo + 1)..(lo + j)]
    BY <2>2
  <2>4. \A x, y \in B : f[x] = f[y] => x = y
    BY <1>1, <2>2
  <2>5. \A n \in (lo + 1)..(lo + j) : \E x \in B : f[x] = n
    <3> SUFFICES ASSUME NEW n \in (lo + 1)..(lo + j)
                 PROVE  \E x \in B : f[x] = n
      OBVIOUS
    <3>1. n \in (lo + 1)..(lo + k) /\ n <= lo + j
      BY <2>1
    <3>2. PICK b \in W : b.cap.n = n
      BY <1>0, <3>1
    <3>3. b \in B
      BY <1>2, <3>1, <3>2
    <3> QED BY <3>2, <3>3
  <2> HIDE DEF f
  <2> QED BY <2>1, <2>3, <2>4, <2>5, CountInRange
<1>3. Cardinality(W) = k
  <2>1. W = {x \in W : x.cap.n <= lo + k}
    BY <1>0
  <2>2. k \in 0..k
    OBVIOUS
  <2> QED BY <1>2, <2>1, <2>2
<1>4. ASSUME NEW b \in W PROVE Rank(W, b) = b.cap.n - lo
  <2>1. PICK j \in 0..k : j = b.cap.n - lo
    BY <1>0
  <2>2. {x \in W : x.cap.capid <= b.cap.capid} = {x \in W : x.cap.n <= lo + j}
    <3>1. lo + j = b.cap.n
      BY <1>0, <2>1
    <3>2. \A x \in W : x.cap.capid <= b.cap.capid <=> x.cap.n <= lo + j
      BY <1>0, <3>1
    <3> QED BY <3>2
  <2>3. PICK B : B = {x \in W : x.cap.n <= lo + j}
    OBVIOUS
  <2>4. Cardinality(B) = j
    BY <1>2, <2>3
  <2> QED BY <2>1, <2>2, <2>3, <2>4 DEF Rank
<1>5. ASSUME NEW i \in 1..k
      PROVE  InCapidOrder(W)[i] \in W /\ InCapidOrder(W)[i].cap.n = lo + i
  <2>1. lo + i \in (lo + 1)..(lo + k)
    OBVIOUS
  <2>2. PICK b \in W : b.cap.n = lo + i
    BY <1>0, <2>1
  <2>3. Rank(W, b) = i
    BY <1>0, <1>4, <2>2
  <2>4. PICK c : c = CHOOSE x \in W : Rank(W, x) = i
    OBVIOUS
  <2>5. c \in W /\ Rank(W, c) = i
    BY <2>3, <2>4
  <2>6. c.cap.n - lo = i /\ c.cap.n \in Int
    BY <1>0, <1>4, <2>5
  <2>7. InCapidOrder(W)[i] = c
    BY <1>3, <2>4 DEF InCapidOrder
  <2> QED BY <2>5, <2>6, <2>7
<1> QED BY <1>3, <1>5

(* w is s and after it the payloads lo + 1 to lo + k in W. *)
AppendedFrom(lo, s, W, k, w) ==
  /\ Len(w) = Len(s) + k
  /\ \A i \in 1..Len(s) : w[i] = s[i]
  /\ \A j \in 1..k : \E b \in W : b.cap.n = lo + j /\ w[Len(s) + j] = b.cap.data

(* What write2Souce leaves in the file (presentation.h:41): the window's   *)
(* payloads in the order of their numbers, after what was there.           *)
LEMMA WrittenAfter ==
  ASSUME NEW s \in Seq(Chunk), NEW W, NEW lo \in Nat, NEW k \in Nat, Covers(W, lo, k)
  PROVE  AppendedFrom(lo, s, W, k, WriteWindow(s, W))
<1> DEFINE w == WriteWindow(s, W)
<1>0. Len(s) \in Nat /\ W \in SUBSET MemBuff
  BY DEF Covers
<1>1. /\ Cardinality(W) = k
      /\ \A i \in 1..k : InCapidOrder(W)[i] \in W /\ InCapidOrder(W)[i].cap.n = lo + i
  BY SortedWindow
<1>2. PICK t : t = [i \in 1..k |-> InCapidOrder(W)[i].cap.data]
  OBVIOUS
<1>3. w = s \o t
  BY <1>1, <1>2 DEF WriteWindow
<1> HIDE DEF w
<1>4. \A b \in MemBuff : b.cap.data \in Chunk
  BY DEF MemBuff, Capsule
<1>5. t \in Seq(Chunk) /\ Len(t) = k
  <2>1. \A i \in 1..k : t[i] \in Chunk
    BY <1>0, <1>1, <1>2, <1>4
  <2> QED BY <1>2, <2>1
<1>6. /\ Len(w) = Len(s) + k
      /\ \A i \in 1..(Len(s) + k) : w[i] = IF i <= Len(s) THEN s[i] ELSE t[i - Len(s)]
  <2>1. /\ Len(s \o t) = Len(s) + Len(t)
        /\ \A i \in 1..(Len(s) + Len(t)) :
             (s \o t)[i] = IF i <= Len(s) THEN s[i] ELSE t[i - Len(s)]
    BY <1>5, ConcatProperties
  <2> QED BY <1>0, <1>3, <1>5, <2>1
<1>7. ASSUME NEW j \in 1..k
      PROVE  \E b \in W : b.cap.n = lo + j /\ w[Len(s) + j] = b.cap.data
  <2>1. /\ Len(s) + j \in 1..(Len(s) + k) /\ ~(Len(s) + j <= Len(s))
        /\ Len(s) + j - Len(s) = j
    BY <1>0
  <2>2. w[Len(s) + j] = InCapidOrder(W)[j].cap.data
    BY <1>2, <1>6, <2>1
  <2> QED BY <1>1, <2>2
<1>8. \A i \in 1..Len(s) : w[i] = s[i]
  BY <1>0, <1>6
<1> QED BY <1>6, <1>7, <1>8 DEF w, AppendedFrom

(* w is s and after it the payloads in W, each at its number. *)
Appended(s, W, k, w) ==
  /\ Len(w) = Len(s) + k
  /\ \A i \in 1..Len(s) : w[i] = s[i]
  /\ \A i \in (Len(s) + 1)..(Len(s) + k) : \E b \in W : b.cap.n = i /\ w[i] = b.cap.data

(* A window that continues the file. *)
LEMMA WrittenSink ==
  ASSUME NEW s \in Seq(Chunk), NEW W, NEW k \in Nat, Covers(W, Len(s), k)
  PROVE  Appended(s, W, k, WriteWindow(s, W))
<1>1. PICK w : w = WriteWindow(s, W)
  OBVIOUS
<1>2. PICK lo \in Nat : lo = Len(s)
  OBVIOUS
<1>3. AppendedFrom(lo, s, W, k, w)
  BY <1>1, <1>2, WrittenAfter
<1>4. ASSUME NEW i \in (Len(s) + 1)..(Len(s) + k)
      PROVE  \E b \in W : b.cap.n = i /\ w[i] = b.cap.data
  <2>1. i - lo \in 1..k /\ lo + (i - lo) = i
    BY <1>2
  <2> QED BY <1>2, <1>3, <2>1 DEF AppendedFrom
<1> QED BY <1>1, <1>3, <1>4 DEF Appended, AppendedFrom

(* rbegin() of a window that is not empty is the buffer with the largest   *)
(* key.                                                                    *)
LEMMA HighestIsLast ==
  ASSUME NEW W \in SUBSET MemBuff, Keyed(W), W # {}
  PROVE  /\ Highest(W) \in W
         /\ \A x \in W : x.cap.capid <= Highest(W).cap.capid
<1> DEFINE n == Cardinality(W)
<1>1. IsFiniteSet(W) /\ n \in Nat /\ n # 0
  BY FS_CardinalityType, FS_EmptySet DEF Keyed
<1>2. PICK b \in W : Rank(W, b) = n
  BY <1>1, RankExists
<1>3. PICK B : B = {x \in W : x.cap.capid <= b.cap.capid}
  OBVIOUS
<1>4. B \in SUBSET W /\ Cardinality(B) = Cardinality(W)
  BY <1>2, <1>3 DEF Rank
<1>5. B = W
  BY <1>1, <1>4, FS_Subset
<1>6. \A x \in W : x.cap.capid <= b.cap.capid
  BY <1>3, <1>5
<1> QED BY <1>6 DEF Highest

-----------------------------------------------------------------------------
(* The types and the numbers of everything the transfer is about. *)
LEMMA Numbers ==
  ASSUME TypeInv, KeyInv
  PROVE  /\ Len(sink) \in Nat /\ lost \in Nat
         /\ \A d \in Dir : ses[d].winSize \in Nat /\ ses[d].capsuleId \in Nat
         /\ Sent \in Int
         /\ \A d \in Dir : txFactory[d].fin \in BOOLEAN /\ rxFactory[d].fin \in BOOLEAN
         /\ \A m \in net[RX] :
              m.n \in Nat /\ m.capid = m.n /\ m.n <= Sent /\ m.fin \in BOOLEAN
         /\ \A b \in rxcurrentWindow[RX] :
              /\ b.cap.n \in Nat /\ b.cap.capid = b.cap.n /\ b.cap.n <= Sent
              /\ b.cap.fin \in BOOLEAN
              /\ b.cap.fin <=> (txFactory[TX].fin /\ b.cap.n = Sent)
<1>0. TypeOK /\ TX \in Dir /\ RX \in Dir /\ AllStamped
  BY DEF TypeInv, KeyInv, Dir
<1>1. /\ Len(sink) \in Nat /\ lost \in Nat
      /\ \A d \in Dir : ses[d].winSize \in Nat /\ ses[d].capsuleId \in Nat
  <2>1. sink \in Seq(Chunk) /\ lost \in Nat
    BY <1>0 DEF TypeOK
  <2>2. \A d \in Dir : ses[d].winSize \in Nat /\ ses[d].capsuleId \in Nat
    BY <1>0 DEF TypeOK, SessionState
  <2> QED BY <2>1, <2>2, LenProperties
<1>2. Sent \in Int /\ \A n \in Nat : n < ses[TX].capsuleId <=> n <= Sent
  BY <1>0, <1>1 DEF Sent
<1>3. \A d \in Dir : txFactory[d].fin \in BOOLEAN /\ rxFactory[d].fin \in BOOLEAN
  BY <1>0 DEF TypeOK, TxFactory, RxFactory
<1>4. \A m \in net[RX] : m.n \in Nat /\ m.fin \in BOOLEAN
  BY <1>0 DEF TypeOK, Capsule
<1>5. \A b \in rxcurrentWindow[RX] : b.cap.n \in Nat /\ b.cap.fin \in BOOLEAN
  BY <1>0 DEF TypeOK, MemBuff, Capsule
<1>6. \A n \in Nat : n + 1 = ses[TX].capsuleId <=> n = Sent
  BY <1>0, <1>1 DEF Sent
<1>7. \A m \in net[RX] : m.capid = m.n /\ m.n <= Sent
  BY <1>0, <1>2, <1>4 DEF AllStamped, Stamped
<1>8. \A b \in rxcurrentWindow[RX] :
        /\ b.cap.capid = b.cap.n /\ b.cap.n <= Sent
        /\ b.cap.fin <=> (txFactory[TX].fin /\ b.cap.n = Sent)
  BY <1>0, <1>2, <1>5, <1>6 DEF AllStamped, Stamped
<1> QED BY <1>1, <1>2, <1>3, <1>4, <1>5, <1>7, <1>8

(* The client's part of the window, and what is written, when the server   *)
(* moves.                                                                  *)
LEMMA ClientKept ==
  ASSUME ses'[RX] = ses[RX], rxFactory'[RX] = rxFactory[RX],
         txFactory'[RX] = txFactory[RX],
         rxcurrentWindow'[RX] = rxcurrentWindow[RX], sink' = sink
  PROVE  /\ Returned(RX)' = Returned(RX)
         /\ WrittenWindows' = WrittenWindows
         /\ \A n : Held(n)' = Held(n)
         /\ \/ txFactory'[TX].fin = txFactory[TX].fin /\ Sent' = Sent
            \/ ~rxFactory[RX].fin
            => (ClientInWindow => ClientInWindow')
BY DEF Returned, WrittenWindows, Held, ClientInWindow

LEMMA TransferServer ==
  ASSUME TypeInv, Owned, KeyInv, ShakeInv, TransferInv, Server,
         TypeInv', KeyInv', ShakeInv'
  PROVE  TransferInv'
<1>0. /\ TypeOK /\ SourceCount /\ ServerReady /\ InStep
      /\ TX \in Dir /\ RX \in Dir /\ TX # RX
      /\ WIN_SIZ \in Nat /\ WIN_SIZ > 0
  BY WindowFits DEF TypeInv, Owned, KeyInv, ShakeInv, Dir, TX, RX
<1>1. /\ ses'[RX] = ses[RX] /\ rxFactory'[RX] = rxFactory[RX]
      /\ txFactory'[RX] = txFactory[RX]
      /\ rxcurrentWindow'[RX] = rxcurrentWindow[RX]
      /\ fileSize' = fileSize /\ sink' = sink
  BY <1>0, ServerFrame
<1>2. CASE openStateTX
  <2>1. ses[TX].next = "open" /\ ses'[TX].next = "setup" /\ txFactory'[TX] = txFactory[TX]
    BY <1>0, <1>2, OpenTX
  <2>2. ~Past(TX) /\ ~Past(TX)'
    BY <2>1 DEF Past, Returned
  <2>3. ses'[TX].capsuleId = 0
    BY <2>1 DEF KeyInv, SourceCount
  <2>4. Fresh'
    BY <1>1, <2>1, <2>2, <2>3 DEF TransferInv, Fresh
  <2> QED BY <2>2, <2>4 DEF TransferInv
<1>3. CASE setupStateTX
  <2>1. /\ ses[TX].next = "setup" /\ ses'[TX].next = "connected"
        /\ ses'[TX].complete = ses[TX].complete
        /\ ses'[TX].capsuleId = ses[TX].capsuleId + 1
    BY <1>0, <1>3, SetupTX
  <2>2. ~Past(TX)
    BY <2>1 DEF Past, Returned
  <2>3. ~Past(TX)'
    BY <1>0, <2>1, <2>2 DEF Past, Returned, InStep
  <2>4. ses'[TX].capsuleId = 1
    <3>1. ses[TX].capsuleId = 0
      BY <1>0, <2>1 DEF SourceCount
    <3> QED BY <2>1, <3>1
  <2>5. ~txFactory'[TX].fin
    BY <2>4 DEF KeyInv, SourceCount
  <2>6. Fresh'
    BY <1>1, <2>2, <2>4, <2>5 DEF TransferInv, Fresh
  <2> QED BY <2>3, <2>6 DEF TransferInv
<1>4. CASE connectedStateTX
  <2>1. /\ ses[TX].next = "connected" /\ ~ses[TX].complete
        /\ ses'[TX].next = "closed"
        /\ ses'[TX].capsuleId = ses[TX].capsuleId
        /\ txFactory'[TX] = txFactory[TX]
        /\ \E m \in net[TX] : net'[TX] = net[TX] \ {m} /\ ses'[TX].winSize = m.win
        /\ net'[RX] = net[RX]
    BY <1>0, <1>4, ConnectedTX
  <2>2. ~Past(TX) /\ Past(TX)'
    BY <2>1 DEF Past, Returned
  <2>3. Fresh /\ Greeting
    BY <1>0, <2>2 DEF TransferInv, InStep
  <2>4. /\ ses[RX].next = "closed" /\ ses[RX].winSize = WIN_SIZ /\ Quiet(RX)
        /\ Awaits(TX) /\ \A m \in net[TX] : IsAck(m)
    BY <2>1, <2>3 DEF Greeting, Quiet
  <2>5. net'[TX] = {} /\ ses'[TX].winSize = WIN_SIZ /\ net'[RX] = {}
    BY <2>1, <2>4 DEF Awaits, IsAck, Quiet
  <2>6. Sent' = 0
    <3>1. ses[TX].capsuleId \in Nat /\ ses[TX].capsuleId # 0 /\ ses[TX].capsuleId <= 1
      BY <1>0, <2>1, <2>3 DEF TypeOK, SessionState, SourceCount, Fresh
    <3>2. ses[TX].capsuleId = 1
      BY <3>1
    <3> QED BY <2>1, <3>2 DEF Sent
  <2>7. /\ sink' = <<>> /\ Len(sink') = 0 /\ Len(txFactory'[RX].buffer) = 0
        /\ rxcurrentWindow'[RX] = {} /\ ~rxFactory'[RX].fin /\ ~txFactory'[TX].fin
        /\ Cardinality(rxcurrentWindow'[RX]) = 0
    BY <1>1, <2>1, <2>3, FS_EmptySet DEF Fresh
  <2>8. ServerInWindow'
    BY <1>0, <2>1, <2>5, <2>6, <2>7 DEF ServerInWindow
  <2>9. ClientInWindow'
    BY <1>0, <1>1, <2>4, <2>7 DEF ClientInWindow
  <2>10. PayloadsInWindow' /\ DataOnly'
    BY <2>5, <2>6, <2>7 DEF PayloadsInWindow, DataOnly
  <2>11. WrittenWindows'
    BY <1>0, <2>7 DEF WrittenWindows
  <2>12. Filling'
    BY <2>5, <2>8, <2>9, <2>10, <2>11 DEF Filling, Quiet
  <2> QED BY <2>2, <2>10, <2>12 DEF TransferInv
<1>5. CASE closedStateTX
  <2>0. /\ Len(sink) \in Nat /\ ses[TX].winSize \in Nat /\ ses[TX].capsuleId \in Nat
        /\ Sent \in Int
        /\ \A m \in net[RX] : m.n \in Nat /\ m.n <= Sent
        /\ \A b \in rxcurrentWindow[RX] : b.cap.n \in Nat /\ b.cap.n <= Sent
    BY <1>0, Numbers
  <2>1. /\ ses[TX].next = "closed" /\ ses'[TX].next = "closed"
        /\ ses[TX].winSize > 0
        /\ ses'[TX].winSize = IF txFactory'[TX].fin THEN 0 ELSE ses[TX].winSize - 1
        /\ ses'[TX].capsuleId = ses[TX].capsuleId + 1
        /\ ~txFactory[TX].fin
        /\ net'[TX] = net[TX]
    BY <1>0, <1>5, ClosedTX
  <2>2. PICK c : /\ c.capType = "PAYLD" /\ c.n = ses[TX].capsuleId
                 /\ c.from = "peer"
                 /\ net'[RX] \subseteq net[RX] \cup {c}
                 /\ lost' = 0 => /\ lost = 0 /\ net[RX] \subseteq net'[RX]
                                 /\ c \in net'[RX]
    BY <1>0, <1>5, ClosedTX
  <2>3. Past(TX) /\ Past(TX)'
    BY <2>1 DEF Past
  <2>4. Filling /\ DataOnly
    <3>1. ~Answered
      BY <1>0, <2>1 DEF Answered
    <3>2. ~Finished
      BY <1>0, <2>1 DEF Finished, Returned
    <3> QED BY <2>3, <3>1, <3>2 DEF TransferInv
  <2>5. Sent' = Sent + 1 /\ c.n = Sent + 1
    BY <2>0, <2>1, <2>2 DEF Sent
  <2>6. /\ Len(sink) <= Sent /\ Sent = Len(sink) + WIN_SIZ - ses[TX].winSize
        /\ ~rxFactory[RX].fin
    BY <2>1, <2>4 DEF Filling, ServerInWindow, ClientInWindow
  <2>7. ServerInWindow'
    <3>1. /\ Len(sink) <= Sent + 1 /\ Sent + 1 <= Len(sink) + WIN_SIZ
          /\ Len(sink) < Sent + 1
          /\ Sent + 1 = Len(sink) + WIN_SIZ - (ses[TX].winSize - 1)
      BY <1>0, <2>0, <2>1, <2>6
    <3> QED BY <1>1, <2>1, <2>5, <3>1 DEF ServerInWindow
  <2>8. ClientInWindow' /\ WrittenWindows' /\ \A n : Held(n)' = Held(n)
    BY <1>1, <2>4, <2>6, ClientKept DEF Filling
  <2>9. PayloadsInWindow'
    <3>1. ~Held(c.n) /\ Len(sink) < c.n
      BY <2>0, <2>5, <2>6 DEF Held
    <3>2. \A m \in net'[RX] : Len(sink) < m.n /\ ~Held(m.n)
      BY <2>2, <2>4, <3>1 DEF Filling, PayloadsInWindow
    <3>3. ~Reorder => \A m \in net'[RX], b \in rxcurrentWindow[RX] : b.cap.n < m.n
      <4>1. \A b \in rxcurrentWindow[RX] : b.cap.n < c.n
        BY <2>0, <2>5
      <4> QED BY <2>2, <2>4, <4>1 DEF Filling, PayloadsInWindow
    <3>4. ASSUME lost' = 0, NEW n \in (Len(sink) + 1)..(Sent + 1)
          PROVE  Held(n) \/ UnderWay(n)'
      <4>1. CASE n = Sent + 1
        BY <2>2, <2>5, <3>4, <4>1 DEF UnderWay
      <4>2. CASE n # Sent + 1
        <5>1. n \in (Len(sink) + 1)..Sent
          BY <2>0, <4>2
        <5>2. Held(n) \/ UnderWay(n)
          BY <2>2, <2>4, <3>4, <5>1 DEF Filling, PayloadsInWindow
        <5> QED BY <2>2, <3>4, <5>2 DEF UnderWay
      <4> QED BY <4>1, <4>2
    <3> QED BY <1>1, <2>4, <2>5, <2>8, <3>2, <3>3, <3>4 DEF PayloadsInWindow, Filling
  <2>10. DataOnly'
    <3>1. \A m \in net[RX] : m.n # c.n
      BY <2>0, <2>5
    <3> QED BY <2>2, <2>4, <3>1 DEF DataOnly
  <2>11. Filling'
    BY <2>1, <2>4, <2>7, <2>8, <2>9 DEF Filling, Quiet
  <2> QED BY <2>3, <2>10, <2>11 DEF TransferInv
<1>6. CASE bufferIsNull \/ closedStateExit(TX) \/ divideByZero(TX) \/ ioError(TX)
  <2>1. /\ \/ ses[TX].next = "closed" /\ ses'[TX].next = "done" /\ ses[TX].winSize = 0
           \/ ses'[TX].next = ses[TX].next
        /\ ses'[TX].complete = ses[TX].complete
        /\ ses'[TX].winSize = ses[TX].winSize
        /\ ses'[TX].capsuleId = ses[TX].capsuleId
    BY <1>0, <1>6, Stops
  <2>2. UNCHANGED <<net, lost, txFactory>>
    BY <1>6 DEF bufferIsNull, closedStateExit, divideByZero, ioError, gatewayVars
  <2>3. Past(TX)' = Past(TX) /\ Sent' = Sent /\ (Returned(TX) => Returned(TX)')
    BY <2>1 DEF Past, Returned, Sent
  <2>4. ses[TX].next \in {"closed", "done"} => ses'[TX].next \in {"closed", "done"}
    BY <2>1
  <2>5. Fresh => Fresh'
    BY <1>1, <2>1, <2>2 DEF Fresh
  <2>6. DataOnly => DataOnly'
    BY <2>2 DEF DataOnly
  <2>7. /\ Returned(RX)' = Returned(RX)
        /\ WrittenWindows' = WrittenWindows
        /\ \A n : Held(n)' = Held(n)
        /\ ClientInWindow => ClientInWindow'
    BY <1>1, <2>2, <2>3, ClientKept
  <2>8. Filling => Filling'
    <3>1. ServerInWindow => ServerInWindow'
      BY <1>1, <2>1, <2>2, <2>3, <2>4 DEF ServerInWindow
    <3>2. PayloadsInWindow => PayloadsInWindow'
      BY <1>1, <2>2, <2>3, <2>7 DEF PayloadsInWindow, UnderWay
    <3> QED BY <2>2, <2>7, <3>1, <3>2 DEF Filling, Quiet
  <2>9. Answered => Answered'
    BY <1>1, <2>1, <2>2, <2>3, <2>4, <2>7 DEF Answered, Awaits, Quiet
  <2>10. Finished => Finished'
    BY <1>1, <2>1, <2>2, <2>3, <2>4, <2>7 DEF Finished, Awaits, Quiet
  <2> QED BY <2>3, <2>5, <2>6, <2>8, <2>9, <2>10 DEF TransferInv
<1>7. CASE doneStateTX
  <2>1. /\ ses[TX].next = "done" /\ ses'[TX].complete
        /\ ses'[TX].next = IF txFactory[TX].fin THEN "connected" ELSE "closed"
        /\ ses'[TX].winSize = IF txFactory[TX].fin THEN ses[TX].winSize ELSE WIN_SIZ
        /\ ses'[TX].capsuleId = ses[TX].capsuleId
        /\ txFactory'[TX] = txFactory[TX]
        /\ \E m \in net[TX] : net'[TX] = net[TX] \ {m}
        /\ net'[RX] = net[RX] /\ lost' = lost
    BY <1>0, <1>7, DoneTX
  <2>2. Past(TX) /\ Past(TX)'
    BY <2>1 DEF Past, Returned
  <2>3. DataOnly' /\ ~Filling
    BY <2>1, <2>2 DEF TransferInv, DataOnly, Filling, Quiet
  <2>4. Sent' = Sent /\ Returned(RX)' = Returned(RX) /\ WrittenWindows' = WrittenWindows
    BY <1>1, <2>1, ClientKept DEF Sent
  <2>5. CASE Answered
    <3>1. net'[TX] = {} /\ net'[RX] = {}
      BY <2>1, <2>5 DEF Answered, Awaits, Quiet
    <3>2. ses'[TX].next = "closed" /\ ses'[TX].winSize = WIN_SIZ /\ ~txFactory'[TX].fin
      BY <2>1, <2>5 DEF Answered
    <3>3. Sent' = Len(sink) /\ Len(sink) \in Nat
      BY <2>4, <2>5, Numbers DEF Answered
    <3>4. ServerInWindow'
      BY <1>0, <1>1, <3>2, <3>3 DEF ServerInWindow
    <3>5. ClientInWindow'
      BY <1>0, <1>1, <2>5, FS_EmptySet DEF ClientInWindow, Answered
    <3>6. PayloadsInWindow'
      BY <1>1, <2>5, <3>1, <3>3 DEF PayloadsInWindow, Answered
    <3>7. Filling'
      BY <2>4, <2>5, <3>1, <3>4, <3>5, <3>6 DEF Filling, Quiet, Answered
    <3> QED BY <2>2, <2>3, <3>7 DEF TransferInv
  <2>6. CASE Finished
    <3>1. txFactory[TX].fin /\ ses[TX].next # "connected"
      BY <2>1, <2>6 DEF Finished
    <3>2. Returned(TX)'
      BY <2>1, <3>1 DEF Returned
    <3>3. Awaits(TX)
      BY <2>6, <3>1 DEF Finished, Returned
    <3>4. Quiet(TX)'
      BY <2>1, <3>3 DEF Awaits, Quiet
    <3>5. Finished'
      BY <1>1, <2>1, <2>4, <2>6, <3>2, <3>4 DEF Finished
    <3> QED BY <2>2, <2>3, <3>5 DEF TransferInv
  <2> QED BY <2>2, <2>3, <2>5, <2>6 DEF TransferInv
<1> QED BY <1>2, <1>3, <1>4, <1>5, <1>6, <1>7 DEF Server

(* The client files a payload (presentation.h:85, session.h:501): it was   *)
(* not in the window yet, and FIN is seen when it arrives, for then it is  *)
(* the highest.                                                            *)
LEMMA PayloadFiled ==
  ASSUME TypeInv, KeyInv, FinOnlyOnLast, Filling, DataOnly,
         NEW m \in net[RX], NEW W, W = Windowed(RX, m),
         NEW fin, fin = (rxFactory[RX].fin \/ (W # {} /\ Highest(W).cap.fin)),
         ~rxFactory[RX].fin
  PROVE  /\ W # {}
         /\ \A x : x \in W <=> x \in rxcurrentWindow[RX] \/ x = NewBuff(RX, m)
         /\ NewBuff(RX, m).cap = m
         /\ Cardinality(W) = Cardinality(rxcurrentWindow[RX]) + 1
         /\ fin = m.fin
         /\ m.fin => txFactory[TX].fin /\ m.n = Sent /\ m.data.off + m.data.len = fileSize
<1> DEFINE V == rxcurrentWindow[RX]
           b == NewBuff(RX, m)
<1>0. /\ TypeOK /\ RX \in Dir /\ V \in SUBSET MemBuff /\ Keyed(V)
      /\ hdrid[RX] \in Nat /\ m \in Capsule
  BY DEF TypeInv, TypeOK, Dir, WindowsKeyed
<1>1. b \in MemBuff /\ b.cap = m
  BY <1>0 DEF NewBuff, MemBuff
<1>2. /\ \A x \in V : x.cap.capid = x.cap.n /\ x.cap.n \in Nat /\ x.cap.n <= Sent
      /\ m.capid = m.n /\ m.n \in Nat /\ m.n <= Sent /\ m.fin \in BOOLEAN /\ Sent \in Int
  BY Numbers
<1>3. \A x \in V : x.cap.n # m.n
  BY DEF Filling, PayloadsInWindow, Held
<1>4. W = {x \in V : x.cap.capid # b.cap.capid} \cup {b}
  BY DEF DataOnly, Windowed, WindowPut
<1> HIDE DEF b
<1>5. \A x : x \in W <=> x \in V \/ x = b
  BY <1>1, <1>2, <1>3, <1>4
<1>6. b \notin V
  BY <1>1, <1>3
<1>7. W = V \cup {b} /\ W # {} /\ W \in SUBSET MemBuff
  BY <1>0, <1>1, <1>5
<1>8. Cardinality(W) = Cardinality(V) + 1
  BY <1>0, <1>6, <1>7, FS_AddElement DEF Keyed
<1>9. Keyed(W)
  <2>1. W = WindowPut(V, b)
    BY <1>4 DEF WindowPut
  <2> QED BY <1>0, <2>1, WindowPutKeyed
<1>10. m.fin => txFactory[TX].fin /\ m.n = Sent /\ m.data.off + m.data.len = fileSize
  <2>1. ses[TX].capsuleId \in Nat
    BY Numbers DEF Dir
  <2>2. m.fin => txFactory[TX].fin /\ m.n + 1 = ses[TX].capsuleId
    BY DEF KeyInv, AllStamped, Stamped, DataOnly
  <2>3. m.n + 1 = ses[TX].capsuleId => m.n = Sent
    BY <1>2, <2>1 DEF Sent
  <2> QED BY <2>2, <2>3 DEF FinOnlyOnLast
<1>11. Highest(W) \in W /\ \A x \in W : x.cap.capid <= Highest(W).cap.capid
  BY <1>7, <1>9, HighestIsLast
<1>12. fin = Highest(W).cap.fin
  <2>1. PICK h \in MemBuff : h = Highest(W)
    BY <1>7, <1>11
  <2>2. h.cap.fin \in BOOLEAN
    BY DEF MemBuff, Capsule
  <2>3. fin = (rxFactory[RX].fin \/ (W # {} /\ h.cap.fin))
    BY <2>1
  <2> QED BY <1>7, <2>1, <2>2, <2>3
<1>13. Highest(W).cap.fin = m.fin
  <2>1. CASE m.fin
    <3>1. b \in W /\ b.cap.capid = Sent
      BY <1>1, <1>2, <1>5, <1>10, <2>1
    <3>2. \A x \in V : x.cap.capid < Sent
      BY <1>2, <1>3, <1>10, <2>1
    <3>3. Highest(W) = b
      <4>1. Sent <= Highest(W).cap.capid
        BY <1>11, <3>1
      <4>2. Highest(W) \notin V
        <5> SUFFICES ASSUME Highest(W) \in V PROVE FALSE
          OBVIOUS
        <5>1. PICK h \in V : h = Highest(W)
          OBVIOUS
        <5>2. h.cap.capid \in Nat /\ Sent <= h.cap.capid /\ h.cap.capid < Sent
          BY <1>2, <3>2, <4>1, <5>1
        <5> QED BY <1>2, <5>2
      <4> QED BY <1>5, <1>11, <4>2
    <3> QED BY <1>1, <3>3
  <2>2. CASE ~m.fin
    <3>1. \A x \in V : ~x.cap.fin
      BY DEF Filling, ClientInWindow
    <3>2. \A x \in V : x.cap.fin \in BOOLEAN
      BY Numbers
    <3>3. \A x \in W : x.cap.fin = m.fin
      BY <1>1, <1>2, <1>5, <2>2, <3>1, <3>2
    <3> QED BY <1>11, <3>3
  <2> QED BY <2>1, <2>2
<1> QED BY <1>1, <1>5, <1>7, <1>8, <1>10, <1>12, <1>13 DEF b

(* A step of the client in closedState fills the window. *)
LEMMA TransferClosedRX ==
  ASSUME TypeInv, KeyInv, FinOnlyOnLast, Filling, DataOnly, closedStateRX,
         ses'[TX] = ses[TX], txFactory'[TX] = txFactory[TX], fileSize' = fileSize
  PROVE  Filling' /\ DataOnly'
<1>0. TypeOK /\ TX \in Dir /\ RX \in Dir /\ WIN_SIZ \in Nat
  BY WindowFits DEF TypeInv, Dir
<1>1. /\ ses[RX].winSize \in Nat /\ ses[RX].winSize > 0 /\ ses[RX].next = "closed"
      /\ Sent \in Int
  BY <1>0, Numbers, ClosedRX
<1>2. /\ ~rxFactory[RX].fin /\ ses[RX].winSize <= WIN_SIZ
      /\ Cardinality(rxcurrentWindow[RX]) = WIN_SIZ - ses[RX].winSize
      /\ \A b \in rxcurrentWindow[RX] : ~b.cap.fin
  <2>1. ~rxFactory[RX].fin
    BY <1>1 DEF Filling, ClientInWindow
  <2> QED BY <2>1 DEF Filling, ClientInWindow
<1>3. PICK m \in Deliverable(RX) :
         LET W == Windowed(RX, m)
             fin == rxFactory[RX].fin \/ (W # {} /\ Highest(W).cap.fin)
         IN  /\ ses'[RX].next = "closed"
             /\ ses'[RX].winSize = IF W # {} /\ fin THEN 0 ELSE ses[RX].winSize - 1
             /\ rxcurrentWindow'[RX] = W /\ rxFactory'[RX].fin = fin
             /\ txFactory' = txFactory /\ sink' = sink
             /\ m \in net[RX] /\ net'[RX] = net[RX] \ {m}
             /\ net'[TX] = net[TX] /\ lost' = lost
  BY <1>0, ClosedRX
<1>4. PICK W : W = Windowed(RX, m)
  OBVIOUS
<1>5. PICK fin : fin = (rxFactory[RX].fin \/ (W # {} /\ Highest(W).cap.fin))
  OBVIOUS
<1>6. PICK b : b = NewBuff(RX, m)
  OBVIOUS
<1>7. /\ ses'[RX].next = "closed"
      /\ ses'[RX].winSize = IF W # {} /\ fin THEN 0 ELSE ses[RX].winSize - 1
      /\ rxcurrentWindow'[RX] = W /\ rxFactory'[RX].fin = fin
      /\ txFactory' = txFactory /\ sink' = sink
      /\ m \in net[RX] /\ net'[RX] = net[RX] \ {m}
      /\ net'[TX] = net[TX] /\ lost' = lost
  BY <1>3, <1>4, <1>5
<1>8. /\ W # {}
      /\ \A x : x \in W <=> x \in rxcurrentWindow[RX] \/ x = b
      /\ b.cap = m
      /\ Cardinality(W) = Cardinality(rxcurrentWindow[RX]) + 1
      /\ fin = m.fin
      /\ m.fin => txFactory[TX].fin /\ m.n = Sent /\ m.data.off + m.data.len = fileSize
  BY <1>2, <1>4, <1>5, <1>6, <1>7, PayloadFiled
<1>9. \A n : Held(n)' <=> Held(n) \/ n = m.n
  BY <1>7, <1>8 DEF Held
<1>10. Sent' = Sent
  BY DEF Sent
<1>11. DataOnly'
  BY <1>7 DEF DataOnly
<1>12. ServerInWindow' /\ WrittenWindows' /\ Quiet(TX)'
  BY <1>7, <1>10 DEF Filling, ServerInWindow, WrittenWindows, Quiet
<1>13. ClientInWindow'
  <2>1. CASE fin
    <3>1. txFactory'[TX].fin /\ m.n = Sent' /\ b \in rxcurrentWindow'[RX] /\ b.cap = m
      BY <1>7, <1>8, <1>10, <2>1
    <3>2. Held(Sent)'
      BY <3>1 DEF Held
    <3>3. ses'[RX].winSize = 0 /\ rxFactory'[RX].fin
      BY <1>7, <1>8, <2>1
    <3> QED BY <1>7, <3>1, <3>2, <3>3 DEF ClientInWindow
  <2>2. CASE ~fin
    <3>1. ses'[RX].winSize = ses[RX].winSize - 1 /\ ~rxFactory'[RX].fin
      BY <1>7, <2>2
    <3>2. /\ ses[RX].winSize - 1 <= WIN_SIZ
          /\ WIN_SIZ - ses[RX].winSize + 1 = WIN_SIZ - (ses[RX].winSize - 1)
      BY <1>0, <1>1, <1>2
    <3>3. Cardinality(W) = WIN_SIZ - (ses[RX].winSize - 1)
      BY <1>2, <1>8, <3>2
    <3>4. \A x \in W : ~x.cap.fin
      BY <1>2, <1>8, <2>2
    <3> QED BY <1>7, <3>1, <3>2, <3>3, <3>4 DEF ClientInWindow
  <2> QED BY <2>1, <2>2
<1>14. PayloadsInWindow'
  <2>1. \A x \in net'[RX] : x \in net[RX] /\ x.n # m.n
    BY <1>7 DEF DataOnly
  <2>2. \A x \in net'[RX] : Len(sink) < x.n /\ ~Held(x.n)'
    BY <1>9, <2>1 DEF Filling, PayloadsInWindow
  <2>3. \A x \in W : /\ Len(sink) < x.cap.n
                     /\ x.cap.fin => x.cap.data.off + x.cap.data.len = fileSize
    BY <1>7, <1>8 DEF Filling, PayloadsInWindow
  <2>4. ASSUME ~Reorder, NEW x \in net'[RX], NEW y \in W PROVE y.cap.n < x.n
    <3>1. CASE y \in rxcurrentWindow[RX]
      BY <2>1, <2>4, <3>1 DEF Filling, PayloadsInWindow
    <3>2. CASE y = b
      <4>1. x \in net[RX] /\ x.from = m.from /\ x.n # m.n
        BY <1>7, <2>1 DEF DataOnly
      <4>2. m.n <= x.n
        BY <1>3, <2>4, <4>1 DEF Deliverable
      <4>3. m.n \in Nat /\ x.n \in Nat
        BY <1>7, <4>1, Numbers
      <4> QED BY <1>8, <3>2, <4>1, <4>2, <4>3
    <3> QED BY <1>8, <3>1, <3>2
  <2>5. ASSUME lost' = 0, NEW n \in (Len(sink) + 1)..Sent
        PROVE  Held(n)' \/ UnderWay(n)'
    <3>1. Held(n) \/ UnderWay(n)
      BY <1>7, <2>5 DEF Filling, PayloadsInWindow
    <3>2. UnderWay(n) => n = m.n \/ UnderWay(n)'
      BY <1>7 DEF UnderWay
    <3> QED BY <1>9, <3>1, <3>2
  <2> QED BY <1>7, <1>10, <2>2, <2>3, <2>4, <2>5 DEF PayloadsInWindow
<1> QED BY <1>11, <1>12, <1>13, <1>14 DEF Filling

(* The client's window holds payloads of the window under way, one of each *)
(* number; it is full when it holds WIN_SIZ, or every number that was sent.*)
LEMMA WindowCount ==
  ASSUME TypeInv, KeyInv, Filling, NEW hi \in Int, Sent <= hi
  PROVE  /\ Keyed(rxcurrentWindow[RX]) /\ rxcurrentWindow[RX] \in SUBSET MemBuff
         /\ \A b \in rxcurrentWindow[RX] : b.cap.n \in (Len(sink) + 1)..hi
         /\ hi >= Len(sink) =>
              /\ Cardinality(rxcurrentWindow[RX]) <= hi - Len(sink)
              /\ Cardinality(rxcurrentWindow[RX]) = hi - Len(sink)
                   <=> \A n \in (Len(sink) + 1)..hi : Held(n)
<1> DEFINE W == rxcurrentWindow[RX]
           f == [b \in W |-> b.cap.n]
<1>0. Keyed(W) /\ W \in SUBSET MemBuff
  BY DEF TypeInv, WindowsKeyed, TypeOK, Dir
<1>1. /\ Len(sink) \in Nat /\ Sent \in Int
      /\ \A b \in W : b.cap.n \in Nat /\ b.cap.capid = b.cap.n /\ b.cap.n <= Sent
  BY Numbers
<1>2. \A b \in W : Len(sink) < b.cap.n
  BY DEF Filling, PayloadsInWindow
<1>3. \A b \in W : b.cap.n \in (Len(sink) + 1)..hi
  BY <1>1, <1>2
<1>4. ASSUME hi >= Len(sink)
      PROVE  /\ Cardinality(W) <= hi - Len(sink)
             /\ Cardinality(W) = hi - Len(sink) <=> \A n \in (Len(sink) + 1)..hi : Held(n)
  <2>1. PICK k \in Nat : k = hi - Len(sink) /\ hi = Len(sink) + k
    BY <1>1, <1>4
  <2>2. f \in [W -> (Len(sink) + 1)..(Len(sink) + k)]
    BY <1>3, <2>1
  <2>3. \A x, y \in W : f[x] = f[y] => x = y
    BY <1>0, <1>1 DEF Keyed
  <2>4. \A n : Held(n) <=> \E x \in W : f[x] = n
    BY DEF Held
  <2> HIDE DEF f, W
  <2>5. /\ Cardinality(W) <= k
        /\ Cardinality(W) = k
             <=> \A n \in (Len(sink) + 1)..(Len(sink) + k) : \E x \in W : f[x] = n
    BY <1>1, <2>2, <2>3, CountInRange
  <2> QED BY <2>1, <2>4, <2>5
<1> QED BY <1>0, <1>3, <1>4

(* The client writes a window that is not the last (session.h:541): it is  *)
(* complete, whatever order its payloads came in.                          *)
LEMMA WindowWritten ==
  ASSUME TypeInv, KeyInv, Filling, DataOnly, doneStateRX, ~rxFactory[RX].fin,
         ses'[TX] = ses[TX], txFactory'[TX] = txFactory[TX]
  PROVE  Answered'
<1>0. TypeOK /\ TX \in Dir /\ RX \in Dir /\ TX # RX /\ WIN_SIZ \in Nat /\ WIN_SIZ > 0
  BY WindowFits DEF TypeInv, Dir, TX, RX
<1> DEFINE W == rxcurrentWindow[RX]
           L == Len(sink)
<1>1. /\ L \in Nat /\ Sent \in Int /\ ses[TX].winSize \in Nat
      /\ \A m \in net[RX] : m.n \in Nat /\ m.n <= Sent
      /\ \A b \in W : /\ b.cap.n \in Nat /\ b.cap.capid = b.cap.n /\ b.cap.n <= Sent
                      /\ b.cap.fin <=> (txFactory[TX].fin /\ b.cap.n = Sent)
  BY <1>0, Numbers
<1>2. /\ ses[RX].next = "done" /\ ses'[RX].complete
      /\ ses'[RX].next = "closed" /\ ses'[RX].winSize = WIN_SIZ
      /\ ~rxFactory'[RX].fin /\ rxcurrentWindow'[RX] = {}
      /\ sink' = WriteWindow(sink, W)
      /\ txFactory'[RX].buffer = Append(txFactory[RX].buffer, NoData)
      /\ net'[RX] = net[RX]
      /\ \E c : /\ net'[TX] \subseteq net[TX] \cup {c}
                /\ lost' = 0 => lost = 0 /\ c \in net'[TX]
  BY <1>0, DoneRX
<1>3. /\ Cardinality(W) = WIN_SIZ /\ \A b \in W : ~b.cap.fin
  <2>1. ses[RX].winSize = 0 /\ Cardinality(W) = WIN_SIZ - ses[RX].winSize
    BY <1>2 DEF Filling, ClientInWindow
  <2> QED BY <1>0, <2>1 DEF Filling, ClientInWindow
<1>4. L <= Sent /\ Sent <= L + WIN_SIZ
  BY DEF Filling, ServerInWindow
<1>5. /\ Keyed(W) /\ W \in SUBSET MemBuff
      /\ \A b \in W : b.cap.n \in (L + 1)..(L + WIN_SIZ)
      /\ \A n \in (L + 1)..(L + WIN_SIZ) : Held(n)
  <2>1. PICK hi \in Int : hi = L + WIN_SIZ /\ hi >= L /\ hi - L = WIN_SIZ
    BY <1>0, <1>1
  <2>2. /\ Keyed(W) /\ W \in SUBSET MemBuff
        /\ \A b \in W : b.cap.n \in (L + 1)..hi
        /\ Cardinality(W) = hi - L <=> \A n \in (L + 1)..hi : Held(n)
    BY <1>4, <2>1, WindowCount
  <2> HIDE DEF W, L
  <2> QED BY <1>3, <2>1, <2>2
<1>6. Sent = L + WIN_SIZ
  <2>1. L + WIN_SIZ \in (L + 1)..(L + WIN_SIZ)
    BY <1>0, <1>1
  <2>2. PICK b \in W : b.cap.n = L + WIN_SIZ
    BY <1>5, <2>1 DEF Held
  <2> QED BY <1>0, <1>1, <1>4, <2>2
<1>7. ~txFactory[TX].fin /\ ses[TX].winSize = 0
  <2>1. Sent \in (L + 1)..(L + WIN_SIZ)
    BY <1>0, <1>1, <1>6
  <2>2. PICK b \in W : b.cap.n = Sent
    BY <1>5, <2>1 DEF Held
  <2>3. ~txFactory[TX].fin
    BY <1>1, <1>3, <2>2
  <2>4. Sent = L + WIN_SIZ - ses[TX].winSize
    BY <2>3 DEF Filling, ServerInWindow
  <2> QED BY <1>0, <1>1, <1>6, <2>3, <2>4
<1>8. net[RX] = {}
  <2> SUFFICES ASSUME NEW m \in net[RX] PROVE FALSE
    OBVIOUS
  <2>1. L < m.n /\ ~Held(m.n)
    BY DEF Filling, PayloadsInWindow
  <2>2. m.n \in (L + 1)..(L + WIN_SIZ)
    BY <1>0, <1>1, <1>6, <2>1
  <2> QED BY <1>5, <2>1, <2>2
<1>9. /\ Len(sink') = L + WIN_SIZ
      /\ \A i \in 1..L : sink'[i] = sink[i]
      /\ \A i \in (L + 1)..(L + WIN_SIZ) :
            \E b \in W : b.cap.n = i /\ sink'[i] = b.cap.data
  <2>1. sink \in Seq(Chunk)
    BY <1>0 DEF TypeOK
  <2>2. Covers(W, L, WIN_SIZ)
    BY <1>1, <1>5 DEF Covers, Held
  <2>3. Appended(sink, W, WIN_SIZ, WriteWindow(sink, W))
    BY <1>0, <2>1, <2>2, WrittenSink
  <2> QED BY <1>2, <2>3 DEF Appended
<1>10. ASSUME NEW i \in 1..(L + WIN_SIZ)
       PROVE  sink'[i] = [off |-> (i - 1) * PayloadSize, len |-> PayloadSize]
  <2>1. CASE i <= L
    <3>1. i \in 1..L
      BY <1>1, <2>1
    <3> QED BY <1>9, <3>1 DEF Filling, WrittenWindows
  <2>2. CASE ~(i <= L)
    <3>1. i \in (L + 1)..(L + WIN_SIZ)
      BY <1>0, <1>1, <2>2
    <3>2. PICK b \in W : b.cap.n = i /\ sink'[i] = b.cap.data
      BY <1>9, <3>1
    <3>3. b.cap.data.off = (i - 1) * PayloadSize /\ b.cap.data.len = PayloadSize
      BY <1>3, <3>2 DEF KeyInv, AllStamped, Stamped
    <3>4. b.cap.data \in Chunk
      BY <1>5 DEF MemBuff, Capsule
    <3>5. b.cap.data = [off |-> b.cap.data.off, len |-> b.cap.data.len]
      BY <3>4 DEF Chunk
    <3> QED BY <3>2, <3>3, <3>5
  <2> QED BY <2>1, <2>2
<1>11. WrittenWindows'
  <2>1. txFactory[RX].buffer \in Seq(Chunk) /\ NoData \in Chunk
    BY <1>0 DEF TypeOK, TxFactory, NoData, Chunk
  <2>2. /\ Len(txFactory[RX].buffer) \in Nat
        /\ Len(txFactory'[RX].buffer) = Len(txFactory[RX].buffer) + 1
    BY <1>2, <2>1
  <2>3. L = Len(txFactory[RX].buffer) * WIN_SIZ
    BY DEF Filling, WrittenWindows
  <2>4. L + WIN_SIZ = (Len(txFactory[RX].buffer) + 1) * WIN_SIZ
    BY <1>0, <2>2, <2>3
  <2> QED BY <1>9, <1>10, <2>2, <2>4 DEF WrittenWindows
<1>12. Sent' = Len(sink') /\ Len(sink') > 0
  BY <1>0, <1>1, <1>6, <1>9 DEF Sent
<1>13. Awaits(TX)'
  BY <1>2 DEF Filling, Quiet, Awaits
<1>14. ses'[TX].next \in {"closed", "done"}
  BY DEF Filling, ServerInWindow
<1> HIDE DEF W, L
<1> QED BY <1>2, <1>7, <1>8, <1>11, <1>12, <1>13, <1>14 DEF Answered, Quiet

(* The client writes the last window and returns (session.h:545): when     *)
(* nothing was lost and the payload with FIN came last, the file is whole. *)
LEMMA LastWindowWritten ==
  ASSUME TypeInv, KeyInv, Filling, DataOnly, doneStateRX, rxFactory[RX].fin,
         ses'[TX] = ses[TX], txFactory'[TX] = txFactory[TX], fileSize' = fileSize
  PROVE  Finished'
<1>0. TypeOK /\ TX \in Dir /\ RX \in Dir /\ TX # RX /\ WIN_SIZ \in Nat /\ WIN_SIZ > 0
  BY WindowFits DEF TypeInv, Dir, TX, RX
<1> DEFINE W == rxcurrentWindow[RX]
           L == Len(sink)
           k == Sent - L
<1>1. /\ L \in Nat /\ Sent \in Int
      /\ \A m \in net[RX] : m.n \in Nat /\ m.n <= Sent
      /\ \A b \in W : /\ b.cap.n \in Nat /\ b.cap.capid = b.cap.n /\ b.cap.n <= Sent
                      /\ b.cap.fin \in BOOLEAN
                      /\ b.cap.fin <=> (txFactory[TX].fin /\ b.cap.n = Sent)
  BY <1>0, Numbers
<1>2. /\ ses[RX].next = "done" /\ ses'[RX].complete
      /\ ses'[RX].next = "connected"
      /\ rxFactory'[RX].fin /\ rxcurrentWindow'[RX] = {}
      /\ sink' = WriteWindow(sink, W)
      /\ txFactory'[RX].buffer = Append(txFactory[RX].buffer, NoData)
      /\ net'[RX] = net[RX]
      /\ \E c : /\ net'[TX] \subseteq net[TX] \cup {c}
                /\ lost' = 0 => lost = 0 /\ c \in net'[TX]
  BY <1>0, DoneRX
<1>3. txFactory[TX].fin /\ Held(Sent)
  BY DEF Filling, ClientInWindow
<1>4. L < Sent /\ Sent <= L + WIN_SIZ /\ ses[TX].winSize = 0
  BY <1>3 DEF Filling, ServerInWindow
<1>5. Returned(RX)' /\ Sent' = Sent /\ Awaits(TX)'
  BY <1>2 DEF Returned, Sent, Filling, Quiet, Awaits
<1>6. \A m \in net'[RX] : Sent - WIN_SIZ < m.n
  <2>1. \A m \in net[RX] : L < m.n
    BY DEF Filling, PayloadsInWindow
  <2>2. Sent - WIN_SIZ <= L
    BY <1>0, <1>1, <1>4
  <2> QED BY <1>0, <1>1, <1>2, <2>1, <2>2
<1>7. (Len(txFactory'[RX].buffer) - 1) * WIN_SIZ < Sent
  <2>1. txFactory[RX].buffer \in Seq(Chunk) /\ NoData \in Chunk
    BY <1>0 DEF TypeOK, TxFactory, NoData, Chunk
  <2>2. /\ Len(txFactory[RX].buffer) \in Nat
        /\ Len(txFactory'[RX].buffer) = Len(txFactory[RX].buffer) + 1
    BY <1>2, <2>1
  <2>3. L = Len(txFactory[RX].buffer) * WIN_SIZ
    BY DEF Filling, WrittenWindows
  <2>4. Len(txFactory'[RX].buffer) - 1 = Len(txFactory[RX].buffer)
    BY <2>2
  <2> QED BY <1>4, <2>3, <2>4
<1>8. ASSUME lost' = 0, ~Reorder
      PROVE  InSequence(sink') /\ EndOf(sink', Len(sink')) = fileSize
  <2>1. net[RX] = {}
    <3> SUFFICES ASSUME NEW m \in net[RX] PROVE FALSE
      OBVIOUS
    <3>1. PICK b \in W : b.cap.n = Sent
      BY <1>3 DEF Held
    <3>2. b.cap.n < m.n
      BY <1>8 DEF Filling, PayloadsInWindow
    <3> QED BY <1>1, <3>1, <3>2
  <2>2. \A n \in (L + 1)..Sent : Held(n)
    BY <1>2, <1>8, <2>1 DEF Filling, PayloadsInWindow, UnderWay
  <2>3. /\ Keyed(W) /\ W \in SUBSET MemBuff
        /\ \A b \in W : b.cap.n \in (L + 1)..Sent
    <3>1. Sent <= Sent
      BY <1>1
    <3> QED BY <1>1, <3>1, WindowCount
  <2>4. k \in Nat /\ L + k = Sent
    BY <1>1, <1>4
  <2>5. Covers(W, L, k)
    <3> HIDE DEF k
    <3> QED BY <1>1, <2>2, <2>3, <2>4 DEF Covers, Held
  <2>6. PICK w : w = sink'
    OBVIOUS
  <2>7. /\ Len(w) = Sent
        /\ \A i \in 1..L : w[i] = sink[i]
        /\ \A i \in (L + 1)..Sent : \E b \in W : b.cap.n = i /\ w[i] = b.cap.data
    <3>1. sink \in Seq(Chunk) /\ w = WriteWindow(sink, W)
      BY <1>0, <1>2, <2>6 DEF TypeOK
    <3>2. Appended(sink, W, k, w)
      BY <2>4, <2>5, <3>1, WrittenSink
    <3> QED BY <2>4, <3>2 DEF Appended
  <2>8. ASSUME NEW i \in 1..Sent
        PROVE  /\ w[i].off = (i - 1) * PayloadSize
               /\ i # Sent => w[i].len = PayloadSize
               /\ i = Sent => w[i].off + w[i].len = fileSize
    <3>1. CASE i <= L
      <4>1. i \in 1..L /\ i # Sent
        BY <1>1, <1>4, <3>1
      <4>2. w[i] = [off |-> (i - 1) * PayloadSize, len |-> PayloadSize]
        BY <2>7, <4>1 DEF Filling, WrittenWindows
      <4> QED BY <4>1, <4>2
    <3>2. CASE ~(i <= L)
      <4>1. i \in (L + 1)..Sent
        BY <1>1, <3>2
      <4>2. PICK b \in W : b.cap.n = i /\ w[i] = b.cap.data
        BY <2>7, <4>1
      <4>3. b.cap.fin <=> i = Sent
        BY <1>1, <1>3, <4>2
      <4>4. /\ b.cap.data.off = (i - 1) * PayloadSize
            /\ ~b.cap.fin => b.cap.data.len = PayloadSize
        BY <4>2 DEF KeyInv, AllStamped, Stamped
      <4>5. b.cap.fin => b.cap.data.off + b.cap.data.len = fileSize
        BY DEF Filling, PayloadsInWindow
      <4> QED BY <4>2, <4>3, <4>4, <4>5
    <3> QED BY <3>1, <3>2
  <2>9. Sent \in 1..Sent
    BY <1>1, <1>4
  <2>10. EndOf(w, Len(w)) = fileSize
    <3>1. Sent # 0
      BY <2>9
    <3> QED BY <2>7, <2>8, <2>9, <3>1 DEF EndOf
  <2>11. ASSUME NEW i \in 1..Sent PROVE w[i].off = EndOf(w, i - 1)
    <3>1. w[i].off = (i - 1) * PayloadSize
      BY <2>8
    <3>2. CASE i = 1
      BY <3>1, <3>2, PayloadSizeType DEF EndOf
    <3>3. CASE i # 1
      <4>1. i - 1 \in 1..Sent /\ i - 1 # Sent /\ i - 1 # 0 /\ i \in Int
        BY <1>1, <3>3
      <4>2. w[i - 1].off = ((i - 1) - 1) * PayloadSize /\ w[i - 1].len = PayloadSize
        BY <2>8, <4>1
      <4>3. EndOf(w, i - 1) = ((i - 1) - 1) * PayloadSize + PayloadSize
        BY <4>1, <4>2 DEF EndOf
      <4>4. ((i - 1) - 1) * PayloadSize + PayloadSize = (i - 1) * PayloadSize
        BY <4>1, PayloadSizeType
      <4> QED BY <3>1, <4>3, <4>4
    <3> QED BY <3>2, <3>3
  <2>12. InSequence(w)
    BY <2>7, <2>11 DEF InSequence
  <2> QED BY <2>6, <2>10, <2>12
<1>9. (lost = 0 /\ ~Reorder => InSequence(sink) /\ EndOf(sink, Len(sink)) = fileSize)'
  BY <1>8 DEF InSequence, EndOf
<1>10. ses'[TX].next \in {"closed", "done"} /\ ses'[TX].winSize = 0
  BY <1>4 DEF Filling, ServerInWindow
<1> HIDE DEF W, L, k
<1> QED BY <1>2, <1>3, <1>5, <1>6, <1>7, <1>9, <1>10 DEF Finished

LEMMA TransferClient ==
  ASSUME TypeInv, Owned, KeyInv, ShakeInv, FinOnlyOnLast, TransferInv, Client
  PROVE  TransferInv'
<1>0. /\ TypeOK /\ ShakingClean /\ InStep
      /\ TX \in Dir /\ RX \in Dir /\ TX # RX
      /\ WIN_SIZ \in Nat /\ WIN_SIZ > 0
  BY WindowFits DEF TypeInv, Owned, ShakeInv, Dir, TX, RX
<1>1. /\ ses'[TX] = ses[TX] /\ txFactory'[TX] = txFactory[TX]
      /\ fileSize' = fileSize
  BY <1>0, ClientFrame
<1>2. Past(TX)' = Past(TX) /\ Returned(TX)' = Returned(TX) /\ Sent' = Sent
  BY <1>1 DEF Past, Returned, Sent
<1>3. CASE openStateRX \/ setupStateRX \/ connectedStateRX
  <2>1. /\ ~Past(RX)
        /\ rxcurrentWindow'[RX] = rxcurrentWindow[RX]
        /\ rxFactory'[RX].fin = rxFactory[RX].fin /\ sink' = sink
        /\ txFactory[RX].buffer = <<>> => txFactory'[RX].buffer = <<>>
    <3>1. CASE openStateRX
      BY <1>0, <3>1, OpenRX DEF Past, Returned
    <3>2. CASE setupStateRX
      BY <1>0, <3>2, SetupRX DEF Past, Returned
    <3>3. CASE connectedStateRX
      BY <1>0, <3>3, ConnectedRX DEF Past, Returned
    <3> QED BY <1>3, <3>1, <3>2, <3>3
  <2>2. ~Past(TX) /\ Fresh
    BY <1>0, <2>1 DEF InStep, TransferInv
  <2>3. Fresh'
    BY <1>1, <2>1, <2>2 DEF Fresh
  <2> QED BY <1>2, <2>2, <2>3 DEF TransferInv
<1>4. ASSUME ses[RX].next \in {"closed", "done"}, Past(TX), net[RX] # {} \/ ses[RX].next = "done"
      PROVE  Filling /\ DataOnly
  <2>1. ~Answered
    BY <1>4 DEF Answered, Quiet
  <2>2. ~Finished
    BY <1>4 DEF Finished, Returned
  <2> QED BY <1>4, <2>1, <2>2 DEF TransferInv
<1>5. CASE closedStateRX
  <2>1. ses[RX].next = "closed" /\ net[RX] # {}
    BY <1>0, <1>5, ClosedRX
  <2>2. Past(TX)
    BY <1>0, <2>1 DEF InStep, Greeting, Quiet
  <2>3. Filling' /\ DataOnly'
    BY <1>1, <1>4, <1>5, <2>1, <2>2, TransferClosedRX
  <2> QED BY <1>2, <2>2, <2>3 DEF TransferInv
<1>6. CASE doneStateRX
  <2>1. ses[RX].next = "done" /\ net'[RX] = net[RX]
    BY <1>0, <1>6, DoneRX
  <2>2. Past(TX)
    BY <1>0, <2>1 DEF InStep, Greeting
  <2>3. Filling /\ DataOnly
    BY <1>4, <2>1, <2>2
  <2>4. DataOnly'
    BY <2>1, <2>3 DEF DataOnly
  <2>5. ~rxFactory[RX].fin => Answered'
    BY <1>1, <1>6, <2>3, WindowWritten
  <2>6. rxFactory[RX].fin => Finished'
    BY <1>1, <1>6, <2>3, LastWindowWritten
  <2> QED BY <1>2, <2>2, <2>4, <2>5, <2>6 DEF TransferInv
<1>7. CASE closedStateExit(RX) \/ divideByZero(RX) \/ ioError(RX)
  <2>1. /\ \/ ses[RX].next = "closed" /\ ses'[RX].next = "done" /\ ses[RX].winSize = 0
           \/ ses'[RX].next = ses[RX].next
        /\ ses'[RX].complete = ses[RX].complete
        /\ ses'[RX].winSize = ses[RX].winSize
    BY <1>0, <1>7, Stops
  <2>2. UNCHANGED <<net, lost, txFactory, rxFactory, rxcurrentWindow, sink>>
    BY <1>7 DEF closedStateExit, divideByZero, ioError, gatewayVars
  <2>3. Fresh => Fresh'
    BY <1>1, <2>2 DEF Fresh
  <2>4. /\ DataOnly' = DataOnly /\ WrittenWindows' = WrittenWindows
        /\ \A n : Held(n)' = Held(n)
    BY <2>2 DEF DataOnly, WrittenWindows, Held
  <2>5. Filling => Filling'
    <3>1. ServerInWindow => ServerInWindow'
      BY <1>1, <1>2, <2>2 DEF ServerInWindow
    <3>2. ClientInWindow => ClientInWindow'
      BY <1>1, <1>2, <2>1, <2>2 DEF ClientInWindow, Held
    <3>3. PayloadsInWindow => PayloadsInWindow'
      BY <1>1, <1>2, <2>2, <2>4 DEF PayloadsInWindow, UnderWay
    <3> QED BY <2>2, <2>4, <3>1, <3>2, <3>3 DEF Filling, Quiet
  <2>6. Answered => Answered'
    <3>1. ASSUME Answered PROVE ses'[RX].next = "closed"
      BY <1>0, <2>1, <3>1 DEF Answered
    <3> QED BY <1>1, <1>2, <2>1, <2>2, <2>4, <3>1 DEF Answered, Quiet, Awaits
  <2>7. Finished => Finished'
    <3>1. Returned(RX) => Returned(RX)'
      BY <2>1 DEF Returned
    <3> QED BY <1>1, <1>2, <2>2, <3>1 DEF Finished, Quiet, Awaits
  <2> QED BY <1>2, <2>3, <2>4, <2>5, <2>6, <2>7 DEF TransferInv
<1> QED BY <1>3, <1>5, <1>6, <1>7 DEF Client

LEMMA TransferNetwork ==
  ASSUME Undisturbed', TypeInv, TransferInv, Network
  PROVE  TransferInv'
<1>0. TypeOK /\ TX \in Dir /\ RX \in Dir
  BY DEF TypeInv, Dir
<1>1. /\ net'[TX] \subseteq net[TX] /\ net'[RX] \subseteq net[RX] /\ lost' # 0
      /\ UNCHANGED <<fileSize, ses, txFactory, rxFactory, rxcurrentWindow, sink>>
  BY <1>0, OnlyLoss DEF sessionVars
<1>2. /\ Past(TX)' = Past(TX) /\ Sent' = Sent
      /\ \A d \in Dir : Returned(d)' = Returned(d)
      /\ \A n : Held(n)' = Held(n)
  BY <1>1 DEF Past, Returned, Sent, Held
<1>3. Fresh => Fresh'
  BY <1>1 DEF Fresh
<1>4. DataOnly => DataOnly'
  BY <1>1 DEF DataOnly
<1>5. Filling => Filling'
  <2>1. ServerInWindow => ServerInWindow'
    BY <1>1, <1>2 DEF ServerInWindow
  <2>2. ClientInWindow => ClientInWindow'
    BY <1>1, <1>2 DEF ClientInWindow, Held
  <2>3. PayloadsInWindow => PayloadsInWindow'
    BY <1>1, <1>2 DEF PayloadsInWindow
  <2> QED BY <1>1, <2>1, <2>2, <2>3 DEF Filling, Quiet, WrittenWindows
<1>6. Answered => Answered'
  BY <1>1, <1>2 DEF Answered, Quiet, Awaits, WrittenWindows
<1>7. Finished => Finished'
  BY <1>0, <1>1, <1>2 DEF Finished, Quiet, Awaits
<1> QED BY <1>2, <1>3, <1>4, <1>5, <1>6, <1>7 DEF TransferInv

LEMMA TransferInvariant == Spec => [](Undisturbed => TransferInv)
<1>1. Init => TransferInv
  BY DEF Init, TransferInv, Fresh, Past, Returned, NewTxFactory, NewRxFactory, Dir, TX, RX
<1>2. /\ TypeInv /\ Owned /\ KeyInv /\ FinOnlyOnLast
      /\ Undisturbed => ShakeInv /\ TransferInv
      /\ TypeInv' /\ KeyInv' /\ (Undisturbed => ShakeInv)' /\ [Next]_vars
      => (Undisturbed => TransferInv)'
  <2> SUFFICES ASSUME TypeInv, Owned, KeyInv, FinOnlyOnLast,
                      Undisturbed => ShakeInv /\ TransferInv,
                      TypeInv', KeyInv', ShakeInv', [Next]_vars, Undisturbed'
               PROVE  TransferInv'
    OBVIOUS
  <2>0. ShakeInv /\ TransferInv
    BY UndisturbedBefore DEF TypeInv
  <2>1. CASE Server
    BY <2>0, <2>1, TransferServer
  <2>2. CASE Client
    BY <2>0, <2>2, TransferClient
  <2>3. CASE Network
    BY <2>0, <2>3, TransferNetwork
  <2>4. CASE Terminated \/ UNCHANGED vars
    <3>1. UNCHANGED vars
      BY <2>4 DEF Terminated
    <3>2. UNCHANGED <<fileSize, ses, txFactory, rxFactory, rxcurrentWindow, sink, net, lost>>
      BY <3>1 DEF vars, gatewayVars, sessionVars
    <3> QED BY <2>0, <3>2 DEF TransferInv, Past, Returned, Sent, Held, UnderWay, Fresh, Filling,
              Answered, Finished, DataOnly, ServerInWindow, ClientInWindow,
              PayloadsInWindow, WrittenWindows, Quiet, Awaits, InSequence, EndOf
  <2> QED BY <2>1, <2>2, <2>3, <2>4 DEF Next
<1> QED BY TypeInvariant, OwnedInvariant, KeyInvariant, ShakeInvariant, FinCorrect,
           <1>1, <1>2, PTL DEF Spec

-----------------------------------------------------------------------------
(* Consecutive full payloads. *)
LEMMA WrittenInSequence ==
  ASSUME TypeOK, WrittenWindows
  PROVE  InSequence(sink)
<1>1. PICK n \in Nat : n = Len(sink)
  BY LenProperties DEF TypeOK
<1>2. ASSUME NEW i \in 1..n
      PROVE  sink[i].off = (i - 1) * PayloadSize /\ sink[i].len = PayloadSize
  <2>1. PICK c : c = sink[i]
    OBVIOUS
  <2>2. PICK o : o = (i - 1) * PayloadSize
    OBVIOUS
  <2>3. c = [off |-> o, len |-> PayloadSize]
    BY <1>1, <2>1, <2>2 DEF WrittenWindows
  <2>4. c.off = o /\ c.len = PayloadSize
    BY <2>3
  <2> QED BY <2>1, <2>2, <2>4
<1>3. ASSUME NEW i \in 1..n PROVE sink[i].off = EndOf(sink, i - 1)
  <2>1. CASE i = 1
    BY <1>2, <2>1, PayloadSizeType DEF EndOf
  <2>2. CASE i # 1
    <3>1. i - 1 \in 1..n /\ i - 1 # 0 /\ i \in Int
      BY <2>2
    <3>2. EndOf(sink, i - 1) = ((i - 1) - 1) * PayloadSize + PayloadSize
      BY <1>2, <3>1 DEF EndOf
    <3>3. ((i - 1) - 1) * PayloadSize + PayloadSize = (i - 1) * PayloadSize
      BY <3>1, PayloadSizeType
    <3> QED BY <1>2, <3>2, <3>3
  <2> QED BY <2>1, <2>2
<1> QED BY <1>1, <1>3 DEF InSequence

(* Until the client has seen FIN (session.h:501), its file is an exact     *)
(* prefix of the server's, in whatever order the payloads arrive and       *)
(* whatever is lost: the sort by capid (presentation.h:41) undoes the      *)
(* reordering, and a window with a payload missing is never written.  Only *)
(* a repeated datagram or a second client can end this.                    *)
THEOREM PrefixIntact == Spec => [](Undisturbed => IntactPrefix)
<1>1. TypeInv /\ TransferInv => IntactPrefix
  <2> SUFFICES ASSUME TypeInv, TransferInv, ~rxFactory[RX].fin PROVE InSequence(sink)
    BY DEF IntactPrefix
  <2>1. TypeOK
    BY DEF TypeInv
  <2>2. CASE ~Past(TX)
    <3>1. sink = <<>>
      BY <2>2 DEF TransferInv, Fresh
    <3>2. Len(sink) = 0
      BY <3>1
    <3> QED BY <3>2 DEF InSequence
  <2>3. CASE Past(TX)
    <3>1. WrittenWindows
      BY <2>3 DEF TransferInv, Filling, Answered, Finished
    <3> QED BY <2>1, <3>1, WrittenInSequence
  <2> QED BY <2>2, <2>3
<1> QED BY TypeInvariant, TransferInvariant, <1>1, PTL

(* When nothing is lost or repeated, nobody else speaks to the server and  *)
(* the network keeps the order, the file of a client that has returned     *)
(* (session.h:545) is the whole file, for every file size, window size and *)
(* interface list, whichever process dies.                                 *)
THEOREM WholeFile ==
  ASSUME ~Reorder
  PROVE  Spec => [](lost = 0 /\ Undisturbed => WholeFileOnReturn)
<1>1. ShakeInv /\ TransferInv => (lost = 0 => WholeFileOnReturn)
  <2> SUFFICES ASSUME ShakeInv, TransferInv, lost = 0, Returned(RX)
               PROVE  InSequence(sink) /\ EndOf(sink, Len(sink)) = fileSize
    BY DEF WholeFileOnReturn
  <2>1. Past(TX)
    BY DEF ShakeInv, InStep, Returned
  <2>2. ~Filling /\ ~Answered
    BY DEF Filling, Answered, ClientInWindow, Returned
  <2> QED BY <2>1, <2>2 DEF TransferInv, Finished
<1> QED BY ShakeInvariant, TransferInvariant, <1>1, PTL

(* A file of one number per payload is counted by its last number. *)
LEMMA PayloadsFit ==
  ASSUME TypeInv, KeyInv, NEW k \in Nat,
         k = 0 \/ (~txFactory[TX].fin /\ k <= Sent) \/ (txFactory[TX].fin /\ k < Sent)
  PROVE  k * PayloadSize <= fileSize
<1>0. /\ TypeOK /\ SourceOK /\ SourceCount /\ fileSize \in Nat
      /\ PayloadSize \in Nat /\ TX \in Dir /\ ses[TX].capsuleId \in Nat
      /\ txFactory[TX].pos \in Nat
  BY SessionAssumption, PayloadSizeType
     DEF TypeInv, KeyInv, TypeOK, Dir, SessionState, TxFactory
<1>1. ASSUME NEW j \in Nat, k <= j, j * PayloadSize <= fileSize
      PROVE  k * PayloadSize <= fileSize
  <2>1. j - k \in Nat
    BY <1>1
  <2>2. \A a \in Nat : a * PayloadSize >= 0
    BY <1>0
  <2>3. (j - k) * PayloadSize >= 0
    BY <2>1, <2>2
  <2>4. (j - k) * PayloadSize = j * PayloadSize - k * PayloadSize
    BY <1>0
  <2>5. j * PayloadSize \in Int /\ k * PayloadSize \in Int
    BY <1>0
  <2> QED BY <1>0, <1>1, <2>3, <2>4, <2>5
<1>2. CASE k = 0
  BY <1>0, <1>2
<1>3. CASE k # 0 /\ ~txFactory[TX].fin /\ k <= Sent
  <2>1. ses[TX].capsuleId > 0 /\ Sent \in Nat /\ Sent = ses[TX].capsuleId - 1
    BY <1>0, <1>3 DEF Sent
  <2>2. Sent * PayloadSize <= fileSize
    BY <1>0, <1>3, <2>1 DEF SourceCount, SourceOK
  <2> QED BY <1>1, <1>3, <2>1, <2>2
<1>4. CASE k # 0 /\ txFactory[TX].fin /\ k < Sent
  <2>1. Sent - 1 \in Nat /\ Sent - 1 = ses[TX].capsuleId - 2 /\ k <= Sent - 1
    BY <1>0, <1>4 DEF Sent
  <2>2. (Sent - 1) * PayloadSize <= fileSize
    BY <1>0, <1>4, <2>1 DEF SourceCount, SourceOK
  <2> QED BY <1>1, <2>1, <2>2
<1> QED BY <1>2, <1>3, <1>4

(* The buffers doneState leaves in the client's queue (session.h:547)      *)
(* never exceed the windows of the file by more than one, unless a         *)
(* datagram was repeated or a second client has spoken.                    *)
THEOREM BacklogBounded == Spec => [](Undisturbed => BacklogPerWindow)
<1>1. TypeInv /\ KeyInv /\ TransferInv => BacklogPerWindow
  <2> SUFFICES ASSUME TypeInv, KeyInv, TransferInv PROVE BacklogPerWindow
    OBVIOUS
  <2> DEFINE B == Len(txFactory[RX].buffer)
             q == fileSize \div (WIN_SIZ * PayloadSize)
  <2>0. /\ TypeOK /\ fileSize \in Nat /\ WIN_SIZ \in Nat /\ WIN_SIZ > 0
        /\ PayloadSize \in Nat /\ PayloadSize > 0
    BY SessionAssumption, WindowFits, PayloadSizeType DEF TypeInv, TypeOK
  <2>1. txFactory[RX].buffer \in Seq(Chunk)
    BY <2>0 DEF TypeOK, TxFactory, Dir
  <2>2. B \in Nat /\ Sent \in Int
    BY <2>1, LenProperties, Numbers
  <2>3. WIN_SIZ * PayloadSize \in Nat /\ WIN_SIZ * PayloadSize > 0
    BY <2>0
  <2>4. q \in Nat
    BY <2>0, <2>3
  <2>5. ASSUME NEW k \in Nat, k * WIN_SIZ * PayloadSize <= fileSize PROVE k <= q
    <3>1. k * (WIN_SIZ * PayloadSize) <= fileSize
      BY <2>0, <2>5
    <3> HIDE DEF q
    <3> QED BY <2>0, <2>3, <3>1, QuotientBound DEF q
  <2>6. CASE ~Past(TX)
    BY <2>2, <2>4, <2>6 DEF TransferInv, Fresh, BacklogPerWindow, WindowsOf, PayloadSize
  <2>7. CASE Past(TX) /\ (Filling \/ Answered)
    <3>1. /\ Len(sink) = B * WIN_SIZ /\ Len(sink) <= Sent
          /\ txFactory[TX].fin => Len(sink) < Sent
      BY <2>2, <2>7 DEF Filling, Answered, ServerInWindow, WrittenWindows
    <3>2. Len(sink) \in Nat
      BY Numbers
    <3>3. Len(sink) * PayloadSize <= fileSize
      BY <3>1, <3>2, PayloadsFit
    <3>4. B <= q
      BY <2>2, <2>5, <3>1, <3>3
    <3> QED BY <2>2, <2>4, <3>4 DEF BacklogPerWindow, WindowsOf, PayloadSize
  <2>8. CASE Past(TX) /\ Finished
    <3>1. txFactory[TX].fin /\ (B - 1) * WIN_SIZ < Sent
      BY <2>8 DEF Finished
    <3>2. CASE B = 0
      BY <2>2, <2>4, <3>2 DEF BacklogPerWindow, WindowsOf, PayloadSize
    <3>3. CASE B # 0
      <4>1. PICK j \in Nat : j = B - 1
        <5> HIDE DEF B
        <5>1. B - 1 \in Nat
          BY <2>2, <3>3
        <5> QED BY <5>1
      <4>2. j * WIN_SIZ \in Nat
        BY <2>0
      <4>3. j * WIN_SIZ * PayloadSize <= fileSize
        BY <3>1, <4>1, <4>2, PayloadsFit
      <4>4. j <= q
        BY <2>5, <4>3
      <4>5. B <= q + 1
        BY <2>2, <2>4, <4>1, <4>4
      <4> QED BY <4>5 DEF BacklogPerWindow, WindowsOf, PayloadSize
    <3> QED BY <3>2, <3>3
  <2> QED BY <2>6, <2>7, <2>8 DEF TransferInv
<1> QED BY TypeInvariant, KeyInvariant, TransferInvariant, <1>1, PTL

(* A capsule is not a buffer. *)
LEMMA CapsuleNotBuff ==
  ASSUME NEW m \in Capsule, NEW b \in MemBuff
  PROVE  m # b
<1>1. "hid" \notin DOMAIN m
  BY DEF Capsule
<1>2. "hid" \in DOMAIN b
  BY DEF MemBuff
<1> QED BY <1>1, <1>2

(* In a window the payloads under way and those the client holds are not   *)
(* more than those sent, and all of them if nothing was lost.              *)
LEMMA PayloadCount ==
  ASSUME TypeInv, KeyInv, DataOnly, Filling
  PROVE  LET A == {m \in net[RX] : m.capType = "PAYLD"}
             W == rxcurrentWindow[RX]
         IN  /\ Cardinality(A) \in Nat /\ Cardinality(W) \in Nat
             /\ Cardinality(A) + Cardinality(W) <= Sent - Len(sink)
             /\ lost = 0 => Cardinality(A) + Cardinality(W) = Sent - Len(sink)
<1> DEFINE A == {m \in net[RX] : m.capType = "PAYLD"}
           W == rxcurrentWindow[RX]
           U == A \cup W
           f == [x \in U |-> IF x \in W THEN x.cap.n ELSE x.n]
<1>0. W \in SUBSET MemBuff /\ A \in SUBSET Capsule /\ Keyed(W)
  BY DEF TypeInv, TypeOK, Dir, WindowsKeyed
<1>1. /\ Len(sink) \in Nat /\ Sent \in Int
      /\ \A m \in A : m.n \in Nat /\ m.n <= Sent
      /\ \A b \in W : b.cap.n \in Nat /\ b.cap.n <= Sent /\ b.cap.capid = b.cap.n
  BY Numbers
<1>2. ServerInWindow /\ PayloadsInWindow
  BY DEF Filling
<1>3. PICK lo \in Int : lo = Len(sink)
  BY <1>1
<1>4. PICK k \in Nat : k = Sent - lo
  <2>1. lo <= Sent
    BY <1>2, <1>3 DEF ServerInWindow
  <2>2. Sent - lo \in Nat
    BY <1>1, <2>1
  <2> QED BY <2>2
<1>5. A \cap W = {}
  BY <1>0, CapsuleNotBuff
<1>6. /\ \A m \in A : m.n \in (lo + 1)..(lo + k)
      /\ \A b \in W : b.cap.n \in (lo + 1)..(lo + k)
  BY <1>0, <1>1, <1>2, <1>3, <1>4 DEF PayloadsInWindow
<1>7. f \in [U -> (lo + 1)..(lo + k)]
  BY <1>6
<1>8. \A x \in U : f[x] = IF x \in W THEN x.cap.n ELSE x.n
  OBVIOUS
<1>9. \A x, y \in U : f[x] = f[y] => x = y
  <2>1. \A m \in A, b \in W : m.n # b.cap.n
    BY <1>2 DEF PayloadsInWindow, Held
  <2>2. \A m, x \in A : m.n = x.n => m = x
    BY DEF DataOnly
  <2>3. \A b, x \in W : b.cap.n = x.cap.n => b = x
    BY <1>0, <1>1 DEF Keyed
  <2>4. \A x \in U : x \in A \/ x \in W
    OBVIOUS
  <2> HIDE DEF A, W, U, f
  <2> QED BY <1>5, <1>8, <2>1, <2>2, <2>3, <2>4
<1>10. lost = 0 => \A n \in (lo + 1)..(lo + k) : \E x \in U : f[x] = n
  <2> SUFFICES ASSUME lost = 0, NEW n \in (lo + 1)..(lo + k)
               PROVE  \E x \in U : f[x] = n
    OBVIOUS
  <2>1. Held(n) \/ UnderWay(n)
    BY <1>1, <1>2, <1>3, <1>4 DEF PayloadsInWindow
  <2>2. CASE Held(n)
    <3>1. PICK b \in W : b.cap.n = n
      BY <2>2 DEF Held
    <3> QED BY <3>1
  <2>3. CASE UnderWay(n)
    <3>1. PICK m \in A : m.n = n
      BY <2>3 DEF UnderWay, DataOnly
    <3>2. m \in U /\ m \notin W
      BY <1>5
    <3> QED BY <1>8, <3>1, <3>2
  <2> QED BY <2>1, <2>2, <2>3
<1>11. /\ IsFiniteSet(U) /\ Cardinality(U) <= k
       /\ lost = 0 => Cardinality(U) = k
  <2> HIDE DEF U, f
  <2>1. /\ IsFiniteSet(U) /\ Cardinality(U) <= k
        /\ Cardinality(U) = k <=> \A n \in (lo + 1)..(lo + k) : \E x \in U : f[x] = n
    BY <1>7, <1>9, CountInRange
  <2> QED BY <1>10, <2>1
<1>12. IsFiniteSet(A) /\ IsFiniteSet(W)
  BY <1>11, FS_Subset
<1>13. Cardinality(A) \in Nat /\ Cardinality(W) \in Nat /\ Cardinality(A \cap W) = 0
  BY <1>5, <1>12, FS_EmptySet, FS_CardinalityType
<1>14. Cardinality(U) = Cardinality(A) + Cardinality(W)
  <2>1. Cardinality(U) = Cardinality(A) + Cardinality(W) - Cardinality(A \cap W)
    BY <1>12, FS_Union
  <2> HIDE DEF A, W, U
  <2> QED BY <1>13, <2>1
<1> HIDE DEF A, W, U
<1>15. /\ Cardinality(A) + Cardinality(W) <= Sent - Len(sink)
       /\ lost = 0 => Cardinality(A) + Cardinality(W) = Sent - Len(sink)
  BY <1>3, <1>4, <1>11, <1>14
<1> QED BY <1>13, <1>15 DEF A, W

(* Flow control: the payloads under way and those the client holds         *)
(* unwritten never exceed a window, because the server reads on only after *)
(* the OK (session.h:521) and no capsule of an earlier window is left by   *)
(* then; only a repeated capsule or a second client's can be taken for it. *)
THEOREM WindowBounded == Spec => [](Undisturbed => OneWindowOutstanding)
<1>1. TypeInv /\ KeyInv /\ ShakeInv /\ TransferInv => OneWindowOutstanding
  <2> SUFFICES ASSUME TypeInv, KeyInv, ShakeInv, TransferInv
               PROVE  OneWindowOutstanding
    OBVIOUS
  <2> DEFINE A == {m \in net[RX] : m.capType = "PAYLD"}
             W == rxcurrentWindow[RX]
             g == [m \in A |-> m.n]
  <2>0. /\ TypeOK /\ RX \in Dir /\ WIN_SIZ \in Nat /\ W \in SUBSET MemBuff
        /\ A \in SUBSET Capsule /\ Keyed(W)
    BY WindowFits DEF TypeInv, TypeOK, Dir, WindowsKeyed
  <2>1. /\ Len(sink) \in Nat /\ Sent \in Int
        /\ \A m \in A : m.n \in Nat /\ m.n <= Sent
        /\ \A b \in W : b.cap.n \in Nat /\ b.cap.n <= Sent /\ b.cap.capid = b.cap.n
    BY Numbers
  <2>2. ASSUME A = {}, W = {} PROVE OneWindowOutstanding
    BY <2>0, <2>2, FS_EmptySet DEF OneWindowOutstanding
  <2>3. CASE ~Past(TX)
    <3>1. W = {}
      BY <2>3 DEF TransferInv, Fresh
    <3>2. A = {}
      BY <2>3 DEF ShakeInv, InStep, Greeting, Quiet, IsHi
    <3> QED BY <2>2, <3>1, <3>2
  <2>4. CASE Past(TX) /\ Answered
    <3>1. A = {} /\ W = {}
      BY <2>4 DEF Answered, Quiet
    <3> QED BY <2>2, <3>1
  <2>5. CASE Past(TX) /\ Finished
    <3>1. DataOnly /\ W = {} /\ \A m \in A : Sent - WIN_SIZ < m.n
      BY <2>5 DEF TransferInv, Finished
    <3>2. PICK lo \in Int : lo = Sent - WIN_SIZ /\ lo + WIN_SIZ = Sent
      BY <2>0, <2>1
    <3>3. \A m \in A : m.n \in (lo + 1)..(lo + WIN_SIZ)
      BY <2>1, <3>1, <3>2
    <3>4. g \in [A -> (lo + 1)..(lo + WIN_SIZ)]
      BY <3>3
    <3>5. \A x, y \in A : g[x] = g[y] => x = y
      BY <3>1 DEF DataOnly
    <3> HIDE DEF A, g
    <3>6. IsFiniteSet(A) /\ Cardinality(A) <= WIN_SIZ
      BY <2>0, <3>4, <3>5, CountInRange
    <3>7. Cardinality(A) \in Nat /\ Cardinality(W) = 0
      BY <3>1, <3>6, FS_CardinalityType, FS_EmptySet
    <3>8. Cardinality(A) + Cardinality(W) <= WIN_SIZ
      BY <2>0, <3>6, <3>7
    <3> QED BY <3>8 DEF A, OneWindowOutstanding
  <2>6. CASE Past(TX) /\ Filling
    <3>1. DataOnly /\ Filling /\ Sent <= Len(sink) + WIN_SIZ
      BY <2>6 DEF TransferInv, Filling, ServerInWindow
    <3>2. /\ Cardinality(A) \in Nat /\ Cardinality(W) \in Nat
          /\ Cardinality(A) + Cardinality(W) <= Sent - Len(sink)
      BY <3>1, PayloadCount
    <3> HIDE DEF A, W
    <3>3. Cardinality(A) + Cardinality(W) <= WIN_SIZ
      BY <2>0, <2>1, <3>1, <3>2
    <3> QED BY <3>3 DEF A, W, OneWindowOutstanding
  <2> QED BY <2>3, <2>4, <2>5, <2>6 DEF TransferInv
<1> QED BY TypeInvariant, KeyInvariant, ShakeInvariant, TransferInvariant, <1>1, PTL

(* When the server sends data (session.h:477), both ends hold the          *)
(* connection id the client generated (session.h:440) and go by the same   *)
(* window: both start with the size the client announced (session.h:103),  *)
(* and the slots the server has left and the payloads under way are those  *)
(* the client still has to fill, or fewer after a loss, whatever was       *)
(* delayed or misrouted and whichever process died, unless a datagram was  *)
(* repeated or a second client has spoken.                                 *)
THEOREM HandshakeCorrect == Spec => [](Undisturbed => HandshakeAgreed)
<1>1. TypeInv /\ KeyInv /\ ShakeInv /\ TransferInv => HandshakeAgreed
  <2> SUFFICES ASSUME TypeInv, KeyInv, ShakeInv, TransferInv, At(TX, "closed")
               PROVE  HandshakeAgreed
    BY DEF HandshakeAgreed
  <2> DEFINE A == {m \in net[RX] : m.capType = "PAYLD"}
             W == rxcurrentWindow[RX]
             w == ses[TX].winSize
             v == ses[RX].winSize
  <2>0. /\ TypeOK /\ WIN_SIZ \in Nat /\ Dir = {TX, RX}
        /\ Len(sink) \in Nat /\ Sent \in Int /\ w \in Nat /\ v \in Nat
        /\ txFactory[TX].fin \in BOOLEAN /\ rxFactory[RX].fin \in BOOLEAN
    BY WindowFits, Numbers DEF TypeInv, Dir
  <2>1. Past(TX) /\ Past(RX) /\ DataOnly
    BY DEF TransferInv, ShakeInv, InStep, At, Past
  <2>2. /\ conns[TX][currentConn].id = conns[RX][currentConn].id
        /\ conns[TX][currentConn].id # 0
    BY <2>1 DEF ShakeInv, Learnt, genConnId
  <2>3. ASSUME txFactory[TX].pos = 0 PROVE Sent = 0 /\ ~txFactory[TX].fin
    <3>1. fileSize > 0 /\ (txFactory[TX].fin => txFactory[TX].pos = fileSize)
      BY SessionAssumption DEF TypeInv, TypeOK, SourceOK
    <3>2. ~txFactory[TX].fin
      BY <2>3, <3>1
    <3>3. ses[TX].capsuleId \in Nat /\ ses[TX].capsuleId # 0
      BY <2>0 DEF TypeOK, SessionState, Dir, KeyInv, SourceCount, At
    <3>4. txFactory[TX].pos = (ses[TX].capsuleId - 1) * PayloadSize
      BY <3>2, <3>3 DEF KeyInv, SourceCount
    <3>5. ses[TX].capsuleId - 1 = 0
      BY <2>3, <3>3, <3>4, PayloadSizeType
    <3> QED BY <3>2, <3>5 DEF Sent
  <2>4. CASE Filling
    <3>1. /\ Cardinality(A) \in Nat /\ Cardinality(W) \in Nat
          /\ Cardinality(A) + Cardinality(W) <= Sent - Len(sink)
          /\ lost = 0 => Cardinality(A) + Cardinality(W) = Sent - Len(sink)
      BY <2>1, <2>4, PayloadCount
    <3>2. /\ ~txFactory[TX].fin => Sent = Len(sink) + WIN_SIZ - w
          /\ txFactory[TX].fin => w = 0 /\ Len(sink) < Sent
          /\ Len(sink) <= Sent
      BY <2>4 DEF Filling, ServerInWindow
    <3>3. ~txFactory[TX].fin => v <= WIN_SIZ /\ Cardinality(W) = WIN_SIZ - v
      BY <2>4 DEF Filling, ClientInWindow
    <3>4. ASSUME txFactory[TX].pos = 0 PROVE w = WIN_SIZ /\ v = WIN_SIZ
      <4> HIDE DEF A, W, w, v
      <4> QED BY <2>0, <2>3, <3>1, <3>2, <3>3, <3>4
    <3>5. ASSUME w > 0
          PROVE  /\ w + Cardinality(A) <= v
                 /\ lost = 0 => w + Cardinality(A) = v
      <4> HIDE DEF A, W, w, v
      <4> QED BY <2>0, <3>1, <3>2, <3>3, <3>5
    <3> QED BY <2>0, <2>2, <3>4, <3>5 DEF HandshakeAgreed
  <2>5. CASE Answered \/ Finished
    <3>1. w = 0 /\ txFactory[TX].pos # 0
      BY <2>0, <2>3, <2>5 DEF Answered, Finished, At
    <3> QED BY <2>0, <2>2, <3>1 DEF HandshakeAgreed
  <2> QED BY <2>1, <2>4, <2>5 DEF TransferInv
<1> QED BY TypeInvariant, KeyInvariant, ShakeInvariant, TransferInvariant, <1>1, PTL

-----------------------------------------------------------------------------
(* A set of naturals that is not empty has a least element. *)
LEMMA LeastNat ==
  ASSUME NEW S \in SUBSET Nat, S # {}
  PROVE  \E m \in S : \A k \in S : m <= k
<1>1. PICK m \in S : \A k \in S : ~(<<k, m>> \in OpToRel(<, Nat))
  BY NatLessThanWellFounded, WFMin, Zenon
<1>2. \A k \in S : ~(k < m)
  BY <1>1 DEF OpToRel
<1> QED BY <1>2
 
(* The first a bytes and the l bytes from a on. *)
LEMMA PrefixGrows ==
  ASSUME NEW a \in Nat, NEW l \in Nat
  PROVE  Transfer!Prefix(a) \o [j \in 1..l |-> a + j - 1] = Transfer!Prefix(a + l)
<1> DEFINE s == Transfer!Prefix(a)
           t == [j \in 1..l |-> a + j - 1]
           u == Transfer!Prefix(a + l)
<1>1. s \in Seq(Int) /\ Len(s) = a /\ \A i \in 1..a : s[i] = i - 1
  BY DEF Transfer!Prefix
<1>2. t \in Seq(Int) /\ Len(t) = l /\ \A i \in 1..l : t[i] = a + i - 1
  OBVIOUS
<1>3. u \in Seq(Int) /\ Len(u) = a + l /\ \A i \in 1..(a + l) : u[i] = i - 1
  BY DEF Transfer!Prefix
<1> HIDE DEF s, t, u
<1>4. /\ s \o t \in Seq(Int) /\ Len(s \o t) = a + l
      /\ \A i \in 1..(a + l) : (s \o t)[i] = IF i <= a THEN s[i] ELSE t[i - a]
  BY <1>1, <1>2, ConcatProperties
<1>5. \A i \in 1..(a + l) : (s \o t)[i] = u[i]
  BY <1>1, <1>2, <1>3, <1>4
<1>6. s \o t = u
  BY <1>3, <1>4, <1>5, SeqEqual
<1> QED BY <1>6 DEF s, t, u

(* The bytes of a file whose chunks follow each other are the first bytes  *)
(* of the server's file.  FlattenSeq takes a function that satisfies the   *)
(* equation of its recursion; the prefixes do, and no other function does. *)
LEMMA WrittenPrefix ==
  ASSUME sink \in Seq(Chunk), InSequence(sink)
  PROVE  /\ EndOf(sink, Len(sink)) \in Nat
         /\ Written = Transfer!Prefix(EndOf(sink, Len(sink)))
<1> DEFINE L == Len(sink)
           seqs == [i \in DOMAIN sink |-> [j \in 1..sink[i].len |-> sink[i].off + j - 1]]
           Eq(f) == f = [i \in 1..Len(seqs) |-> IF i = 1 THEN seqs[i] ELSE f[i - 1] \o seqs[i]]
           at == CHOOSE f : Eq(f)
           G == [i \in 1..L |-> Transfer!Prefix(EndOf(sink, i))]
<1>1. L \in Nat /\ DOMAIN sink = 1..L
  OBVIOUS
<1>2. Len(seqs) = L
  BY <1>1
<1>3. Written = IF Len(seqs) = 0 THEN seqs ELSE at[Len(seqs)]
  BY DEF Written, FlattenSeq
<1>4. \A i \in 1..L : /\ sink[i].off \in Nat /\ sink[i].len \in Nat
                      /\ EndOf(sink, i) = sink[i].off + sink[i].len
                      /\ sink[i].off = EndOf(sink, i - 1)
  <2>1. \A i \in 1..L : sink[i] \in Chunk
    OBVIOUS
  <2> QED BY <2>1 DEF Chunk, InSequence, EndOf
<1>5. \A i \in 0..L : EndOf(sink, i) \in Nat
  <2>1. \A i \in 0..L : i = 0 \/ i \in 1..L
    BY <1>1
  <2> QED BY <1>4, <2>1 DEF EndOf
<1>6. \A i \in 1..L : seqs[i] = [j \in 1..sink[i].len |-> sink[i].off + j - 1]
  BY <1>1
<1>7. ASSUME NEW i \in 1..L
      PROVE  G[i] = IF i = 1 THEN seqs[i] ELSE G[i - 1] \o seqs[i]
  <2>1. PICK a \in Nat, l \in Nat : a = EndOf(sink, i - 1) /\ l = sink[i].len
    <3>1. i - 1 \in 0..L
      BY <1>1
    <3> QED BY <1>4, <1>5, <3>1
  <2>2. seqs[i] = [j \in 1..l |-> a + j - 1] /\ EndOf(sink, i) = a + l
    BY <1>4, <1>6, <2>1
  <2>3. G[i] = Transfer!Prefix(a + l)
    BY <2>2
  <2>4. CASE i = 1
    <3>1. a = 0
      BY <2>1, <2>4 DEF EndOf
    <3> HIDE DEF seqs, G
    <3> QED BY <2>2, <2>3, <2>4, <3>1 DEF Transfer!Prefix
  <2>5. CASE i # 1
    <3>1. i - 1 \in 1..L
      BY <1>1, <2>5
    <3>2. G[i - 1] = Transfer!Prefix(a)
      BY <2>1, <3>1
    <3> HIDE DEF seqs, G
    <3> QED BY <2>2, <2>3, <2>5, <3>2, PrefixGrows
  <2> QED BY <2>4, <2>5
<1>8. DOMAIN G = 1..L
  OBVIOUS
<1> HIDE DEF seqs, G
<1>9. Eq(G)
  <2>1. G = [i \in 1..L |-> G[i]]
    BY DEF G
  <2> QED BY <1>2, <1>7, <2>1
<1>10. Eq(at)
  BY <1>9
<1> HIDE DEF at
<1>11. \A i \in 1..L : at[i] = IF i = 1 THEN seqs[i] ELSE at[i - 1] \o seqs[i]
  BY <1>2, <1>10
<1>12. \A i \in 1..L : at[i] = G[i]
  <2> DEFINE Bad == {i \in 1..L : at[i] # G[i]}
  <2>1. SUFFICES ASSUME Bad # {} PROVE FALSE
    OBVIOUS
  <2>2. Bad \in SUBSET Nat
    BY <1>1
  <2> HIDE DEF Bad
  <2>3. PICK m \in Bad : \A k \in Bad : m <= k
    BY <2>1, <2>2, LeastNat
  <2>4. m \in 1..L /\ at[m] # G[m]
    BY <2>3 DEF Bad
  <2>5. m # 1
    BY <1>7, <1>11, <2>4
  <2>6. m - 1 \in 1..L /\ ~(m <= m - 1)
    BY <1>1, <2>4, <2>5
  <2>7. at[m - 1] = G[m - 1]
    BY <2>3, <2>6 DEF Bad
  <2> QED BY <1>7, <1>11, <2>4, <2>5, <2>7
<1>13. CASE L = 0
  <2>1. Written = seqs
    BY <1>2, <1>3, <1>13
  <2>2. seqs = [i \in 1..0 |-> i - 1]
    BY <1>1, <1>13 DEF seqs
  <2>3. EndOf(sink, L) = 0
    BY <1>13 DEF EndOf
  <2> QED BY <2>1, <2>2, <2>3 DEF Transfer!Prefix
<1>14. CASE L # 0
  <2>1. L \in 1..L
    BY <1>1, <1>14
  <2>2. Written = at[L]
    BY <1>2, <1>3, <1>14
  <2>3. G[L] = Transfer!Prefix(EndOf(sink, L))
    BY <2>1 DEF G
  <2>4. L \in 0..L
    BY <1>1
  <2> QED BY <1>5, <1>12, <2>1, <2>2, <2>3, <2>4
<1> QED BY <1>13, <1>14

(* The client's file while nothing has been lost: all of it once the       *)
(* client has returned, and full payloads before.                          *)
LEMMA FileSoFar ==
  ASSUME ~Reorder, TypeInv, KeyInv, ShakeInv, TransferInv, lost = 0
  PROVE  /\ sink \in Seq(Chunk) /\ InSequence(sink) /\ fileSize \in Nat
         /\ EndOf(sink, Len(sink)) <= fileSize
         /\ IF Returned(RX) THEN EndOf(sink, Len(sink)) = fileSize
            ELSE EndOf(sink, Len(sink)) = Len(sink) * PayloadSize
<1> DEFINE L == Len(sink)
<1>0. /\ TypeOK /\ sink \in Seq(Chunk) /\ L \in Nat /\ fileSize \in Nat
      /\ PayloadSize \in Nat /\ Sent \in Int
  BY SessionAssumption, PayloadSizeType, Numbers DEF TypeInv, TypeOK
<1>1. CASE ~Past(TX)
  <2>1. sink = <<>> /\ ~Returned(RX)
    BY <1>1 DEF TransferInv, Fresh, ShakeInv, InStep, Returned
  <2>2. Len(sink) = 0
    BY <2>1
  <2> QED BY <1>0, <2>1, <2>2 DEF InSequence, EndOf
<1>2. CASE Past(TX) /\ Finished
  BY <1>0, <1>2 DEF Finished
<1>3. CASE Past(TX) /\ (Filling \/ Answered)
  <2>1. /\ WrittenWindows /\ L <= Sent /\ ~Returned(RX)
        /\ txFactory[TX].fin => L < Sent
    BY <1>0, <1>3 DEF Filling, Answered, ServerInWindow, ClientInWindow, Returned
  <2>2. L * PayloadSize <= fileSize
    BY <1>0, <2>1, PayloadsFit
  <2>3. InSequence(sink)
    BY <1>0, <2>1, WrittenInSequence
  <2>4. EndOf(sink, L) = L * PayloadSize
    <3>1. CASE L = 0
      BY <1>0, <3>1 DEF EndOf
    <3>2. CASE L # 0
      <4>1. PICK o : o = (L - 1) * PayloadSize
        OBVIOUS
      <4>2. sink[L] = [off |-> o, len |-> PayloadSize]
        BY <1>0, <2>1, <3>2, <4>1 DEF WrittenWindows
      <4>3. EndOf(sink, L) = o + PayloadSize
        BY <3>2, <4>2 DEF EndOf
      <4> QED BY <1>0, <4>1, <4>3
    <3> QED BY <3>1, <3>2
  <2> QED BY <1>0, <2>1, <2>2, <2>3, <2>4
<1> QED BY <1>1, <1>2, <1>3 DEF TransferInv

(* The same in the terms of the abstract specification. *)
PrefixWritten ==
  \E a \in 0..fileSize :
    /\ Written = Transfer!Prefix(a)
    /\ IF Returned(RX) THEN a = fileSize ELSE a = Len(sink) * PayloadSize

LEMMA PrefixIsWritten ==
  ASSUME ~Reorder, TypeInv, KeyInv, ShakeInv, TransferInv, lost = 0
  PROVE  PrefixWritten
<1>1. /\ sink \in Seq(Chunk) /\ InSequence(sink) /\ fileSize \in Nat
      /\ EndOf(sink, Len(sink)) <= fileSize
      /\ IF Returned(RX) THEN EndOf(sink, Len(sink)) = fileSize
         ELSE EndOf(sink, Len(sink)) = Len(sink) * PayloadSize
  BY FileSoFar
<1>2. PICK a : a = EndOf(sink, Len(sink))
  OBVIOUS
<1>3. a \in Nat /\ Written = Transfer!Prefix(a)
  BY <1>1, <1>2, WrittenPrefix
<1>4. a \in 0..fileSize
  BY <1>1, <1>2, <1>3
<1> QED BY <1>1, <1>2, <1>3, <1>4 DEF PrefixWritten

(* The server returns only after the client has, and nothing else it does  *)
(* shows.                                                                  *)
LEMMA ServerRefines ==
  ASSUME TypeInv, Owned, KeyInv, ShakeInv, TransferInv, Server
  PROVE  Transfer!Next \/ UNCHANGED Transfer!vars
<1>0. /\ TypeOK /\ ServerReady /\ SourceCount /\ TX \in Dir /\ RX \in Dir
  BY DEF TypeInv, Owned, KeyInv, Dir
<1>1. ses'[RX] = ses[RX] /\ fileSize' = fileSize /\ sink' = sink
  BY <1>0, ServerFrame
<1>2. Written' = Written /\ Returned(RX)' = Returned(RX)
  BY <1>1 DEF Written, Returned
<1>3. CASE doneStateTX /\ txFactory[TX].fin
  <2>1. /\ ses[TX].next = "done" /\ ses'[TX].next = "connected" /\ ses'[TX].complete
        /\ \E m \in net[TX] : net'[TX] = net[TX] \ {m}
    BY <1>0, <1>3, DoneTX
  <2>2. ~Returned(TX) /\ Returned(TX)' = TRUE /\ Past(TX) /\ ~Quiet(TX)
    BY <2>1 DEF Returned, Past, Quiet
  <2>3. Returned(RX)
    BY <1>3, <2>2 DEF TransferInv, Filling, Answered, Finished
  <2>4. Transfer!ServerReturn
    BY <1>1, <1>2, <2>2, <2>3 DEF Transfer!ServerReturn
  <2> QED BY <2>4 DEF Transfer!Next
<1>4. CASE ~(doneStateTX /\ txFactory[TX].fin)
  <2>1. Returned(TX)' = Returned(TX)
    <3>1. CASE openStateTX
      BY <1>0, <3>1, OpenTX DEF Returned
    <3>2. CASE setupStateTX
      <4>1. ses[TX].next = "setup" /\ ses'[TX].next = "connected"
            /\ ses'[TX].complete = ses[TX].complete
        BY <1>0, <3>2, SetupTX
      <4>2. ~Past(TX)
        BY <4>1 DEF Past, Returned
      <4> QED BY <4>1, <4>2 DEF ShakeInv, InStep, Returned
    <3>3. CASE connectedStateTX
      BY <1>0, <3>3, ConnectedTX DEF Returned
    <3>4. CASE closedStateTX
      BY <1>0, <3>4, ClosedTX DEF Returned
    <3>5. CASE doneStateTX
      BY <1>0, <1>4, <3>5, DoneTX DEF Returned
    <3>6. CASE bufferIsNull \/ closedStateExit(TX) \/ divideByZero(TX) \/ ioError(TX)
      BY <1>0, <3>6, Stops DEF Returned
    <3> QED BY <3>1, <3>2, <3>3, <3>4, <3>5, <3>6 DEF Server
  <2> QED BY <1>1, <1>2, <2>1 DEF Transfer!vars
<1> QED BY <1>3, <1>4

(* No handler of the client takes a loss back. *)
LEMMA LossIsKept ==
  ASSUME TypeOK, Owned, Client, lost' = 0
  PROVE  lost = 0
<1>0. RX \in Dir /\ ShakingClean
  BY DEF Dir, Owned
<1>1. CASE openStateRX
  BY <1>1, OpenRX
<1>2. CASE setupStateRX
  BY <1>0, <1>2, SetupRX
<1>3. CASE connectedStateRX
  BY <1>3, ConnectedRX
<1>4. CASE closedStateRX
  BY <1>4, ClosedRX
<1>5. CASE doneStateRX
  BY <1>5, DoneRX
<1>6. CASE closedStateExit(RX) \/ divideByZero(RX) \/ ioError(RX)
  BY <1>6 DEF closedStateExit, divideByZero, ioError, gatewayVars
<1> QED BY <1>1, <1>2, <1>3, <1>4, <1>5, <1>6 DEF Client

(* A window the client writes is a piece of the file, and the one with     *)
(* which it returns the last piece.                                        *)
LEMMA ClientRefines ==
  ASSUME TypeInv, Owned, ShakeInv, PrefixWritten, PrefixWritten', Client
  PROVE  Transfer!Next \/ UNCHANGED Transfer!vars
<1>0. /\ TypeOK /\ ShakingClean /\ TX \in Dir /\ RX \in Dir
  BY DEF TypeInv, Owned, Dir
<1>1. ses'[TX] = ses[TX] /\ fileSize' = fileSize
  BY <1>0, ClientFrame
<1>2. Returned(TX)' = Returned(TX)
  BY <1>1 DEF Returned
<1>3. CASE doneStateRX
  <2>0. /\ ses[RX].next = "done" /\ sink' = WriteWindow(sink, rxcurrentWindow[RX])
    BY <1>0, <1>3, DoneRX
  <2>1. ~Returned(RX)
    BY <2>0 DEF Returned
  <2>2. /\ fileSize \in Nat /\ PayloadSize \in Nat
        /\ Len(sink) \in Nat /\ Len(sink') \in Nat /\ Len(sink) <= Len(sink')
    <3>1. fileSize \in Nat /\ sink \in Seq(Chunk) /\ PayloadSize \in Nat
      BY <1>0, SessionAssumption, PayloadSizeType DEF TypeOK
    <3>2. /\ rxcurrentWindow[RX] \in SUBSET MemBuff /\ IsFiniteSet(rxcurrentWindow[RX])
      BY <1>0 DEF TypeOK, TypeInv, WindowsKeyed, Keyed
    <3>3. PICK k \in Nat : k = Cardinality(rxcurrentWindow[RX])
      BY <3>2, FS_CardinalityType
    <3>4. PICK t : t = [i \in 1..k |-> InCapidOrder(rxcurrentWindow[RX])[i].cap.data]
      OBVIOUS
    <3>5. sink' = sink \o t
      BY <2>0, <3>3, <3>4 DEF WriteWindow
    <3>6. PICK S : Chunk \subseteq S /\ \A i \in 1..k : t[i] \in S
      <4>1. \A i \in 1..k : t[i] \in Chunk \cup {t[j] : j \in 1..k}
        OBVIOUS
      <4> QED BY <4>1
    <3>7. Len(sink') = Len(sink) + k
      <4>1. t \in Seq(S) /\ Len(t) = k
        BY <3>4, <3>6
      <4>2. sink \in Seq(S)
        BY <3>1, <3>6
      <4> QED BY <3>5, <4>1, <4>2, ConcatProperties
    <3> QED BY <3>1, <3>7
  <2>3. PICK a \in 0..fileSize : Written = Transfer!Prefix(a) /\ a = Len(sink) * PayloadSize
    BY <2>1 DEF PrefixWritten
  <2>4. PICK c \in 0..fileSize :
          /\ Written' = Transfer!Prefix(c)
          /\ IF Returned(RX)' THEN c = fileSize ELSE c = Len(sink') * PayloadSize
    <3>1. PrefixWritten' <=> \E x \in 0..fileSize' :
                               /\ Written' = Transfer!Prefix(x)
                               /\ IF Returned(RX)' THEN x = fileSize'
                                  ELSE x = Len(sink') * PayloadSize
      BY DEF PrefixWritten
    <3> QED BY <1>1, <3>1
  <2>5. a <= c
    <3>1. CASE Returned(RX)'
      BY <2>2, <2>4, <3>1
    <3>2. CASE ~Returned(RX)'
      <4>0. Len(sink') - Len(sink) \in Nat
        BY <2>2
      <4>1. PICK k \in Nat : k = Len(sink') - Len(sink)
        BY <4>0
      <4>2. c = (Len(sink) + k) * PayloadSize
        BY <2>2, <2>4, <3>2, <4>1
      <4>3. \A x, y \in Nat : (x + y) * PayloadSize = x * PayloadSize + y * PayloadSize
                              /\ y * PayloadSize >= 0
        BY <2>2
      <4> QED BY <2>2, <2>3, <4>2, <4>3
    <3> QED BY <3>1, <3>2
  <2>6. Len(Written) = a
    BY <2>2, <2>3 DEF Transfer!Prefix
  <2>7. Returned(RX)' \in BOOLEAN
    BY DEF Returned
  <2>8. CASE a < c
    <3>1. c \in Len(Written) + 1 .. fileSize
      BY <2>2, <2>6, <2>8
    <3>2. Returned(RX)' \in {FALSE, c = fileSize}
      BY <2>4, <2>7
    <3>3. Transfer!Receive
      BY <1>1, <1>2, <2>1, <2>4, <3>1, <3>2 DEF Transfer!Receive
    <3> QED BY <3>3 DEF Transfer!Next
  <2>9. CASE a = c
    <3>1. Written' = Written
      BY <2>3, <2>4, <2>9
    <3>2. CASE Returned(RX)'
      <4>1. Written = Transfer!Prefix(fileSize)
        BY <2>3, <2>4, <2>9, <3>2
      <4>2. Transfer!ClientReturn
        BY <1>1, <1>2, <2>1, <2>7, <3>1, <3>2, <4>1 DEF Transfer!ClientReturn
      <4> QED BY <4>2 DEF Transfer!Next
    <3>3. CASE ~Returned(RX)'
      <4>1. Returned(RX)' = Returned(RX)
        BY <2>1, <2>7, <3>3 DEF Returned
      <4> QED BY <1>1, <1>2, <3>1, <4>1 DEF Transfer!vars
    <3> QED BY <3>2, <3>3
  <2> QED BY <2>2, <2>5, <2>8, <2>9
<1>4. CASE ~doneStateRX
  <2>1. sink' = sink /\ Returned(RX)' = Returned(RX)
    <3>1. CASE openStateRX
      BY <1>0, <3>1, OpenRX DEF Returned
    <3>2. CASE setupStateRX
      <4>1. /\ ses[RX].next = "setup" /\ ses'[RX].next = "connected" /\ sink' = sink
            /\ ses'[RX].complete = ses[RX].complete
        BY <1>0, <3>2, SetupRX
      <4>2. ~Past(RX)
        BY <4>1 DEF Past, Returned
      <4> QED BY <4>1, <4>2 DEF ShakeInv, InStep, Returned
    <3>3. CASE connectedStateRX
      BY <1>0, <3>3, ConnectedRX DEF Returned
    <3>4. CASE closedStateRX
      BY <1>0, <3>4, ClosedRX DEF Returned
    <3>5. CASE closedStateExit(RX) \/ divideByZero(RX) \/ ioError(RX)
      <4>1. sink' = sink
        BY <3>5 DEF closedStateExit, divideByZero, ioError
      <4> QED BY <1>0, <3>5, <4>1, Stops DEF Returned
    <3> QED BY <1>4, <3>1, <3>2, <3>3, <3>4, <3>5 DEF Client
  <2>2. Written' = Written
    BY <2>1 DEF Written
  <2> QED BY <1>1, <1>2, <2>1, <2>2 DEF Transfer!vars
<1> QED BY <1>3, <1>4

(* While no datagram is lost or repeated and nobody else speaks to the     *)
(* server, on a network that keeps the order, everything the two state     *)
(* machines do is a step of the abstract file transfer, for every size of  *)
(* file, window and chunk and whichever process dies: the client's file    *)
(* (presentation.h:41) only ever grows by the next bytes of the server's,  *)
(* the client leaves its loop (session.h:545) with all of them and the     *)
(* server leaves its own only after the client has.                        *)
THEOREM TransferRefined ==
  ASSUME ~Reorder
  PROVE  Spec => RefinesUntilFault
<1> DEFINE Inv == /\ TypeInv /\ Owned /\ KeyInv
                  /\ Undisturbed => ShakeInv /\ TransferInv
           Map == lost = 0 /\ Undisturbed => PrefixWritten
<1>1. Init => Transfer!Init
  <2> SUFFICES ASSUME Init PROVE Transfer!Init
    OBVIOUS
  <2>1. /\ sink = <<>> /\ \A d \in Dir : ses[d].next = "open"
        /\ fileSize \in FileSizes
    BY DEF Init
  <2>2. Written = <<>>
    <3>1. Len(sink) = 0 /\ DOMAIN sink = {}
      BY <2>1
    <3> QED BY <3>1 DEF Written, FlattenSeq
  <2>3. Returned(TX) = FALSE /\ Returned(RX) = FALSE
    BY <2>1 DEF Returned, Dir
  <2> QED BY <2>1, <2>2, <2>3 DEF Transfer!Init
<1>2. Inv => Map
  BY PrefixIsWritten
<1>3. Inv /\ Map /\ Map' /\ [Next]_vars
      => [(lost = 0 /\ Undisturbed)' => Transfer!Next]_(Transfer!vars)
  <2> SUFFICES ASSUME Inv, Map, Map', [Next]_vars, lost' = 0, Undisturbed'
               PROVE  Transfer!Next \/ UNCHANGED Transfer!vars
    OBVIOUS
  <2>0. TypeOK /\ Undisturbed /\ ShakeInv /\ TransferInv
    BY UndisturbedBefore DEF TypeInv
  <2>1. CASE Server
    BY <2>0, <2>1, ServerRefines
  <2>2. CASE Client
    <3>1. lost = 0
      BY <2>0, <2>2, LossIsKept
    <3> QED BY <2>0, <2>2, <3>1, ClientRefines
  <2>3. CASE Network
    BY <2>0, <2>3, OnlyLoss
  <2>4. CASE Terminated \/ UNCHANGED vars
    <3>1. UNCHANGED <<sink, ses, fileSize>>
      BY <2>4 DEF Terminated, vars, sessionVars
    <3>2. Written' = Written
      BY <3>1 DEF Written
    <3> QED BY <3>1, <3>2 DEF Transfer!vars, Returned
  <2> QED BY <2>1, <2>2, <2>3, <2>4 DEF Next
<1> QED BY TypeInvariant, OwnedInvariant, KeyInvariant, ShakeInvariant, TransferInvariant,
           <1>1, <1>2, <1>3, PTL DEF Spec, RefinesUntilFault
=============================================================================
