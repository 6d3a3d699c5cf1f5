-------------------------- MODULE HandshakeProofs --------------------------
(***************************************************************************)
(* The handshake of Session, for as long as no datagram is delivered twice *)
(* and no second client speaks: the network may lose and reorder,          *)
(* addresses may lead nowhere and processes may die at any moment.         *)
(***************************************************************************)
EXTENDS SessionProofs

(* An end is through with the handshake. *)
Past(d) == ses[d].next \in {"closed", "done"} \/ Returned(d)

(* The one capsule sent to d is under way, unless it was lost. *)
Quiet(d) == net[d] = {}
Awaits(d) ==
  /\ \A m, x \in net[d] : m = x
  /\ lost = 0 => net[d] # {}

IsHi(m) == m.capType = "CTRL" /\ m.addrs = addressList[TX]
IsAck(m) ==
  /\ m.capType = "CTRL" /\ m.addrs = addressList[RX]
  /\ m.win = WIN_SIZ /\ m.conn.id = genConnId

(* The states the two ends can be in until the server has the ACK. *)
Greeting ==
  LET t == ses[TX].next
      r == ses[RX].next
  IN  \/ t = "open" /\ r = "open" /\ Quiet(TX) /\ Quiet(RX)
      \/ t = "open" /\ r = "setup" /\ Awaits(TX) /\ Quiet(RX)
      \/ t = "setup" /\ r = "setup" /\ Quiet(TX) /\ Quiet(RX)
      \/ /\ t = "connected" /\ r = "setup" /\ Quiet(TX)
         /\ Awaits(RX) /\ \A m \in net[RX] : IsHi(m)
      \/ t = "connected" /\ r = "connected" /\ Quiet(TX) /\ Quiet(RX)
      \/ /\ t = "connected" /\ r = "closed" /\ ses[RX].winSize = WIN_SIZ /\ Quiet(RX)
         /\ Awaits(TX) /\ \A m \in net[TX] : IsAck(m)

(* The ends leave the handshake together. *)
InStep ==
  /\ ~Past(TX) => Greeting /\ ~ses[TX].complete /\ ~ses[RX].complete
  /\ Past(TX) => Past(RX)

(* What each end has learnt. *)
Learnt ==
  /\ peers[TX] = IF Past(TX) THEN DecodePeers(addressList[RX]) ELSE NoPeers
  /\ peers[RX] = IF ses[RX].next \in {"open", "setup"}
                   THEN NoPeers ELSE DecodePeers(addressList[TX])
  /\ Past(TX) => conns[TX][currentConn].id = genConnId
  /\ Past(RX) => conns[RX][currentConn].id = genConnId
  /\ Past(TX) => ses[TX].winSize <= WIN_SIZ

ShakeInv == InStep /\ Learnt

-----------------------------------------------------------------------------
(* A send either adds its capsule to what is under way or loses it. *)
LEMMA SentOrLost ==
  ASSUME TypeOK, NEW d \in Dir, NEW cap, SendCapsule(d, cap)
  PROVE  /\ net'[d] = net[d]
         /\ net'[Peer(d)] \subseteq net[Peer(d)] \cup {cap}
         /\ net[Peer(d)] \subseteq net'[Peer(d)]
         /\ lost' = 0 => lost = 0 /\ cap \in net'[Peer(d)]
<1>1. Peer(d) \in Dir /\ Peer(d) # d /\ lost \in Nat
  BY DEF Peer, Dir, TX, RX, TypeOK
<1>2. CASE Misrouted(d)
  <2>1. net' = net /\ lost' = lost + 1
    BY <1>2 DEF SendCapsule
  <2> QED BY <1>1, <2>1
<1>3. CASE ~Misrouted(d)
  <2>1. net' = [net EXCEPT ![Peer(d)] = @ \cup {cap}] /\ lost' = lost
    BY <1>3 DEF SendCapsule
  <2> QED BY <1>1, <2>1 DEF TypeOK
<1> QED BY <1>2, <1>3

LEMMA Taken ==
  ASSUME TypeOK, NEW d \in Dir, NEW m, TakeCapsule(d, m)
  PROVE  /\ m \in net[d] /\ net'[d] = net[d] \ {m}
         /\ net'[Peer(d)] = net[Peer(d)]
         /\ lost' = lost
BY DEF TypeOK, TakeCapsule, Deliverable, Peer, Dir, TX, RX

(* Only the network repeats a datagram or lets a second client speak. *)
LEMMA OnlyNetworkDisturbs ==
  ASSUME [Next]_vars, ~Network
  PROVE  UNCHANGED <<dups, strays>>
<1>1. CASE Server
  BY <1>1 DEF Server, openStateTX, setupStateTX, connectedStateTX, closedStateTX,
       doneStateTX, bufferIsNull, closedStateExit, divideByZero, ioError, gatewayVars
<1>2. CASE Client
  BY <1>2 DEF Client, openStateRX, setupStateRX, connectedStateRX, closedStateRX,
       doneStateRX, closedStateExit, divideByZero, ioError, gatewayVars
<1>3. CASE Terminated \/ UNCHANGED vars
  BY <1>3 DEF Terminated, vars, gatewayVars
<1> QED BY <1>1, <1>2, <1>3 DEF Next

(* A repeated datagram or a second client's Hello is never taken back. *)
LEMMA UndisturbedBefore ==
  ASSUME TypeOK, [Next]_vars, Undisturbed'
  PROVE  Undisturbed
<1>0. dups \in Nat /\ strays \in Nat
  BY DEF TypeOK
<1>1. CASE Network
  BY <1>0, <1>1 DEF Network, Lose, Duplicate, Stray, Undisturbed
<1>2. CASE ~Network
  BY <1>2, OnlyNetworkDisturbs DEF Undisturbed
<1> QED BY <1>1, <1>2

(* A network that repeats nothing and has no second client stays so. *)
LEMMA PlainNetwork ==
  ASSUME MaxDup = 0, MaxStray = 0
  PROVE  Spec => []Undisturbed
<1>1. Init => Undisturbed
  BY DEF Init, Undisturbed
<1>2. Undisturbed /\ [Next]_vars => Undisturbed'
  <2> SUFFICES ASSUME Undisturbed, [Next]_vars PROVE Undisturbed'
    OBVIOUS
  <2>1. CASE Network
    BY <2>1 DEF Network, Lose, Duplicate, Stray, Undisturbed
  <2>2. CASE ~Network
    BY <2>2, OnlyNetworkDisturbs DEF Undisturbed
  <2> QED BY <2>1, <2>2
<1> QED BY <1>1, <1>2, PTL DEF Spec

(* While nothing is repeated, a fault of the network is a loss. *)
LEMMA OnlyLoss ==
  ASSUME Undisturbed', TypeOK, Network
  PROVE  /\ \A d \in Dir : net'[d] \subseteq net[d]
         /\ lost' # 0
         /\ UNCHANGED <<addressList, peers>>
         /\ UNCHANGED sessionVars
<1>1. dups \in Nat /\ strays \in Nat /\ lost \in Nat
  BY DEF TypeOK
<1>2. ~Duplicate /\ ~Stray(StrayHello(strays))
  BY <1>1 DEF Undisturbed, Duplicate, Stray
<1>3. Lose /\ UNCHANGED sessionVars
  BY <1>2 DEF Network
<1> QED BY <1>1, <1>3 DEF Lose, TypeOK

(* The ACK's window size fits its four bits. *)
LEMMA WindowFits == WIN_SIZ \in Nat /\ WIN_SIZ > 0 /\ WIN_SIZ % 16 = WIN_SIZ
BY SessionAssumption

-----------------------------------------------------------------------------
(* What a handler of one end leaves alone at the other. *)
LEMMA ServerFrame ==
  ASSUME TypeOK, Server
  PROVE  /\ ses'[RX] = ses[RX] /\ conns'[RX] = conns[RX] /\ peers'[RX] = peers[RX]
         /\ rxFactory'[RX] = rxFactory[RX] /\ txFactory'[RX] = txFactory[RX]
         /\ rxcurrentWindow'[RX] = rxcurrentWindow[RX]
         /\ UNCHANGED <<addressList, fileSize, sink>>
<1>0. TX \in Dir /\ RX \in Dir /\ TX # RX
  BY DEF Dir, TX, RX
<1>1. CASE openStateTX \/ connectedStateTX \/ doneStateTX
  BY <1>0, <1>1 DEF openStateTX, connectedStateTX, doneStateTX, PullPopped, TypeOK
<1>2. CASE setupStateTX \/ closedStateTX
  BY <1>0, <1>2 DEF setupStateTX, closedStateTX, NewBufferPopped, TypeOK
<1>3. CASE bufferIsNull \/ closedStateExit(TX) \/ divideByZero(TX) \/ ioError(TX)
  BY <1>0, <1>3 DEF bufferIsNull, closedStateExit, divideByZero, ioError, TypeOK,
                    gatewayVars
<1> QED BY <1>1, <1>2, <1>3 DEF Server

LEMMA ClientFrame ==
  ASSUME TypeOK, Client
  PROVE  /\ ses'[TX] = ses[TX] /\ conns'[TX] = conns[TX] /\ peers'[TX] = peers[TX]
         /\ rxFactory'[TX] = rxFactory[TX] /\ txFactory'[TX] = txFactory[TX]
         /\ UNCHANGED <<addressList, fileSize>>
<1>0. TX \in Dir /\ RX \in Dir /\ TX # RX
  BY DEF Dir, TX, RX
<1>1. CASE setupStateRX \/ closedStateRX
  BY <1>0, <1>1 DEF setupStateRX, closedStateRX, PullPopped, TypeOK
<1>2. CASE openStateRX \/ connectedStateRX \/ doneStateRX
  BY <1>0, <1>2 DEF openStateRX, connectedStateRX, doneStateRX, NewBufferPopped, TypeOK
<1>3. CASE closedStateExit(RX) \/ divideByZero(RX) \/ ioError(RX)
  BY <1>0, <1>3 DEF closedStateExit, divideByZero, ioError, TypeOK, gatewayVars
<1> QED BY <1>1, <1>2, <1>3 DEF Client

(* What each handler does to its own end and to the network. *)
LEMMA OpenTX ==
  ASSUME TypeOK, openStateTX
  PROVE  /\ ses[TX].next = "open" /\ ses'[TX].next = "setup"
         /\ ses'[TX].complete = ses[TX].complete
         /\ peers'[TX] = peers[TX] /\ txFactory'[TX] = txFactory[TX]
         /\ \E m \in net[TX] : net'[TX] = net[TX] \ {m}
         /\ net'[RX] = net[RX] /\ lost' = lost
<1>0. TX \in Dir /\ Peer(TX) = RX /\ ses[TX] \in SessionState
  BY DEF Dir, Peer, TypeOK
<1>1. PICK m : TakeCapsule(TX, m)
  BY DEF openStateTX, PullPopped
<1>2. ses[TX].next = "open" /\ ses'[TX] = [ses[TX] EXCEPT !.next = "setup"]
  BY <1>0 DEF openStateTX, At, TypeOK
<1>3. ses'[TX].next = "setup" /\ ses'[TX].complete = ses[TX].complete
  BY <1>0, <1>2 DEF SessionState
<1> QED BY <1>0, <1>1, <1>2, <1>3, Taken DEF openStateTX

LEMMA SetupTX ==
  ASSUME TypeOK, setupStateTX
  PROVE  /\ ses[TX].next = "setup" /\ ses'[TX].next = "connected"
         /\ ses'[TX].complete = ses[TX].complete
         /\ ses'[TX].capsuleId = ses[TX].capsuleId + 1
         /\ peers'[TX] = peers[TX] /\ txFactory'[TX].fin = txFactory[TX].fin
         /\ net'[TX] = net[TX]
         /\ \E c : /\ IsHi(c) /\ c.from = "peer" /\ net'[RX] \subseteq net[RX] \cup {c}
                   /\ lost' = 0 => lost = 0 /\ c \in net'[RX]
<1>0. TX \in Dir /\ Peer(TX) = RX /\ ses[TX] \in SessionState
  BY DEF Dir, Peer, TypeOK
<1>1. PICK c : c = NewCapsule(TX, "CTRL", conns[TX][currentConn], 0, FALSE,
                              addressList[TX], NoData)
  OBVIOUS
<1>2. IsHi(c) /\ c.from = "peer"
  BY <1>1 DEF NewCapsule, IsHi
<1>3. SendCapsule(TX, c) /\ peers' = peers
  BY <1>1 DEF setupStateTX
<1>4. /\ ses[TX].next = "setup"
      /\ ses'[TX] = Numbered([ses[TX] EXCEPT !.next = "connected"])
  BY <1>0 DEF setupStateTX, At, TypeOK
<1>5. /\ ses'[TX].next = "connected" /\ ses'[TX].complete = ses[TX].complete
      /\ ses'[TX].capsuleId = ses[TX].capsuleId + 1
  BY <1>0, <1>4 DEF Numbered, SessionState
<1>6. txFactory'[TX].fin = txFactory[TX].fin
  BY <1>0 DEF setupStateTX, NewBufferPopped, TypeOK, TxFactory
<1> QED BY <1>0, <1>2, <1>3, <1>4, <1>5, <1>6, SentOrLost

LEMMA ConnectedTX ==
  ASSUME TypeOK, ServerReady, connectedStateTX
  PROVE  /\ ses[TX].next = "connected" /\ ~ses[TX].complete
         /\ ses'[TX].next = "closed" /\ ses'[TX].complete = ses[TX].complete
         /\ ses'[TX].capsuleId = ses[TX].capsuleId
         /\ txFactory'[TX] = txFactory[TX]
         /\ \E m \in net[TX] : /\ net'[TX] = net[TX] \ {m}
                               /\ peers'[TX] = DecodePeers(m.addrs)
                               /\ conns'[TX][currentConn].id = m.conn.id
                               /\ ses'[TX].winSize = m.win
         /\ net'[RX] = net[RX] /\ lost' = lost
<1>0. TX \in Dir /\ Peer(TX) = RX /\ ses[TX] \in SessionState
  BY DEF Dir, Peer, TypeOK
<1>1. PICK m : /\ PullPopped(TX, m)
               /\ peers' = [peers EXCEPT ![TX] = DecodePeers(HeadCapsule(TX, m).addrs)]
               /\ conns' = [conns EXCEPT ![TX][currentConn].id = HeadCapsule(TX, m).conn.id]
               /\ ses' = [ses EXCEPT ![TX] = [@ EXCEPT !.next = "closed",
                                                       !.winSize = HeadCapsule(TX, m).win]]
  BY DEF connectedStateTX
<1>2. HeadCapsule(TX, m) = m
  BY <1>0, <1>1, PulledAlone DEF ServerReady
<1>3. ses[TX].next = "connected" /\ ~ses[TX].complete
  BY DEF connectedStateTX, At, Returned
<1>4. ses'[TX] = [ses[TX] EXCEPT !.next = "closed", !.winSize = m.win]
  BY <1>0, <1>1, <1>2 DEF TypeOK
<1>5. /\ ses'[TX].next = "closed" /\ ses'[TX].complete = ses[TX].complete
      /\ ses'[TX].capsuleId = ses[TX].capsuleId /\ ses'[TX].winSize = m.win
  BY <1>0, <1>4 DEF SessionState
<1>6. /\ m \in net[TX] /\ net'[TX] = net[TX] \ {m}
      /\ net'[RX] = net[RX] /\ lost' = lost
  BY <1>0, <1>1, Taken DEF PullPopped
<1>7. peers'[TX] = DecodePeers(m.addrs) /\ conns'[TX][currentConn].id = m.conn.id
  BY <1>0, <1>1, <1>2 DEF TypeOK, Connection, currentConn
<1> QED BY <1>3, <1>5, <1>6, <1>7 DEF connectedStateTX

LEMMA DoneTX ==
  ASSUME TypeOK, doneStateTX
  PROVE  /\ ses[TX].next = "done"
         /\ ses'[TX].complete
         /\ ses'[TX].next = IF txFactory[TX].fin THEN "connected" ELSE "closed"
         /\ ses'[TX].winSize = IF txFactory[TX].fin THEN ses[TX].winSize ELSE WIN_SIZ
         /\ ses'[TX].capsuleId = ses[TX].capsuleId
         /\ peers'[TX] = peers[TX] /\ txFactory'[TX] = txFactory[TX]
         /\ conns'[TX] = conns[TX]
         /\ \E m \in net[TX] : net'[TX] = net[TX] \ {m}
         /\ net'[RX] = net[RX] /\ lost' = lost
<1>0. TX \in Dir /\ Peer(TX) = RX /\ ses[TX] \in SessionState
  BY DEF Dir, Peer, TypeOK
<1>1. PICK m : TakeCapsule(TX, m)
  BY DEF doneStateTX, PullPopped
<1>2. ses[TX].next = "done" /\ ses'[TX] = LeaveDone(ses[TX], txFactory[TX].fin)
  BY <1>0 DEF doneStateTX, At, TypeOK
<1>3. /\ ses'[TX].complete
      /\ ses'[TX].next = IF txFactory[TX].fin THEN "connected" ELSE "closed"
      /\ ses'[TX].winSize = IF txFactory[TX].fin THEN ses[TX].winSize ELSE WIN_SIZ
      /\ ses'[TX].capsuleId = ses[TX].capsuleId
  BY <1>0, <1>2 DEF LeaveDone, SessionState
<1> QED BY <1>0, <1>1, <1>2, <1>3, Taken DEF doneStateTX

LEMMA ClosedTX ==
  ASSUME TypeInv, SourceCount, closedStateTX
  PROVE  /\ ses[TX].next = "closed" /\ ses'[TX].next = "closed"
         /\ ses[TX].winSize > 0
         /\ ses'[TX].complete = ses[TX].complete
         /\ ses'[TX].winSize = IF txFactory'[TX].fin THEN 0 ELSE ses[TX].winSize - 1
         /\ ses'[TX].capsuleId = ses[TX].capsuleId + 1
         /\ ~txFactory[TX].fin
         /\ peers'[TX] = peers[TX] /\ conns'[TX] = conns[TX]
         /\ net'[TX] = net[TX]
         /\ \E c : /\ c.capType = "PAYLD" /\ c.n = ses[TX].capsuleId
                   /\ c.from = "peer"
                   /\ net'[RX] \subseteq net[RX] \cup {c}
                   /\ lost' = 0 => /\ lost = 0 /\ net[RX] \subseteq net'[RX]
                                   /\ c \in net'[RX]
<1>0. /\ TypeOK /\ SourceOK /\ TX \in Dir /\ Peer(TX) = RX
      /\ ses[TX] \in SessionState /\ txFactory[TX] \in TxFactory
      /\ fileSize \in Nat
  BY SessionAssumption DEF TypeInv, Dir, Peer, TypeOK
<1> DEFINE f == txFactory[TX]
           g == InputFromSource(f, fileSize)
           last == g.fin /\ Len(g.buffer) = 1
<1>1. g.buffer # <<>> /\ ses[TX].next = "closed" /\ ses[TX].winSize > 0
  BY DEF closedStateTX, At
<1>2. ~f.fin /\ Len(g.buffer) = 1 /\ g \in TxFactory
  BY <1>0, <1>1, ReadCounts, InputFromSourceOK DEF SourceOK, SourceCount
<1>3. PICK c : c = NewCapsule(TX, "PAYLD", conns[TX][currentConn], 0, last,
                              <<>>, Head(g.buffer))
  OBVIOUS
<1>4. /\ SendCapsule(TX, c)
      /\ txFactory'[TX] = [g EXCEPT !.buffer = Tail(@)]
      /\ ses'[TX] = Numbered(SlotUsed(ses[TX], last))
      /\ peers' = peers /\ conns' = conns
  BY <1>0, <1>3 DEF closedStateTX, TypeOK
<1> HIDE DEF g
<1>5. txFactory'[TX].fin = g.fin
  BY <1>2, <1>4 DEF TxFactory
<1>6. last = g.fin
  BY <1>2 DEF TxFactory
<1>7. /\ ses'[TX].next = "closed" /\ ses'[TX].complete = ses[TX].complete
      /\ ses'[TX].winSize = IF g.fin THEN 0 ELSE ses[TX].winSize - 1
      /\ ses'[TX].capsuleId = ses[TX].capsuleId + 1
  <2> HIDE DEF last
  <2> QED BY <1>0, <1>1, <1>4, <1>6 DEF Numbered, SlotUsed, SessionState
<1>8. c.capType = "PAYLD" /\ c.n = ses[TX].capsuleId /\ c.from = "peer"
  BY <1>3 DEF NewCapsule
<1> QED BY <1>0, <1>1, <1>2, <1>4, <1>5, <1>7, <1>8, SentOrLost

LEMMA NewBufferEmpty ==
  ASSUME TypeOK, NEW d \in Dir, NewBufferPopped(d), txFactory[d].buffer = <<>>
  PROVE  txFactory'[d].buffer = <<>>
<1>1. NoData \in Chunk
  BY DEF NoData, Chunk
<1>2. Tail(Append(txFactory[d].buffer, NoData)) = <<>>
  BY <1>1
<1> QED BY <1>2 DEF NewBufferPopped, TypeOK, TxFactory

LEMMA OpenRX ==
  ASSUME TypeOK, openStateRX
  PROVE  /\ ses[RX].next = "open" /\ ses'[RX].next = "setup"
         /\ ses'[RX].complete = ses[RX].complete /\ ses'[RX].winSize = ses[RX].winSize
         /\ ses'[RX].capsuleId = ses[RX].capsuleId + 1
         /\ peers'[RX] = peers[RX] /\ rxFactory' = rxFactory
         /\ rxcurrentWindow' = rxcurrentWindow /\ sink' = sink
         /\ txFactory[RX].buffer = <<>> => txFactory'[RX].buffer = <<>>
         /\ net'[RX] = net[RX]
         /\ \E c : /\ net'[TX] \subseteq net[TX] \cup {c}
                   /\ lost' = 0 => lost = 0 /\ c \in net'[TX]
<1>0. RX \in Dir /\ Peer(RX) = TX /\ ses[RX] \in SessionState
  BY DEF Dir, Peer, TypeOK, TX, RX
<1>1. PICK c : SendCapsule(RX, c)
  BY DEF openStateRX
<1>2. /\ ses[RX].next = "open"
      /\ ses'[RX] = Numbered([ses[RX] EXCEPT !.next = "setup"])
  BY <1>0 DEF openStateRX, At, TypeOK
<1>3. /\ ses'[RX].next = "setup" /\ ses'[RX].complete = ses[RX].complete /\ ses'[RX].winSize = ses[RX].winSize
      /\ ses'[RX].capsuleId = ses[RX].capsuleId + 1
  BY <1>0, <1>2 DEF Numbered, SessionState
<1>4. txFactory[RX].buffer = <<>> => txFactory'[RX].buffer = <<>>
  BY <1>0, NewBufferEmpty DEF openStateRX
<1> QED BY <1>0, <1>1, <1>2, <1>3, <1>4, SentOrLost DEF openStateRX

LEMMA SetupRX ==
  ASSUME TypeOK, ShakingClean, setupStateRX
  PROVE  /\ ses[RX].next = "setup" /\ ses'[RX].next = "connected"
         /\ ses'[RX].complete = ses[RX].complete /\ ses'[RX].winSize = ses[RX].winSize
         /\ ses'[RX].capsuleId = ses[RX].capsuleId
         /\ rxcurrentWindow'[RX] = rxcurrentWindow[RX]
         /\ rxFactory'[RX].fin = rxFactory[RX].fin
         /\ txFactory' = txFactory /\ sink' = sink
         /\ \E m \in net[RX] : /\ net'[RX] = net[RX] \ {m}
                               /\ peers'[RX] = DecodePeers(m.addrs)
         /\ net'[TX] = net[TX] /\ lost' = lost
<1>0. RX \in Dir /\ Peer(RX) = TX /\ ses[RX] \in SessionState
  BY DEF Dir, Peer, TypeOK, TX, RX
<1>1. PICK m : /\ PullPopped(RX, m)
               /\ rxcurrentWindow' = [rxcurrentWindow EXCEPT ![RX] = Windowed(RX, m)]
               /\ peers' = [peers EXCEPT ![RX] = DecodePeers(HeadCapsule(RX, m).addrs)]
  BY DEF setupStateRX
<1>2. ses[RX].next = "setup" /\ ses'[RX] = [ses[RX] EXCEPT !.next = "connected"]
  BY <1>0 DEF setupStateRX, At, TypeOK
<1>3. /\ ses'[RX].next = "connected" /\ ses'[RX].complete = ses[RX].complete /\ ses'[RX].winSize = ses[RX].winSize
      /\ ses'[RX].capsuleId = ses[RX].capsuleId
  BY <1>0, <1>2 DEF SessionState
<1>4. /\ rxFactory[RX].buffer = <<>> /\ \A x \in net[RX] : x.capType = "CTRL"
  BY <1>2 DEF ShakingClean, Shaking
<1>5. HeadCapsule(RX, m) = m /\ m \in net[RX]
  BY <1>0, <1>1, <1>4, PulledAlone
<1>6. rxcurrentWindow'[RX] = rxcurrentWindow[RX]
  BY <1>0, <1>1, <1>4, <1>5 DEF Windowed, TypeOK
<1>7. rxFactory'[RX].fin = rxFactory[RX].fin
  BY <1>0, <1>1 DEF PullPopped, TypeOK, RxFactory
<1>8. net'[RX] = net[RX] \ {m} /\ net'[TX] = net[TX] /\ lost' = lost
  BY <1>0, <1>1, Taken DEF PullPopped
<1>9. peers'[RX] = DecodePeers(m.addrs)
  BY <1>0, <1>1, <1>5 DEF TypeOK
<1> QED BY <1>2, <1>3, <1>5, <1>6, <1>7, <1>8, <1>9 DEF setupStateRX

LEMMA ConnectedRX ==
  ASSUME TypeOK, connectedStateRX
  PROVE  /\ ses[RX].next = "connected" /\ ~ses[RX].complete
         /\ ses'[RX].next = "closed" /\ ses'[RX].complete = ses[RX].complete
         /\ ses'[RX].capsuleId = ses[RX].capsuleId + 1
         /\ ses'[RX].winSize = WIN_SIZ
         /\ conns'[RX][currentConn].id = genConnId
         /\ peers'[RX] = peers[RX] /\ rxFactory' = rxFactory
         /\ rxcurrentWindow' = rxcurrentWindow /\ sink' = sink
         /\ txFactory[RX].buffer = <<>> => txFactory'[RX].buffer = <<>>
         /\ net'[RX] = net[RX]
         /\ \E c : /\ IsAck(c) /\ net'[TX] \subseteq net[TX] \cup {c}
                   /\ lost' = 0 => lost = 0 /\ c \in net'[TX]
<1>0. RX \in Dir /\ Peer(RX) = TX /\ ses[RX] \in SessionState
  BY DEF Dir, Peer, TypeOK, TX, RX
<1>1. PICK c : c = NewCapsule(RX, "CTRL", conns'[RX][currentConn], WIN_SIZ, FALSE,
                              addressList[RX], NoData)
  OBVIOUS
<1>2. SendCapsule(RX, c)
  BY <1>1 DEF connectedStateRX
<1>3. conns'[RX][currentConn].id = genConnId
  BY <1>0 DEF connectedStateRX, TypeOK, Connection, currentConn
<1>4. IsAck(c)
  BY <1>1, <1>3, WindowFits DEF NewCapsule, IsAck
<1>5. /\ ses[RX].next = "connected" /\ ~ses[RX].complete
      /\ ses'[RX] = Numbered([ses[RX] EXCEPT !.next = "closed", !.winSize = WIN_SIZ])
  BY <1>0 DEF connectedStateRX, At, Returned, TypeOK
<1>6. /\ ses'[RX].next = "closed" /\ ses'[RX].complete = ses[RX].complete
      /\ ses'[RX].capsuleId = ses[RX].capsuleId + 1 /\ ses'[RX].winSize = WIN_SIZ
  BY <1>0, <1>5 DEF Numbered, SessionState
<1>7. txFactory[RX].buffer = <<>> => txFactory'[RX].buffer = <<>>
  BY <1>0, NewBufferEmpty DEF connectedStateRX
<1> QED BY <1>0, <1>2, <1>3, <1>4, <1>5, <1>6, <1>7, SentOrLost DEF connectedStateRX

LEMMA ClosedRX ==
  ASSUME TypeOK, closedStateRX
  PROVE  \E m \in Deliverable(RX) :
         LET W == Windowed(RX, m)
             fin == rxFactory[RX].fin \/ (W # {} /\ Highest(W).cap.fin)
         IN  /\ ses[RX].next = "closed" /\ ses[RX].winSize > 0
             /\ ses'[RX].next = "closed" /\ ses'[RX].complete = ses[RX].complete
             /\ ses'[RX].winSize = IF W # {} /\ fin THEN 0 ELSE ses[RX].winSize - 1
             /\ ses'[RX].capsuleId = ses[RX].capsuleId
             /\ conns'[RX] = conns[RX] /\ peers'[RX] = peers[RX]
             /\ rxcurrentWindow'[RX] = W /\ rxFactory'[RX].fin = fin
             /\ txFactory' = txFactory /\ sink' = sink
             /\ m \in net[RX] /\ net'[RX] = net[RX] \ {m}
             /\ net'[TX] = net[TX] /\ lost' = lost
<1>0. /\ RX \in Dir /\ Peer(RX) = TX /\ ses[RX] \in SessionState
      /\ rxFactory[RX] \in RxFactory
  BY DEF Dir, Peer, TypeOK, TX, RX
<1>1. PICK m \in net[RX] :
        LET W == Windowed(RX, m)
            fin == rxFactory[RX].fin \/ (W # {} /\ Highest(W).cap.fin)
        IN  /\ TakeCapsule(RX, m)
            /\ rxFactory' = [rxFactory EXCEPT ![RX].buffer = Pushed(RX, m), ![RX].fin = fin]
            /\ rxcurrentWindow' = [rxcurrentWindow EXCEPT ![RX] = W]
            /\ ses' = [ses EXCEPT ![RX] = SlotUsed(@, W # {} /\ fin)]
  BY DEF closedStateRX
<1> DEFINE W == Windowed(RX, m)
           fin == rxFactory[RX].fin \/ (W # {} /\ Highest(W).cap.fin)
<1>2. rxFactory'[RX].fin = fin
  <2> HIDE DEF fin
  <2>1. rxFactory' = [rxFactory EXCEPT ![RX].buffer = Pushed(RX, m), ![RX].fin = fin]
    BY <1>1 DEF fin
  <2> QED BY <1>0, <2>1 DEF TypeOK, RxFactory
<1>3. rxcurrentWindow'[RX] = W
  BY <1>0, <1>1 DEF TypeOK
<1>4. /\ ses[RX].next = "closed" /\ ses[RX].winSize > 0
      /\ ses'[RX] = SlotUsed(ses[RX], W # {} /\ fin)
  BY <1>0, <1>1 DEF closedStateRX, At, TypeOK
<1>5. /\ ses'[RX].next = "closed" /\ ses'[RX].complete = ses[RX].complete
      /\ ses'[RX].winSize = IF W # {} /\ fin THEN 0 ELSE ses[RX].winSize - 1
      /\ ses'[RX].capsuleId = ses[RX].capsuleId
  BY <1>0, <1>4 DEF SlotUsed, SessionState
<1>6. /\ m \in Deliverable(RX) /\ net'[RX] = net[RX] \ {m}
      /\ net'[TX] = net[TX] /\ lost' = lost
  BY <1>0, <1>1, Taken DEF TakeCapsule
<1>7. conns' = conns /\ peers' = peers /\ txFactory' = txFactory /\ sink' = sink
  BY DEF closedStateRX
<1> HIDE DEF W, fin
<1> QED BY <1>2, <1>3, <1>4, <1>5, <1>6, <1>7 DEF W, fin

LEMMA DoneRX ==
  ASSUME TypeOK, doneStateRX
  PROVE  /\ ses[RX].next = "done" /\ ses'[RX].complete
         /\ ses'[RX].next = IF rxFactory[RX].fin THEN "connected" ELSE "closed"
         /\ ses'[RX].winSize = IF rxFactory[RX].fin THEN ses[RX].winSize ELSE WIN_SIZ
         /\ ses'[RX].capsuleId = ses[RX].capsuleId + 1
         /\ conns'[RX] = conns[RX] /\ peers'[RX] = peers[RX]
         /\ rxFactory'[RX].fin = rxFactory[RX].fin
         /\ rxcurrentWindow'[RX] = {}
         /\ sink' = WriteWindow(sink, rxcurrentWindow[RX])
         /\ txFactory'[RX].buffer = Append(txFactory[RX].buffer, NoData)
         /\ net'[RX] = net[RX]
         /\ \E c : /\ net'[TX] \subseteq net[TX] \cup {c}
                   /\ lost' = 0 => /\ lost = 0 /\ net[TX] \subseteq net'[TX]
                                   /\ c \in net'[TX]
<1>0. /\ RX \in Dir /\ Peer(RX) = TX /\ ses[RX] \in SessionState
      /\ rxFactory[RX] \in RxFactory /\ txFactory[RX] \in TxFactory
  BY DEF Dir, Peer, TypeOK, TX, RX
<1>1. PICK c : SendCapsule(RX, c)
  BY DEF doneStateRX
<1>2. /\ ses[RX].next = "done"
      /\ ses'[RX] = Numbered(LeaveDone(ses[RX], rxFactory[RX].fin))
  BY <1>0 DEF doneStateRX, At, TypeOK
<1>3. /\ ses'[RX].complete
      /\ ses'[RX].next = IF rxFactory[RX].fin THEN "connected" ELSE "closed"
      /\ ses'[RX].winSize = IF rxFactory[RX].fin THEN ses[RX].winSize ELSE WIN_SIZ
      /\ ses'[RX].capsuleId = ses[RX].capsuleId + 1
  BY <1>0, <1>2 DEF Numbered, LeaveDone, SessionState
<1>4. rxFactory'[RX].fin = rxFactory[RX].fin
  BY <1>0 DEF doneStateRX, TypeOK, RxFactory
<1>5. txFactory'[RX].buffer = Append(txFactory[RX].buffer, NoData)
  BY <1>0 DEF doneStateRX, TypeOK, TxFactory
<1>6. rxcurrentWindow'[RX] = {}
  BY <1>0 DEF doneStateRX, TypeOK
<1> QED BY <1>0, <1>1, <1>2, <1>3, <1>4, <1>5, <1>6, SentOrLost DEF doneStateRX

-----------------------------------------------------------------------------
(* The handlers of the server keep the ends in step. *)
LEMMA ShakeServer ==
  ASSUME TypeInv, Owned, SourceCount, ShakeInv, Server
  PROVE  ShakeInv'
<1>0. /\ TypeOK /\ ServerReady /\ InStep /\ Learnt
      /\ TX \in Dir /\ RX \in Dir /\ TX # RX /\ Peer(TX) = RX
      /\ ses[TX].winSize \in Nat /\ WIN_SIZ \in Nat
  BY WindowFits DEF TypeInv, Owned, ShakeInv, Dir, TX, RX, Peer, TypeOK, SessionState
<1>1. /\ ses'[RX] = ses[RX] /\ conns'[RX] = conns[RX] /\ peers'[RX] = peers[RX]
      /\ addressList' = addressList
  BY <1>0, ServerFrame
<1>2. Past(RX)' = Past(RX)
  BY <1>1 DEF Past, Returned
<1>3. ASSUME Past(TX), Past(TX)', peers'[TX] = peers[TX], conns'[TX] = conns[TX],
             ses'[TX].winSize <= WIN_SIZ
      PROVE  ShakeInv'
  <2>1. InStep'
    BY <1>0, <1>2, <1>3 DEF InStep
  <2>2. Learnt'
    BY <1>0, <1>1, <1>2, <1>3 DEF Learnt
  <2> QED BY <2>1, <2>2 DEF ShakeInv
<1>4. ASSUME ~Past(TX), ~Past(TX)', peers'[TX] = peers[TX]
      PROVE  Learnt'
  BY <1>0, <1>1, <1>2, <1>4 DEF Learnt
<1>5. CASE openStateTX
  <2>1. /\ ses[TX].next = "open" /\ ses'[TX].next = "setup"
        /\ ses'[TX].complete = ses[TX].complete
        /\ peers'[TX] = peers[TX]
        /\ \E m \in net[TX] : net'[TX] = net[TX] \ {m}
        /\ net'[RX] = net[RX]
    BY <1>0, <1>5, OpenTX
  <2>2. ~Past(TX) /\ ~Past(TX)'
    BY <2>1 DEF Past, Returned
  <2>3. Greeting'
    <3>1. Greeting
      BY <1>0, <2>2 DEF InStep
    <3>2. ses[RX].next = "setup" /\ Awaits(TX) /\ Quiet(RX)
      BY <2>1, <3>1 DEF Greeting, Quiet
    <3> QED BY <1>1, <2>1, <3>2 DEF Greeting, Awaits, Quiet
  <2>4. InStep'
    BY <1>0, <1>1, <2>1, <2>2, <2>3 DEF InStep
  <2> QED BY <1>4, <2>1, <2>2, <2>4 DEF ShakeInv
<1>6. CASE setupStateTX
  <2>1. /\ ses[TX].next = "setup" /\ ses'[TX].next = "connected"
        /\ ses'[TX].complete = ses[TX].complete
        /\ peers'[TX] = peers[TX]
        /\ net'[TX] = net[TX]
        /\ \E c : /\ IsHi(c) /\ net'[RX] \subseteq net[RX] \cup {c}
                  /\ lost' = 0 => lost = 0 /\ c \in net'[RX]
    BY <1>0, <1>6, SetupTX
  <2>2. ~Past(TX)
    BY <2>1 DEF Past, Returned
  <2>3. ~ses[TX].complete /\ ~ses[RX].complete /\ Greeting
    BY <1>0, <2>2 DEF InStep
  <2>4. ~Past(TX)'
    BY <2>1, <2>3 DEF Past, Returned
  <2>5. Greeting'
    <3>1. ses[RX].next = "setup" /\ Quiet(TX) /\ Quiet(RX)
      BY <2>1, <2>3 DEF Greeting
    <3> QED BY <1>1, <2>1, <3>1 DEF Greeting, Awaits, Quiet, IsHi
  <2>6. InStep'
    BY <1>0, <1>1, <2>1, <2>3, <2>4, <2>5 DEF InStep
  <2> QED BY <1>4, <2>1, <2>2, <2>4, <2>6 DEF ShakeInv
<1>7. CASE connectedStateTX
  <2>1. /\ ses[TX].next = "connected" /\ ~ses[TX].complete
        /\ ses'[TX].next = "closed"
        /\ \E m \in net[TX] : /\ peers'[TX] = DecodePeers(m.addrs)
                              /\ conns'[TX][currentConn].id = m.conn.id
                              /\ ses'[TX].winSize = m.win
    BY <1>0, <1>7, ConnectedTX
  <2>2. ~Past(TX) /\ Past(TX)'
    BY <2>1 DEF Past, Returned
  <2>3. Greeting
    BY <1>0, <2>2 DEF InStep
  <2>4. ses[RX].next = "closed" /\ \A m \in net[TX] : IsAck(m)
    BY <2>1, <2>3 DEF Greeting, Quiet
  <2>5. Past(RX)
    BY <2>4 DEF Past
  <2>6. InStep'
    BY <1>2, <2>2, <2>5 DEF InStep
  <2>7. /\ peers'[TX] = DecodePeers(addressList[RX])
        /\ conns'[TX][currentConn].id = genConnId
        /\ ses'[TX].winSize = WIN_SIZ
    BY <2>1, <2>4 DEF IsAck
  <2>8. Learnt'
    BY <1>0, <1>1, <1>2, <2>2, <2>7 DEF Learnt
  <2> QED BY <2>6, <2>8 DEF ShakeInv
<1>8. CASE closedStateTX
  <2>1. /\ ses[TX].next = "closed" /\ ses'[TX].next = "closed"
        /\ ses'[TX].winSize = IF txFactory'[TX].fin THEN 0 ELSE ses[TX].winSize - 1
        /\ peers'[TX] = peers[TX] /\ conns'[TX] = conns[TX]
    BY <1>8, ClosedTX
  <2>2. Past(TX) /\ Past(TX)'
    BY <2>1 DEF Past
  <2>3. ses[TX].winSize <= WIN_SIZ
    BY <1>0, <2>2 DEF Learnt
  <2>4. ses'[TX].winSize <= WIN_SIZ
    BY <1>0, <2>1, <2>3
  <2> QED BY <1>3, <2>1, <2>2, <2>4
<1>9. CASE bufferIsNull \/ closedStateExit(TX) \/ divideByZero(TX) \/ ioError(TX)
  <2>1. /\ \/ ses[TX].next = "closed" /\ ses'[TX].next = "done"
           \/ ses'[TX].next = ses[TX].next
        /\ ses'[TX].complete = ses[TX].complete
        /\ ses'[TX].winSize = ses[TX].winSize
    BY <1>0, <1>9, Stops
  <2>2. UNCHANGED <<net, lost, peers, conns>>
    BY <1>9 DEF bufferIsNull, closedStateExit, divideByZero, ioError, gatewayVars
  <2>3. CASE Past(TX)
    <3>1. Past(TX)'
      BY <2>1, <2>3 DEF Past, Returned
    <3> QED BY <1>0, <1>3, <2>1, <2>2, <2>3, <3>1 DEF Learnt
  <2>4. CASE ~Past(TX)
    <3>1. ~Past(TX)' /\ ses'[TX].next = ses[TX].next
      BY <2>1, <2>4 DEF Past, Returned
    <3>2. Greeting'
      BY <1>0, <1>1, <2>2, <2>4, <3>1 DEF InStep, Greeting, Quiet, Awaits, IsHi, IsAck
    <3>3. InStep'
      BY <1>0, <1>1, <2>1, <2>4, <3>1, <3>2 DEF InStep
    <3> QED BY <1>4, <2>2, <2>4, <3>1, <3>3 DEF ShakeInv
  <2> QED BY <2>3, <2>4
<1>10. CASE doneStateTX
  <2>1. /\ ses[TX].next = "done" /\ ses'[TX].complete
        /\ ses'[TX].next = IF txFactory[TX].fin THEN "connected" ELSE "closed"
        /\ ses'[TX].winSize = IF txFactory[TX].fin THEN ses[TX].winSize ELSE WIN_SIZ
        /\ peers'[TX] = peers[TX] /\ conns'[TX] = conns[TX]
    BY <1>0, <1>10, DoneTX
  <2>2. Past(TX) /\ Past(TX)'
    BY <2>1 DEF Past, Returned
  <2>3. ses[TX].winSize <= WIN_SIZ
    BY <1>0, <2>2 DEF Learnt
  <2>4. ses'[TX].winSize <= WIN_SIZ
    BY <1>0, <2>1, <2>3
  <2> QED BY <1>3, <2>1, <2>2, <2>4
<1> QED BY <1>5, <1>6, <1>7, <1>8, <1>9, <1>10 DEF Server

(* The handlers of the client keep the ends in step: once it has sent the  *)
(* ACK it cannot go on before the server has read it.                      *)
LEMMA ShakeClient ==
  ASSUME TypeInv, Owned, ShakeInv, Client
  PROVE  ShakeInv'
<1>0. /\ TypeOK /\ ShakingClean /\ InStep /\ Learnt
      /\ TX \in Dir /\ RX \in Dir /\ TX # RX /\ Peer(RX) = TX
      /\ WIN_SIZ \in Nat /\ WIN_SIZ > 0
  BY WindowFits DEF TypeInv, Owned, ShakeInv, Dir, TX, RX, Peer
<1>1. /\ ses'[TX] = ses[TX] /\ conns'[TX] = conns[TX] /\ peers'[TX] = peers[TX]
      /\ addressList' = addressList
  BY <1>0, ClientFrame
<1>2. Past(TX)' = Past(TX)
  BY <1>1 DEF Past, Returned
<1>3. CASE openStateRX
  <2>1. /\ ses[RX].next = "open" /\ ses'[RX].next = "setup"
        /\ ses'[RX].complete = ses[RX].complete
        /\ peers'[RX] = peers[RX]
        /\ net'[RX] = net[RX]
        /\ \E c : /\ net'[TX] \subseteq net[TX] \cup {c}
                  /\ lost' = 0 => lost = 0 /\ c \in net'[TX]
    BY <1>0, <1>3, OpenRX
  <2>2. ~Past(RX) /\ ~Past(RX)'
    BY <2>1 DEF Past, Returned
  <2>3. ~Past(TX) /\ Greeting
    BY <1>0, <2>2 DEF InStep
  <2>4. Greeting'
    <3>1. ses[TX].next = "open" /\ Quiet(TX) /\ Quiet(RX)
      BY <2>1, <2>3 DEF Greeting
    <3> QED BY <1>1, <2>1, <3>1 DEF Greeting, Awaits, Quiet
  <2>5. InStep'
    BY <1>0, <1>1, <1>2, <2>1, <2>3, <2>4 DEF InStep
  <2>6. Learnt'
    BY <1>0, <1>1, <1>2, <2>1, <2>2, <2>3 DEF Learnt
  <2> QED BY <2>5, <2>6 DEF ShakeInv
<1>4. CASE setupStateRX
  <2>1. /\ ses[RX].next = "setup" /\ ses'[RX].next = "connected"
        /\ ses'[RX].complete = ses[RX].complete
        /\ \E m \in net[RX] : /\ net'[RX] = net[RX] \ {m}
                              /\ peers'[RX] = DecodePeers(m.addrs)
        /\ net'[TX] = net[TX]
    BY <1>0, <1>4, SetupRX
  <2>2. ~Past(RX)
    BY <2>1 DEF Past, Returned
  <2>3. ~Past(TX) /\ Greeting /\ ~ses[RX].complete
    BY <1>0, <2>2 DEF InStep
  <2>4. ~Past(RX)'
    BY <2>1, <2>3 DEF Past, Returned
  <2>5. /\ ses[TX].next = "connected" /\ Quiet(TX) /\ Awaits(RX)
        /\ \A m \in net[RX] : IsHi(m)
    BY <2>1, <2>3 DEF Greeting, Quiet
  <2>6. Greeting'
    BY <1>1, <2>1, <2>5 DEF Greeting, Awaits, Quiet
  <2>7. InStep'
    BY <1>0, <1>1, <1>2, <2>1, <2>3, <2>6 DEF InStep
  <2>8. peers'[RX] = DecodePeers(addressList[TX])
    BY <2>1, <2>5 DEF IsHi
  <2>9. Learnt'
    BY <1>0, <1>1, <1>2, <2>1, <2>3, <2>4, <2>8 DEF Learnt
  <2> QED BY <2>7, <2>9 DEF ShakeInv
<1>5. CASE connectedStateRX
  <2>1. /\ ses[RX].next = "connected" /\ ~ses[RX].complete
        /\ ses'[RX].next = "closed" /\ ses'[RX].complete = ses[RX].complete
        /\ ses'[RX].winSize = WIN_SIZ
        /\ conns'[RX][currentConn].id = genConnId
        /\ peers'[RX] = peers[RX]
        /\ net'[RX] = net[RX]
        /\ \E c : /\ IsAck(c) /\ net'[TX] \subseteq net[TX] \cup {c}
                  /\ lost' = 0 => lost = 0 /\ c \in net'[TX]
    BY <1>0, <1>5, ConnectedRX
  <2>2. ~Past(RX) /\ Past(RX)'
    BY <2>1 DEF Past, Returned
  <2>3. ~Past(TX) /\ Greeting
    BY <1>0, <2>2 DEF InStep
  <2>4. ses[TX].next = "connected" /\ Quiet(TX) /\ Quiet(RX)
    BY <2>1, <2>3 DEF Greeting
  <2>5. Greeting'
    BY <1>1, <2>1, <2>4 DEF Greeting, Awaits, Quiet, IsAck
  <2>6. InStep'
    BY <1>0, <1>1, <1>2, <2>1, <2>3, <2>5 DEF InStep
  <2>7. Learnt'
    BY <1>0, <1>1, <1>2, <2>1, <2>3 DEF Learnt
  <2> QED BY <2>6, <2>7 DEF ShakeInv
<1>6. ASSUME Past(TX), Past(RX), Past(RX)', ses'[RX].next \notin {"open", "setup"},
             peers'[RX] = peers[RX], conns'[RX] = conns[RX]
      PROVE  ShakeInv'
  <2>1. InStep'
    BY <1>2, <1>6 DEF InStep
  <2>2. ses[RX].next \notin {"open", "setup"}
    BY <1>6 DEF Past, Returned
  <2>3. Learnt'
    BY <1>0, <1>1, <1>2, <1>6, <2>2 DEF Learnt
  <2> QED BY <2>1, <2>3 DEF ShakeInv
<1>7. CASE closedStateRX
  <2>1. /\ ses[RX].next = "closed" /\ net[RX] # {}
        /\ ses'[RX].next = "closed"
        /\ conns'[RX] = conns[RX] /\ peers'[RX] = peers[RX]
    BY <1>0, <1>7, ClosedRX
  <2>2. Past(RX) /\ Past(RX)' /\ ses'[RX].next \notin {"open", "setup"}
    BY <2>1 DEF Past
  <2>3. Past(TX)
    BY <1>0, <2>1 DEF InStep, Greeting, Quiet
  <2> QED BY <1>6, <2>1, <2>2, <2>3
<1>8. CASE doneStateRX
  <2>1. /\ ses[RX].next = "done" /\ ses'[RX].complete
        /\ ses'[RX].next = IF rxFactory[RX].fin THEN "connected" ELSE "closed"
        /\ conns'[RX] = conns[RX] /\ peers'[RX] = peers[RX]
    BY <1>0, <1>8, DoneRX
  <2>2. Past(RX) /\ Past(RX)' /\ ses'[RX].next \notin {"open", "setup"}
    BY <2>1 DEF Past, Returned
  <2>3. Past(TX)
    BY <1>0, <2>1 DEF InStep, Greeting
  <2> QED BY <1>6, <2>1, <2>2, <2>3
<1>9. CASE closedStateExit(RX) \/ divideByZero(RX) \/ ioError(RX)
  <2>1. /\ \/ /\ ses[RX].next = "closed" /\ ses'[RX].next = "done"
              /\ ses[RX].winSize = 0
           \/ ses'[RX].next = ses[RX].next
        /\ ses'[RX].complete = ses[RX].complete
        /\ ses'[RX].winSize = ses[RX].winSize
    BY <1>0, <1>9, Stops
  <2>2. UNCHANGED <<net, lost, peers, conns>>
    BY <1>9 DEF closedStateExit, divideByZero, ioError, gatewayVars
  <2>3. CASE Past(TX)
    <3>1. Past(RX)
      BY <1>0, <2>3 DEF InStep
    <3>2. Past(RX)' /\ ses'[RX].next \notin {"open", "setup"}
      BY <2>1, <3>1 DEF Past, Returned
    <3> QED BY <1>6, <2>2, <2>3, <3>1, <3>2
  <2>4. CASE ~Past(TX)
    <3>1. Greeting /\ ~ses[RX].complete
      BY <1>0, <2>4 DEF InStep
    <3>2. ses'[RX].next = ses[RX].next
      BY <1>0, <2>1, <3>1 DEF Greeting
    <3>3. Greeting'
      BY <1>1, <2>1, <2>2, <3>1, <3>2 DEF Greeting, Quiet, Awaits, IsHi, IsAck
    <3>4. InStep'
      BY <1>0, <1>1, <1>2, <2>1, <2>4, <3>3 DEF InStep
    <3>5. Past(RX)' = Past(RX)
      BY <2>1, <3>2 DEF Past, Returned
    <3>6. Learnt'
      BY <1>0, <1>1, <1>2, <2>2, <2>4, <3>2, <3>5 DEF Learnt
    <3> QED BY <3>4, <3>6 DEF ShakeInv
  <2> QED BY <2>3, <2>4
<1> QED BY <1>3, <1>4, <1>5, <1>7, <1>8, <1>9 DEF Client

LEMMA ShakeNetwork ==
  ASSUME Undisturbed', TypeInv, ShakeInv, Network
  PROVE  ShakeInv'
<1>0. TypeOK /\ InStep /\ Learnt /\ TX \in Dir /\ RX \in Dir
  BY DEF TypeInv, ShakeInv, Dir
<1>1. /\ net'[TX] \subseteq net[TX] /\ net'[RX] \subseteq net[RX] /\ lost' # 0
      /\ UNCHANGED <<addressList, peers, ses, conns>>
  BY <1>0, OnlyLoss DEF sessionVars
<1>2. Past(TX)' = Past(TX) /\ Past(RX)' = Past(RX)
  BY <1>1 DEF Past, Returned
<1>3. Greeting => Greeting'
  BY <1>1 DEF Greeting, Quiet, Awaits, IsHi, IsAck
<1>4. InStep'
  BY <1>0, <1>1, <1>2, <1>3 DEF InStep
<1>5. Learnt'
  BY <1>0, <1>1, <1>2 DEF Learnt
<1> QED BY <1>4, <1>5 DEF ShakeInv

LEMMA ShakeInvariant == Spec => [](Undisturbed => ShakeInv)
<1>1. Init => ShakeInv
  <2> SUFFICES ASSUME Init PROVE ShakeInv
    OBVIOUS
  <2>1. \A d \in Dir : /\ ses[d].next = "open" /\ ~ses[d].complete
                       /\ peers[d] = NoPeers /\ net[d] = {}
    BY DEF Init
  <2>2. TX \in Dir /\ RX \in Dir
    BY DEF Dir
  <2> QED BY <2>1, <2>2 DEF ShakeInv, InStep, Learnt, Past, Returned, Greeting, Quiet
<1>2. TypeInv /\ Owned /\ KeyInv /\ (Undisturbed => ShakeInv) /\ [Next]_vars
      => (Undisturbed => ShakeInv)'
  <2> SUFFICES ASSUME TypeInv, Owned, KeyInv, Undisturbed => ShakeInv, [Next]_vars,
                      Undisturbed'
               PROVE  ShakeInv'
    OBVIOUS
  <2>0. ShakeInv
    BY UndisturbedBefore DEF TypeInv
  <2>1. CASE Server
    BY <2>0, <2>1, ShakeServer DEF KeyInv
  <2>2. CASE Client
    BY <2>0, <2>2, ShakeClient
  <2>3. CASE Network
    BY <2>0, <2>3, ShakeNetwork
  <2>4. CASE Terminated \/ UNCHANGED vars
    BY <2>0, <2>4 DEF Terminated, ShakeInv, InStep, Learnt, Past, Returned, Greeting, Quiet,
                Awaits, IsHi, IsAck, vars, gatewayVars, sessionVars
  <2> QED BY <2>1, <2>2, <2>3, <2>4 DEF Next
<1> QED BY TypeInvariant, OwnedInvariant, KeyInvariant, <1>1, <1>2, PTL DEF Spec

-----------------------------------------------------------------------------
(* An end has the loopback address once or not at all. *)
LoopbackOnce ==
  \A list \in InterfaceLists : \A i, j \in LoopbackAt(list) : i = j

(* Shifting the rest of the list down over a loopback address that occurs  *)
(* once (session.h:180-196) leaves the other addresses in front.           *)
LEMMA DecodeExact ==
  ASSUME NEW addrs \in Seq(Addr), \A i, j \in LoopbackAt(addrs) : i = j,
         NEW p, p = DecodePeers(addrs)
  PROVE  {p.list[i] : i \in 1..p.count} = {addrs[i] : i \in 1..Len(addrs)} \ {Lo}
<1> DEFINE n == Len(addrs)
<1>1. n \in Nat
  OBVIOUS
<1>2. CASE LoopbackAt(addrs) = {}
  <2>1. p.count = n
    BY <1>1, <1>2, FS_EmptySet DEF DecodePeers
  <2>2. \A i \in 1..n : p.list[i] = addrs[i] /\ addrs[i] # Lo
    BY <1>2 DEF DecodePeers, LoopbackAt
  <2> HIDE DEF n
  <2> QED BY <2>1, <2>2 DEF n
<1>3. CASE LoopbackAt(addrs) # {}
  <2>1. PICK k \in LoopbackAt(addrs) : LoopbackAt(addrs) = {k}
    BY <1>3
  <2>2. p.count = n - 1
    BY <1>1, <2>1, FS_Singleton DEF DecodePeers
  <2>3. k \in 1..n /\ addrs[k] = Lo /\ \A i \in 1..n : i # k => addrs[i] # Lo
    BY <2>1 DEF LoopbackAt
  <2>4. \A i \in 1..n : p.list[i] = IF i < k THEN addrs[i]
                                    ELSE IF i < n THEN addrs[i + 1] ELSE Garbage
    BY <2>1 DEF DecodePeers
  <2> HIDE DEF n
  <2>5. ASSUME NEW i \in 1..(n - 1)
        PROVE  \E j \in 1..n : p.list[i] = addrs[j] /\ addrs[j] # Lo
    <3>1. CASE i < k
      <4>1. i \in 1..n /\ i # k
        BY <1>1, <2>3, <3>1
      <4> QED BY <2>3, <2>4, <3>1, <4>1
    <3>2. CASE ~(i < k)
      <4>1. i \in 1..n /\ i + 1 \in 1..n /\ i + 1 # k /\ i < n
        BY <1>1, <2>3, <3>2
      <4> QED BY <2>3, <2>4, <3>2, <4>1
    <3> QED BY <3>1, <3>2
  <2>6. ASSUME NEW j \in 1..n, addrs[j] # Lo
        PROVE  \E i \in 1..(n - 1) : p.list[i] = addrs[j]
    <3>1. j # k
      BY <2>3, <2>6
    <3>2. CASE j < k
      <4>1. j \in 1..(n - 1)
        BY <1>1, <2>3, <3>2
      <4> QED BY <2>4, <3>2, <4>1
    <3>3. CASE j > k
      <4>1. /\ j - 1 \in 1..(n - 1) /\ j - 1 \in 1..n /\ ~(j - 1 < k)
            /\ j - 1 < n /\ (j - 1) + 1 = j
        BY <1>1, <2>3, <3>3
      <4> QED BY <2>4, <4>1
    <3> QED BY <2>3, <3>1, <3>2, <3>3
  <2>7. {p.list[i] : i \in 1..(n - 1)} = {addrs[i] : i \in 1..n} \ {Lo}
    BY <2>5, <2>6
  <2> QED BY <2>2, <2>7 DEF n
<1> QED BY <1>2, <1>3

(* The addresses an end rotates over (gateway.h:220) are exactly those of  *)
(* its peer without the loopback address, for interface lists of every     *)
(* length and order: none is lost, and the heap entry one past the list    *)
(* (session.h:190) is never among them, unless a datagram was repeated or  *)
(* a second client has spoken.                                             *)
THEOREM PeerListCorrect ==
  ASSUME LoopbackOnce
  PROVE  Spec => [](Undisturbed => PeerListExact)
<1>1. TypeInv /\ ShakeInv => PeerListExact
  <2> SUFFICES ASSUME TypeInv, ShakeInv, NEW d \in Dir, peers[d].known,
                      NEW p, p = peers[d], NEW a, a = addressList[Peer(d)]
               PROVE  {p.list[i] : i \in 1..p.count} = {a[i] : i \in 1..Len(a)} \ {Lo}
    BY DEF PeerListExact
  <2>1. a \in InterfaceLists
    BY DEF TypeInv, TypeOK, Peer, Dir
  <2>2. a \in Seq(Addr) /\ \A i, j \in LoopbackAt(a) : i = j
    BY <2>1, AddressAssumption DEF LoopbackOnce
  <2>3. p = DecodePeers(a)
    BY DEF ShakeInv, Learnt, NoPeers, Dir, Peer, TX, RX
  <2>4. {DecodePeers(a).list[i] : i \in 1..DecodePeers(a).count}
          = {a[i] : i \in 1..Len(a)} \ {Lo}
    BY <2>2, DecodeExact
  <2> QED BY <2>3, <2>4
<1> QED BY TypeInvariant, ShakeInvariant, <1>1, PTL
=============================================================================
