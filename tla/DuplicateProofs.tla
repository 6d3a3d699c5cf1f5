-------------------------- MODULE DuplicateProofs --------------------------
(***************************************************************************)
(* What is left of the transfer on any network: one that loses, repeats    *)
(* and reorders datagrams, with a second client that talks to the server.  *)
(* The server may then run ahead of its client and a window be written     *)
(* twice or with too few payloads, so the invariants of TransferProofs do  *)
(* not hold.  What remains is a balance: as long as nothing is lost, the   *)
(* ends owe each other no datagram that is not under way; in order, no     *)
(* payload is skipped; and a client that returns has the last byte.        *)
(***************************************************************************)
EXTENDS TransferProofs

(* A copy of payload n is on its way to the client. *)
Coming(n) == \E m \in net[RX] : m.capType = "PAYLD" /\ m.n = n

-----------------------------------------------------------------------------
(* Nobody waits for a datagram that nobody will send. *)

(* Until the server has answered the Hello, nothing is sent to the client. *)
HelloFirst ==
  ses[TX].next \in {"open", "setup"} => Quiet(RX) /\ ses[RX].next \in {"open", "setup"}

(* The capsule an end needs to get through the handshake is under way.  A  *)
(* server that has taken another one for the ACK is through with it too.   *)
GreetingComing ==
  /\ ses[TX].next = "open" /\ ses[RX].next # "open" => ~Quiet(TX)
  /\ ses[RX].next \in {"open", "setup"} /\ ses[TX].next \notin {"open", "setup"} => ~Quiet(RX)
  /\ ~Past(TX) /\ Past(RX) => \E m \in net[TX] : m.win = WIN_SIZ

(* Every slot the client still has to fill is matched by a datagram under  *)
(* way to it, by a slot of the server's window or by a datagram that gives *)
(* the server another window.                                              *)
SlotsCovered ==
  Past(TX) /\ Past(RX) /\ ~txFactory[TX].fin =>
    \/ ~Quiet(TX)
    \/ ses[RX].winSize <= Cardinality(net[RX]) + ses[TX].winSize

(* FIN reaches the client, and what the client answers the server. *)
FinComing ==
  /\ txFactory[TX].fin => rxFactory[RX].fin \/ Coming(Sent)
  /\ Returned(RX) => Returned(TX) \/ ~Quiet(TX)

(* Where the ends are in their windows. *)
WindowPlaces ==
  /\ txFactory[TX].fin \/ ses[TX].next = "done" => ses[TX].winSize = 0
  /\ Returned(TX) => txFactory[TX].fin
  /\ rxFactory[RX].fin => ses[RX].winSize = 0 /\ txFactory[TX].fin
  /\ Returned(RX) => rxFactory[RX].fin
  /\ ses[RX].winSize <= WIN_SIZ
  /\ ~Past(TX) => ~ses[TX].complete /\ ~txFactory[TX].fin
  /\ ~Past(RX) => ~ses[RX].complete /\ ~rxFactory[RX].fin

BalanceInv ==
  /\ IsFiniteSet(net[RX])
  /\ HelloFirst /\ WindowPlaces
  /\ lost = 0 => GreetingComing /\ SlotsCovered /\ FinComing

-----------------------------------------------------------------------------
(* No payload is skipped when the network keeps the order. *)

(* The client's file ends with payload s, and s = 0 is an empty file. *)
EndsWith(s) ==
  IF sink = <<>> THEN s = 0
  ELSE LET c == sink[Len(sink)]
       IN  /\ s > 0 /\ c.off = (s - 1) * PayloadSize
           /\ c.len = PayloadSize \/ (txFactory[TX].fin /\ s = Sent)

(* The client has had the payloads up to t, its window holds the ones from *)
(* lo + 1 on and its file ends with s; what is to come begins with t or    *)
(* t + 1 and leaves nothing out.                                           *)
ReceivedUpTo(lo, s, t) ==
  /\ lo <= s /\ s <= t
  /\ Covers(rxcurrentWindow[RX], lo, t - lo)
  /\ EndsWith(s)
  /\ \A m \in net[RX] : m.capType = "PAYLD" => t <= m.n
  /\ \A n \in (t + 1)..Sent : Coming(n)
  /\ t = 0 \/ t <= Sent

GaplessInv ==
  /\ \A m \in net[RX] : m.from = "peer"
  /\ lost = 0 =>
       /\ NoHole
       /\ \E lo, s, t \in 0..ses[TX].capsuleId : ReceivedUpTo(lo, s, t)

-----------------------------------------------------------------------------
(* What the balance is stated in terms of, and what a step that touches    *)
(* none of it keeps.                                                       *)
LEMMA BalanceTypes ==
  ASSUME TypeInv, BalanceInv
  PROVE  /\ Cardinality(net[RX]) \in Nat /\ lost \in Nat
         /\ \A d \in Dir : ses[d].winSize \in Nat /\ ses[d].next \in StateCodes
         /\ ses[TX].capsuleId \in Nat
         /\ \A d \in Dir : txFactory[d].fin \in BOOLEAN /\ rxFactory[d].fin \in BOOLEAN
         /\ \A d \in Dir : ses[d].complete \in BOOLEAN
<1>1. Cardinality(net[RX]) \in Nat
  BY FS_CardinalityType DEF BalanceInv
<1>2. TypeOK /\ TX \in Dir /\ RX \in Dir
  BY DEF TypeInv, Dir
<1> QED BY <1>1, <1>2 DEF TypeOK, SessionState, TxFactory, RxFactory

(* Taking a datagram leaves one fewer under way, sending a new one one     *)
(* more.                                                                   *)
LEMMA OneFewer ==
  ASSUME NEW S, IsFiniteSet(S), NEW m \in S
  PROVE  IsFiniteSet(S \ {m}) /\ Cardinality(S \ {m}) = Cardinality(S) - 1
BY FS_RemoveElement

LEMMA OneMore ==
  ASSUME NEW S, IsFiniteSet(S), NEW T, NEW c, T \subseteq S \cup {c}
  PROVE  /\ IsFiniteSet(T)
         /\ S \subseteq T /\ c \in T /\ c \notin S => Cardinality(T) = Cardinality(S) + 1
<1>1. IsFiniteSet(S \cup {c})
  BY FS_AddElement
<1>2. IsFiniteSet(T)
  BY <1>1, FS_Subset
<1>3. ASSUME S \subseteq T, c \in T, c \notin S
      PROVE  Cardinality(T) = Cardinality(S) + 1
  <2>1. T = S \cup {c}
    BY <1>3
  <2> QED BY <1>3, <2>1, FS_AddElement
<1> QED BY <1>2, <1>3

(* An end that goes from closed to done, or dies, changes nothing the      *)
(* balance speaks of.                                                      *)
LEMMA StopsKeepBalance ==
  ASSUME BalanceInv, UNCHANGED <<net, lost, txFactory, rxFactory>>,
         \A d \in Dir :
           /\ \/ ses[d].next = "closed" /\ ses'[d].next = "done" /\ ses[d].winSize = 0
              \/ ses'[d].next = ses[d].next
           /\ ses'[d].complete = ses[d].complete
           /\ ses'[d].winSize = ses[d].winSize,
         ses'[TX].capsuleId = ses[TX].capsuleId
  PROVE  BalanceInv'
<1>0. TX \in Dir /\ RX \in Dir
  BY DEF Dir
<1>1. \A d \in Dir : Past(d)' = Past(d) /\ Returned(d)' = Returned(d)
  BY DEF Past, Returned
<1>2. \A d \in Dir, code \in {"open", "setup"} : ses'[d].next = code <=> ses[d].next = code
  OBVIOUS
<1>3. HelloFirst' /\ WindowPlaces'
  BY <1>0, <1>1, <1>2 DEF BalanceInv, HelloFirst, WindowPlaces, Quiet
<1>4. lost = 0 => GreetingComing' /\ SlotsCovered' /\ FinComing'
  BY <1>0, <1>1, <1>2
     DEF BalanceInv, GreetingComing, SlotsCovered, FinComing, Quiet, Coming, Sent
<1> QED BY <1>3, <1>4 DEF BalanceInv

(* The handlers of the server keep the balance. *)
LEMMA BalanceServer ==
  ASSUME TypeInv, Owned, KeyInv, BalanceInv, Server
  PROVE  BalanceInv'
<1>0. /\ TypeOK /\ ServerReady /\ SourceCount /\ AllStamped
      /\ TX \in Dir /\ RX \in Dir /\ TX # RX /\ Peer(TX) = RX
      /\ WIN_SIZ \in Nat /\ WIN_SIZ > 0
  BY WindowFits DEF TypeInv, Owned, KeyInv, Dir, TX, RX, Peer
<1>1. /\ IsFiniteSet(net[RX]) /\ HelloFirst /\ WindowPlaces
      /\ lost = 0 => GreetingComing /\ SlotsCovered /\ FinComing
  BY DEF BalanceInv
<1>2. /\ ses'[RX] = ses[RX] /\ rxFactory'[RX] = rxFactory[RX]
  BY <1>0, ServerFrame
<1>3. Returned(RX)' = Returned(RX) /\ Past(RX)' = Past(RX)
  BY <1>2 DEF Returned, Past
<1>4. /\ Cardinality(net[RX]) \in Nat /\ lost \in Nat
      /\ ses[TX].winSize \in Nat /\ ses[RX].winSize \in Nat
      /\ ses[TX].capsuleId \in Nat
      /\ ses[TX].next \in StateCodes /\ ses[RX].next \in StateCodes
  BY <1>0, BalanceTypes
<1>5. CASE openStateTX
  <2>1. /\ ses[TX].next = "open" /\ ses'[TX].next = "setup"
        /\ ses'[TX].complete = ses[TX].complete
        /\ txFactory'[TX] = txFactory[TX]
        /\ net'[RX] = net[RX] /\ lost' = lost
    BY <1>0, <1>5, OpenTX
  <2>2. ~Past(TX) /\ ~Past(TX)' /\ ~Returned(TX)'
    BY <2>1 DEF Past, Returned
  <2>3. ~ses'[TX].complete /\ ~txFactory'[TX].fin /\ ~rxFactory[RX].fin
    BY <1>1, <2>1, <2>2 DEF WindowPlaces
  <2>4. WindowPlaces'
    BY <1>1, <1>2, <1>3, <2>1, <2>2, <2>3 DEF WindowPlaces
  <2>5. HelloFirst'
    BY <1>1, <1>2, <2>1 DEF HelloFirst, Quiet
  <2>6. ~Past(RX)
    BY <1>1, <2>1 DEF HelloFirst, Past, Returned
  <2>7. GreetingComing' /\ SlotsCovered' /\ FinComing'
    BY <1>2, <1>3, <2>1, <2>2, <2>3, <2>6
       DEF GreetingComing, SlotsCovered, FinComing, Past
  <2> QED BY <1>1, <2>1, <2>4, <2>5, <2>7 DEF BalanceInv
<1>6. CASE setupStateTX
  <2>1. /\ ses[TX].next = "setup" /\ ses'[TX].next = "connected"
        /\ ses'[TX].complete = ses[TX].complete
        /\ txFactory'[TX].fin = txFactory[TX].fin
    BY <1>0, <1>6, SetupTX
  <2>2. PICK c : /\ net'[RX] \subseteq net[RX] \cup {c}
                 /\ lost' = 0 => lost = 0 /\ c \in net'[RX]
    BY <1>0, <1>6, SetupTX
  <2>3. ~Past(TX) /\ ~ses[TX].complete /\ ~txFactory[TX].fin
    BY <1>1, <2>1 DEF Past, Returned, WindowPlaces
  <2>4. ~Past(TX)' /\ ~Returned(TX)'
    BY <2>1, <2>3 DEF Past, Returned
  <2>5. ses[RX].next \in {"open", "setup"} /\ ~Past(RX)
    BY <1>1, <2>1 DEF HelloFirst, Past, Returned
  <2>6. WindowPlaces' /\ HelloFirst'
    BY <1>1, <1>2, <1>3, <2>1, <2>3, <2>4 DEF WindowPlaces, HelloFirst
  <2>7. lost' = 0 => GreetingComing' /\ SlotsCovered' /\ FinComing'
    <3>1. ~Returned(RX) /\ ~txFactory'[TX].fin
      BY <2>1, <2>3, <2>5 DEF Past
    <3> QED BY <1>2, <1>3, <2>1, <2>2, <2>4, <2>5, <3>1
            DEF GreetingComing, SlotsCovered, FinComing, Quiet
  <2>8. IsFiniteSet(net'[RX])
    BY <1>1, <2>2, OneMore
  <2> QED BY <2>6, <2>7, <2>8 DEF BalanceInv
<1>7. CASE connectedStateTX
  <2>1. /\ ses[TX].next = "connected" /\ ~ses[TX].complete
        /\ ses'[TX].next = "closed" /\ ses'[TX].complete = ses[TX].complete
        /\ ses'[TX].capsuleId = ses[TX].capsuleId
        /\ txFactory'[TX] = txFactory[TX]
        /\ net'[RX] = net[RX] /\ lost' = lost
    BY <1>0, <1>7, ConnectedTX
  <2>2. PICK m \in net[TX] : net'[TX] = net[TX] \ {m} /\ ses'[TX].winSize = m.win
    BY <1>0, <1>7, ConnectedTX
  <2>3. ~Past(TX) /\ ~txFactory[TX].fin /\ Past(TX)' /\ ~Returned(TX)'
    BY <1>1, <2>1 DEF Past, Returned, WindowPlaces
  <2>4. WindowPlaces' /\ HelloFirst'
    BY <1>1, <1>2, <1>3, <2>1, <2>3 DEF WindowPlaces, HelloFirst
  <2>5. ASSUME lost = 0 PROVE GreetingComing'
    BY <1>1, <1>2, <1>3, <2>1, <2>3, <2>5 DEF GreetingComing, Quiet
  <2>6. ASSUME lost = 0 PROVE SlotsCovered'
    <3> SUFFICES ASSUME Past(RX)
                 PROVE  ~Quiet(TX)' \/ ses[RX].winSize <= Cardinality(net[RX]) + m.win
      BY <1>2, <1>3, <2>1, <2>2 DEF SlotsCovered
    <3>1. PICK x \in net[TX] : x.win = WIN_SIZ
      BY <1>1, <2>3, <2>6 DEF GreetingComing
    <3>2. CASE x = m
      <4>1. ses[RX].winSize <= WIN_SIZ
        BY <1>1 DEF WindowPlaces
      <4> QED BY <1>0, <1>4, <3>1, <3>2, <4>1
    <3>3. CASE x # m
      BY <2>2, <3>1, <3>3 DEF Quiet
    <3> QED BY <3>2, <3>3
  <2>7. FinComing'
    <3>1. ~Returned(RX)
      BY <1>1, <2>3 DEF WindowPlaces
    <3> QED BY <1>3, <2>1, <2>3, <3>1 DEF FinComing
  <2> QED BY <1>1, <2>1, <2>4, <2>5, <2>6, <2>7 DEF BalanceInv
<1>8. CASE closedStateTX
  <2>1. /\ ses[TX].next = "closed" /\ ses'[TX].next = "closed" /\ ses[TX].winSize > 0
        /\ ses'[TX].winSize = IF txFactory'[TX].fin THEN 0 ELSE ses[TX].winSize - 1
        /\ ses'[TX].capsuleId = ses[TX].capsuleId + 1
        /\ ~txFactory[TX].fin /\ net'[TX] = net[TX]
    BY <1>0, <1>8, ClosedTX
  <2>2. PICK c : /\ c.capType = "PAYLD" /\ c.n = ses[TX].capsuleId
                 /\ net'[RX] \subseteq net[RX] \cup {c}
                 /\ lost' = 0 => /\ lost = 0 /\ net[RX] \subseteq net'[RX]
                                 /\ c \in net'[RX]
    BY <1>0, <1>8, ClosedTX
  <2>3. c \notin net[RX]
    <3>1. ASSUME c \in net[RX] PROVE c.n < ses[TX].capsuleId
      BY <1>0, <3>1 DEF AllStamped, Stamped
    <3> QED BY <1>4, <2>2, <3>1
  <2>4. Past(TX) /\ Past(TX)' /\ ~Returned(TX) /\ ~Returned(TX)'
    BY <2>1 DEF Past, Returned
  <2>5. ~rxFactory[RX].fin /\ ~Returned(RX)
    BY <1>1, <2>1 DEF WindowPlaces
  <2>6. WindowPlaces' /\ HelloFirst'
    BY <1>1, <1>2, <1>3, <2>1, <2>4, <2>5 DEF WindowPlaces, HelloFirst
  <2>7. ASSUME lost' = 0 PROVE GreetingComing'
    BY <1>1, <1>2, <2>1, <2>2, <2>4, <2>7 DEF GreetingComing, Quiet
  <2>8. ASSUME lost' = 0 PROVE SlotsCovered'
    <3> SUFFICES ASSUME Past(RX), ~txFactory'[TX].fin, Quiet(TX)
                 PROVE  ses[RX].winSize <= Cardinality(net'[RX]) + ses'[TX].winSize
      BY <1>2, <1>3, <2>1 DEF SlotsCovered, Quiet
    <3>1. ses[RX].winSize <= Cardinality(net[RX]) + ses[TX].winSize
      BY <1>1, <2>1, <2>2, <2>4, <2>8 DEF SlotsCovered
    <3>2. Cardinality(net'[RX]) = Cardinality(net[RX]) + 1
      BY <1>1, <2>2, <2>3, <2>8, OneMore
    <3> QED BY <1>4, <2>1, <3>1, <3>2
  <2>9. ASSUME lost' = 0 PROVE FinComing'
    <3>1. Sent' = c.n
      BY <1>4, <2>1, <2>2 DEF Sent
    <3>2. Coming(Sent)'
      BY <2>2, <2>9, <3>1 DEF Coming
    <3> QED BY <1>3, <2>5, <3>2 DEF FinComing
  <2>10. IsFiniteSet(net'[RX])
    BY <1>1, <2>2, OneMore
  <2> QED BY <2>6, <2>7, <2>8, <2>9, <2>10 DEF BalanceInv
<1>9. CASE doneStateTX
  <2>1. /\ ses[TX].next = "done" /\ ses'[TX].complete
        /\ ses'[TX].next = IF txFactory[TX].fin THEN "connected" ELSE "closed"
        /\ ses'[TX].winSize = IF txFactory[TX].fin THEN ses[TX].winSize ELSE WIN_SIZ
        /\ ses'[TX].capsuleId = ses[TX].capsuleId
        /\ txFactory'[TX] = txFactory[TX]
        /\ net'[RX] = net[RX] /\ lost' = lost
    BY <1>0, <1>9, DoneTX
  <2>2. /\ Past(TX) /\ Past(TX)' /\ Returned(TX)' = txFactory[TX].fin
    <3>1. txFactory[TX].fin \in BOOLEAN
      BY <1>0, BalanceTypes
    <3> QED BY <2>1, <3>1 DEF Past, Returned
  <2>3. WindowPlaces' /\ HelloFirst'
    BY <1>1, <1>2, <1>3, <2>1, <2>2 DEF WindowPlaces, HelloFirst
  <2>4. ASSUME lost = 0 PROVE GreetingComing'
    BY <1>1, <1>2, <2>1, <2>2, <2>4 DEF GreetingComing, Quiet
  <2>5. SlotsCovered'
    <3>1. ses[RX].winSize <= WIN_SIZ
      BY <1>1 DEF WindowPlaces
    <3>2. ~txFactory[TX].fin => ses'[RX].winSize <= Cardinality(net'[RX]) + ses'[TX].winSize
      BY <1>0, <1>2, <1>4, <2>1, <3>1
    <3> QED BY <2>1, <3>2 DEF SlotsCovered
  <2>6. ASSUME lost = 0 PROVE FinComing'
    <3>1. Sent' = Sent /\ \A n : Coming(n)' = Coming(n)
      BY <2>1 DEF Sent, Coming
    <3>2. Returned(RX) => txFactory[TX].fin
      BY <1>1 DEF WindowPlaces
    <3> QED BY <1>1, <1>2, <1>3, <2>1, <2>2, <2>6, <3>1, <3>2 DEF FinComing
  <2> QED BY <1>1, <2>1, <2>3, <2>4, <2>5, <2>6 DEF BalanceInv
<1>10. CASE bufferIsNull \/ closedStateExit(TX) \/ divideByZero(TX) \/ ioError(TX)
  <2>1. /\ \/ ses[TX].next = "closed" /\ ses'[TX].next = "done" /\ ses[TX].winSize = 0
           \/ ses'[TX].next = ses[TX].next
        /\ ses'[TX].complete = ses[TX].complete
        /\ ses'[TX].winSize = ses[TX].winSize
        /\ ses'[TX].capsuleId = ses[TX].capsuleId
    BY <1>0, <1>10, Stops
  <2>2. UNCHANGED <<net, lost, txFactory, rxFactory>>
    BY <1>10 DEF bufferIsNull, closedStateExit, divideByZero, ioError, gatewayVars
  <2>3. \A d \in Dir : d = TX \/ d = RX
    BY DEF Dir
  <2> QED BY <1>2, <2>1, <2>2, <2>3, StopsKeepBalance
<1> QED BY <1>5, <1>6, <1>7, <1>8, <1>9, <1>10 DEF Server

(* The payload with FIN is the highest of any window it is put in.  A      *)
(* client that takes it knows it is the last one.                          *)
LEMMA FinIsHighest ==
  ASSUME TypeInv, KeyInv, NEW m \in net[RX], m.capType = "PAYLD", m.n = Sent,
         txFactory[TX].fin, NEW W, W = Windowed(RX, m)
  PROVE  W # {} /\ Highest(W).cap.fin
<1> DEFINE V == rxcurrentWindow[RX]
           b == NewBuff(RX, m)
<1>0. /\ TypeOK /\ RX \in Dir /\ V \in SUBSET MemBuff /\ Keyed(V)
      /\ hdrid[RX] \in Nat /\ m \in Capsule
  BY DEF TypeInv, TypeOK, Dir, WindowsKeyed
<1>1. b \in MemBuff /\ b.cap = m
  BY <1>0 DEF NewBuff, MemBuff
<1>2. W = WindowPut(V, b)
  BY DEF Windowed
<1> HIDE DEF b
<1>3. /\ \A x \in V : x.cap.capid = x.cap.n /\ x.cap.n \in Nat /\ x.cap.n <= Sent
      /\ m.capid = m.n /\ m.n \in Nat /\ Sent \in Int
  BY Numbers
<1>4. W \in SUBSET MemBuff /\ b \in W /\ \A x \in W : x = b \/ (x \in V /\ x.cap.capid # m.capid)
  BY <1>0, <1>1, <1>2 DEF WindowPut
<1>5. Keyed(W)
  BY <1>0, <1>2, WindowPutKeyed
<1>6. Highest(W) \in W /\ b.cap.capid <= Highest(W).cap.capid
  BY <1>4, <1>5, HighestIsLast
<1>7. PICK h \in W : h = Highest(W)
  BY <1>6
<1>8. h = b
  <2> SUFFICES ASSUME h # b PROVE FALSE
    OBVIOUS
  <2>1. h \in V /\ h.cap.capid # m.capid
    BY <1>4
  <2>2. h.cap.capid <= Sent /\ h.cap.capid \in Nat /\ h.cap.capid # Sent
    BY <1>3, <2>1
  <2>3. Sent <= h.cap.capid
    BY <1>1, <1>3, <1>6, <1>7
  <2> QED BY <1>3, <2>2, <2>3
<1>9. m.fin
  <2>1. m.n + 1 = ses[TX].capsuleId
    <3>1. ses[TX].capsuleId \in Nat
      BY Numbers DEF Dir
    <3> QED BY <3>1 DEF Sent
  <2> QED BY <2>1 DEF KeyInv, AllStamped, Stamped
<1> QED BY <1>1, <1>4, <1>7, <1>8, <1>9

(* The handlers of the client keep the balance. *)
LEMMA BalanceClient ==
  ASSUME TypeInv, Owned, KeyInv, TypeInv', KeyInv', BalanceInv, Client
  PROVE  BalanceInv'
<1>0. /\ TypeOK /\ ShakingClean /\ AllStamped
      /\ TX \in Dir /\ RX \in Dir /\ TX # RX /\ Peer(RX) = TX
      /\ WIN_SIZ \in Nat /\ WIN_SIZ > 0
  BY WindowFits DEF TypeInv, Owned, KeyInv, Dir, TX, RX, Peer
<1>1. /\ IsFiniteSet(net[RX]) /\ HelloFirst /\ WindowPlaces
      /\ lost = 0 => GreetingComing /\ SlotsCovered /\ FinComing
  BY DEF BalanceInv
<1>2. ses'[TX] = ses[TX] /\ txFactory'[TX] = txFactory[TX]
  BY <1>0, ClientFrame
<1>3. Returned(TX)' = Returned(TX) /\ Past(TX)' = Past(TX) /\ Sent' = Sent
  BY <1>2 DEF Returned, Past, Sent
<1>4. /\ Cardinality(net[RX]) \in Nat /\ lost \in Nat
      /\ ses[TX].winSize \in Nat /\ ses[RX].winSize \in Nat
      /\ ses[TX].capsuleId \in Nat
      /\ ses[TX].next \in StateCodes /\ ses[RX].next \in StateCodes
  BY <1>0, BalanceTypes
<1>5. CASE openStateRX
  <2>1. /\ ses[RX].next = "open" /\ ses'[RX].next = "setup"
        /\ ses'[RX].complete = ses[RX].complete /\ ses'[RX].winSize = ses[RX].winSize
        /\ rxFactory' = rxFactory /\ net'[RX] = net[RX]
    BY <1>0, <1>5, OpenRX
  <2>2. PICK c : lost' = 0 => lost = 0 /\ c \in net'[TX]
    BY <1>0, <1>5, OpenRX
  <2>3. ~Past(RX) /\ ~Past(RX)' /\ ~Returned(RX) /\ ~Returned(RX)'
    BY <2>1 DEF Past, Returned
  <2>4. WindowPlaces' /\ HelloFirst'
    BY <1>1, <1>2, <1>3, <2>1, <2>3 DEF WindowPlaces, HelloFirst, Quiet
  <2>5. ASSUME lost' = 0 PROVE GreetingComing'
    <3>1. lost = 0 /\ net'[TX] # {}
      BY <2>2, <2>5
    <3> QED BY <1>1, <1>2, <1>3, <2>1, <2>3, <3>1 DEF GreetingComing, Quiet
  <2>6. ASSUME lost' = 0 PROVE SlotsCovered' /\ FinComing'
    <3>1. lost = 0 /\ \A n : Coming(n)' = Coming(n)
      BY <2>1, <2>2, <2>6 DEF Coming
    <3> QED BY <1>1, <1>2, <1>3, <2>1, <2>3, <3>1 DEF SlotsCovered, FinComing
  <2> QED BY <1>1, <2>1, <2>4, <2>5, <2>6 DEF BalanceInv
<1>6. CASE setupStateRX
  <2>1. /\ ses[RX].next = "setup" /\ ses'[RX].next = "connected"
        /\ ses'[RX].complete = ses[RX].complete /\ ses'[RX].winSize = ses[RX].winSize
        /\ rxFactory'[RX].fin = rxFactory[RX].fin
        /\ net'[TX] = net[TX] /\ lost' = lost
    BY <1>0, <1>6, SetupRX
  <2>2. PICK m \in net[RX] : net'[RX] = net[RX] \ {m}
    BY <1>0, <1>6, SetupRX
  <2>3. ~Past(RX) /\ ~ses[RX].complete /\ ~Returned(RX)
    BY <1>1, <2>1 DEF Past, Returned, WindowPlaces
  <2>4. ~Past(RX)' /\ ~Returned(RX)'
    BY <2>1, <2>3 DEF Past, Returned
  <2>5. ses[TX].next \notin {"open", "setup"}
    BY <1>1, <2>2 DEF HelloFirst, Quiet
  <2>6. WindowPlaces' /\ HelloFirst'
    BY <1>1, <1>2, <1>3, <2>1, <2>3, <2>4, <2>5 DEF WindowPlaces, HelloFirst
  <2>7. GreetingComing' /\ SlotsCovered'
    BY <1>2, <2>1, <2>4, <2>5 DEF GreetingComing, SlotsCovered
  <2>8. ASSUME lost = 0 PROVE FinComing'
    <3>1. \A n : ~Coming(n)
      BY <1>0, <2>1 DEF ShakingClean, Shaking, Coming
    <3> QED BY <1>1, <1>2, <2>1, <2>4, <2>8, <3>1 DEF FinComing
  <2> QED BY <1>1, <2>1, <2>2, <2>6, <2>7, <2>8, OneFewer DEF BalanceInv
<1>7. CASE connectedStateRX
  <2>1. /\ ses[RX].next = "connected" /\ ~ses[RX].complete
        /\ ses'[RX].next = "closed" /\ ses'[RX].complete = ses[RX].complete
        /\ ses'[RX].winSize = WIN_SIZ
        /\ rxFactory' = rxFactory /\ net'[RX] = net[RX]
    BY <1>0, <1>7, ConnectedRX
  <2>2. PICK c : IsAck(c) /\ (lost' = 0 => lost = 0 /\ c \in net'[TX])
    BY <1>0, <1>7, ConnectedRX
  <2>3. ~Past(RX) /\ Past(RX)' /\ ~Returned(RX)'
    BY <2>1 DEF Past, Returned
  <2>4. ses[TX].next \notin {"open", "setup"}
    BY <1>1, <2>1 DEF HelloFirst
  <2>5. WindowPlaces' /\ HelloFirst'
    BY <1>0, <1>1, <1>2, <1>3, <2>1, <2>3, <2>4 DEF WindowPlaces, HelloFirst
  <2>6. ASSUME lost' = 0 PROVE GreetingComing' /\ SlotsCovered'
    <3>1. c \in net'[TX] /\ c.win = WIN_SIZ
      BY <2>2, <2>6 DEF IsAck
    <3> QED BY <1>2, <2>1, <2>4, <3>1 DEF GreetingComing, SlotsCovered, Quiet
  <2>7. ASSUME lost' = 0 PROVE FinComing'
    <3>1. \A n : Coming(n)' = Coming(n)
      BY <2>1 DEF Coming
    <3> QED BY <1>1, <1>2, <1>3, <2>1, <2>2, <2>3, <2>7, <3>1 DEF FinComing
  <2> QED BY <1>1, <2>1, <2>5, <2>6, <2>7 DEF BalanceInv
<1>8. CASE closedStateRX
  <2>1. PICK m \in net[RX] :
        LET W == Windowed(RX, m)
            fin == rxFactory[RX].fin \/ (W # {} /\ Highest(W).cap.fin)
        IN  /\ ses[RX].next = "closed" /\ ses[RX].winSize > 0
            /\ ses'[RX].next = "closed" /\ ses'[RX].complete = ses[RX].complete
            /\ ses'[RX].winSize = IF W # {} /\ fin THEN 0 ELSE ses[RX].winSize - 1
            /\ rxcurrentWindow'[RX] = W /\ rxFactory'[RX].fin = fin
            /\ net'[RX] = net[RX] \ {m}
            /\ net'[TX] = net[TX] /\ lost' = lost
    BY <1>0, <1>8, ClosedRX
  <2>2. PICK W : W = Windowed(RX, m)
    OBVIOUS
  <2>3. ~rxFactory[RX].fin
    BY <1>1, <1>4, <2>1 DEF WindowPlaces
  <2>4. /\ ses[RX].next = "closed" /\ ses[RX].winSize > 0 /\ ses'[RX].next = "closed"
        /\ net'[RX] = net[RX] \ {m} /\ net'[TX] = net[TX] /\ lost' = lost
        /\ rxcurrentWindow'[RX] = W
    BY <2>1, <2>2
  <2>5. rxFactory'[RX].fin <=> W # {} /\ Highest(W).cap.fin
    BY <2>1, <2>2, <2>3
  <2>6. ses'[RX].winSize = IF rxFactory'[RX].fin THEN 0 ELSE ses[RX].winSize - 1
    BY <2>1, <2>2, <2>3, <2>5
  <2>7. rxFactory'[RX].fin => txFactory[TX].fin
    <3> SUFFICES ASSUME W # {}, Highest(W).cap.fin PROVE txFactory[TX].fin
      BY <2>5
    <3>1. W \in SUBSET MemBuff /\ Keyed(W)
      BY <1>0, <2>4 DEF TypeInv, TypeOK, WindowsKeyed
    <3>2. PICK h \in W : h = Highest(W)
      BY <3>1, HighestIsLast
    <3>3. h.cap.capType = "PAYLD" /\ Stamped(h.cap)'
      BY <2>4, <3>2 DEF KeyInv, AllStamped
    <3> QED BY <1>2, <3>2, <3>3 DEF Stamped
  <2>8. Past(RX) /\ Past(RX)' /\ ~Returned(RX) /\ ~Returned(RX)'
    BY <2>4 DEF Past, Returned
  <2>9. WindowPlaces' /\ HelloFirst'
    <3>1. ses'[RX].winSize <= WIN_SIZ
      BY <1>0, <1>1, <1>4, <2>4, <2>6 DEF WindowPlaces
    <3> QED BY <1>1, <1>2, <1>3, <2>4, <2>6, <2>7, <2>8, <3>1
            DEF WindowPlaces, HelloFirst, Quiet
  <2>10. IsFiniteSet(net'[RX]) /\ Cardinality(net'[RX]) = Cardinality(net[RX]) - 1
    BY <1>1, <2>4, OneFewer
  <2>11. ASSUME lost = 0 PROVE GreetingComing' /\ SlotsCovered'
    <3>1. GreetingComing'
      BY <1>1, <1>2, <1>3, <2>4, <2>8, <2>11 DEF GreetingComing, Quiet
    <3>2. SlotsCovered'
      <4> SUFFICES ASSUME Past(TX), ~txFactory[TX].fin, Quiet(TX)
                   PROVE  ses'[RX].winSize <= Cardinality(net'[RX]) + ses[TX].winSize
        BY <1>2, <1>3, <2>4 DEF SlotsCovered, Quiet
      <4>1. ses[RX].winSize <= Cardinality(net[RX]) + ses[TX].winSize
        BY <1>1, <2>8, <2>11 DEF SlotsCovered
      <4> QED BY <1>4, <2>6, <2>7, <2>10, <4>1
    <3> QED BY <3>1, <3>2
  <2>12. ASSUME lost = 0 PROVE FinComing'
    <3> SUFFICES ASSUME txFactory[TX].fin PROVE rxFactory'[RX].fin \/ Coming(Sent)'
      BY <1>2, <2>8 DEF FinComing
    <3>1. PICK x \in net[RX] : x.capType = "PAYLD" /\ x.n = Sent
      BY <1>1, <2>3, <2>12 DEF FinComing, Coming
    <3>2. CASE x = m
      BY <2>2, <2>5, <3>1, <3>2, FinIsHighest
    <3>3. CASE x # m
      BY <1>3, <2>4, <3>1, <3>3 DEF Coming
    <3> QED BY <3>2, <3>3
  <2> QED BY <2>4, <2>9, <2>10, <2>11, <2>12 DEF BalanceInv
<1>9. CASE doneStateRX
  <2>1. /\ ses[RX].next = "done" /\ ses'[RX].complete
        /\ ses'[RX].next = IF rxFactory[RX].fin THEN "connected" ELSE "closed"
        /\ ses'[RX].winSize = IF rxFactory[RX].fin THEN ses[RX].winSize ELSE WIN_SIZ
        /\ rxFactory'[RX].fin = rxFactory[RX].fin
        /\ net'[RX] = net[RX]
    BY <1>0, <1>9, DoneRX
  <2>2. PICK c : lost' = 0 => lost = 0 /\ c \in net'[TX] /\ net[TX] \subseteq net'[TX]
    BY <1>0, <1>9, DoneRX
  <2>3. Past(RX) /\ Past(RX)' /\ ~Returned(RX) /\ (Returned(RX)' => rxFactory[RX].fin)
    BY <2>1 DEF Past, Returned
  <2>4. ses[TX].next \notin {"open", "setup"}
    BY <1>1, <2>1 DEF HelloFirst
  <2>5. WindowPlaces' /\ HelloFirst'
    BY <1>0, <1>1, <1>2, <1>3, <2>1, <2>3, <2>4 DEF WindowPlaces, HelloFirst
  <2>6. ASSUME lost' = 0 PROVE GreetingComing' /\ SlotsCovered'
    <3>1. SlotsCovered' /\ ~Quiet(TX)'
      BY <2>2, <2>6 DEF SlotsCovered, Quiet
    <3>2. ~Past(TX) => \E x \in net'[TX] : x.win = WIN_SIZ
      BY <1>1, <2>2, <2>3, <2>6 DEF GreetingComing
    <3> QED BY <1>2, <1>3, <2>1, <2>4, <3>1, <3>2 DEF GreetingComing
  <2>7. ASSUME lost' = 0 PROVE FinComing'
    <3>1. \A n : Coming(n)' = Coming(n)
      BY <2>1 DEF Coming
    <3>2. ~Quiet(TX)'
      BY <2>2, <2>7 DEF Quiet
    <3> QED BY <1>1, <1>2, <1>3, <2>1, <2>2, <2>7, <3>1, <3>2 DEF FinComing
  <2> QED BY <1>1, <2>1, <2>5, <2>6, <2>7 DEF BalanceInv
<1>10. CASE closedStateExit(RX) \/ divideByZero(RX) \/ ioError(RX)
  <2>1. /\ \/ ses[RX].next = "closed" /\ ses'[RX].next = "done" /\ ses[RX].winSize = 0
           \/ ses'[RX].next = ses[RX].next
        /\ ses'[RX].complete = ses[RX].complete
        /\ ses'[RX].winSize = ses[RX].winSize
    BY <1>0, <1>10, Stops
  <2>2. UNCHANGED <<net, lost, txFactory, rxFactory>>
    BY <1>10 DEF closedStateExit, divideByZero, ioError, gatewayVars
  <2>3. \A d \in Dir : d = TX \/ d = RX
    BY DEF Dir
  <2> QED BY <1>2, <2>1, <2>2, <2>3, StopsKeepBalance
<1> QED BY <1>5, <1>6, <1>7, <1>8, <1>9, <1>10 DEF Client

(* A fault that loses nothing only adds to what is under way, and to       *)
(* nothing where nothing is, but for a second client's Hello.              *)
LEMMA OnlyMore ==
  ASSUME TypeInv, IsFiniteSet(net[RX]), Network
  PROVE  /\ UNCHANGED sessionVars
         /\ IsFiniteSet(net'[RX])
         /\ \A c \in net'[RX] : \E m \in net[RX] :
              c.capType = m.capType /\ c.n = m.n /\ c.from = m.from
         /\ lost' = 0 => lost = 0 /\ \A d \in Dir : net[d] \subseteq net'[d]
<1>0. TypeOK /\ TX \in Dir /\ RX \in Dir /\ TX # RX /\ lost \in Nat
  BY DEF TypeInv, TypeOK, Dir, TX, RX
<1>1. UNCHANGED sessionVars /\ (Lose \/ Duplicate \/ Stray(StrayHello(strays)))
  BY DEF Network
<1>2. CASE Lose
  <2>1. net'[RX] \subseteq net[RX] /\ lost' # 0
    BY <1>0, <1>2 DEF Lose, TypeOK
  <2> QED BY <1>1, <2>1, FS_Subset
<1>3. CASE Duplicate
  <2>0. PICK e \in Dir : \E m \in net[e] :
          net' = [net EXCEPT ![e] = @ \cup {[m EXCEPT !.copy = dups + 1]}]
    BY <1>3 DEF Duplicate
  <2>1. PICK m \in net[e] :
          net' = [net EXCEPT ![e] = @ \cup {[m EXCEPT !.copy = dups + 1]}]
    BY <2>0
  <2>2. PICK c : c = [m EXCEPT !.copy = dups + 1]
    OBVIOUS
  <2>3. \A d \in Dir : net'[d] = IF d = e THEN net[d] \cup {c} ELSE net[d]
    BY <1>0, <2>1, <2>2 DEF TypeOK
  <2>4. c.capType = m.capType /\ c.n = m.n /\ c.from = m.from
    <3>1. m \in Capsule
      BY <1>0 DEF TypeOK
    <3> QED BY <2>2, <3>1 DEF Capsule
  <2>5. IsFiniteSet(net'[RX])
    BY <1>0, <2>3, FS_AddElement
  <2>6. lost' = lost
    BY <1>3 DEF Duplicate
  <2> QED BY <1>0, <1>1, <2>3, <2>4, <2>5, <2>6
<1>4. CASE Stray(StrayHello(strays))
  <2>1. net' = [net EXCEPT ![TX] = @ \cup {StrayHello(strays)}] /\ lost' = lost
    BY <1>4 DEF Stray
  <2>2. net'[RX] = net[RX] /\ \A d \in Dir : net[d] \subseteq net'[d]
    BY <1>0, <2>1 DEF TypeOK
  <2> QED BY <1>1, <2>1, <2>2
<1> QED BY <1>1, <1>2, <1>3, <1>4

LEMMA BalanceNetwork ==
  ASSUME TypeInv, BalanceInv, Network
  PROVE  BalanceInv'
<1>0. TX \in Dir /\ RX \in Dir
  BY DEF Dir
<1>1. /\ IsFiniteSet(net[RX]) /\ HelloFirst /\ WindowPlaces
      /\ lost = 0 => GreetingComing /\ SlotsCovered /\ FinComing
  BY DEF BalanceInv
<1>2. /\ UNCHANGED sessionVars /\ IsFiniteSet(net'[RX])
      /\ \A c \in net'[RX] : \E m \in net[RX] : c.n = m.n
      /\ lost' = 0 => lost = 0 /\ \A d \in Dir : net[d] \subseteq net'[d]
  BY <1>1, OnlyMore
<1>3. UNCHANGED <<ses, txFactory, rxFactory>>
  BY <1>2 DEF sessionVars
<1>4. Past(TX)' = Past(TX) /\ Past(RX)' = Past(RX) /\ Sent' = Sent
  BY <1>3 DEF Past, Returned, Sent
<1>5. Returned(TX)' = Returned(TX) /\ Returned(RX)' = Returned(RX)
  BY <1>3 DEF Returned
<1>6. WindowPlaces'
  BY <1>1, <1>3, <1>4, <1>5 DEF WindowPlaces
<1>7. HelloFirst'
  BY <1>1, <1>2, <1>3 DEF HelloFirst, Quiet
<1>8. ASSUME lost' = 0 PROVE GreetingComing' /\ SlotsCovered' /\ FinComing'
  <2>1. lost = 0 /\ net[TX] \subseteq net'[TX] /\ net[RX] \subseteq net'[RX]
    BY <1>0, <1>2, <1>8
  <2>2. GreetingComing'
    BY <1>1, <1>3, <1>4, <2>1 DEF GreetingComing, Quiet
  <2>3. FinComing'
    BY <1>1, <1>3, <1>4, <1>5, <2>1 DEF FinComing, Coming, Quiet
  <2>4. SlotsCovered'
    <3>1. Cardinality(net[RX]) <= Cardinality(net'[RX])
      BY <1>2, <2>1, FS_Subset
    <3>2. Cardinality(net[RX]) \in Nat /\ Cardinality(net'[RX]) \in Nat
      BY <1>1, <1>2, FS_CardinalityType
    <3>3. ses[RX].winSize \in Nat /\ ses[TX].winSize \in Nat
      BY <1>0, BalanceTypes
    <3>4. ses[RX].winSize <= Cardinality(net[RX]) + ses[TX].winSize
            => ses[RX].winSize <= Cardinality(net'[RX]) + ses[TX].winSize
      BY <3>1, <3>2, <3>3
    <3> QED BY <1>1, <1>3, <1>4, <2>1, <3>4 DEF SlotsCovered, Quiet
  <2> QED BY <2>2, <2>3, <2>4
<1> QED BY <1>2, <1>6, <1>7, <1>8 DEF BalanceInv

LEMMA BalanceInvariant == Spec => []BalanceInv
<1>1. Init => BalanceInv
  <2> SUFFICES ASSUME Init PROVE BalanceInv
    OBVIOUS
  <2>1. /\ \A d \in Dir : /\ net[d] = {} /\ ses[d].next = "open" /\ ~ses[d].complete
                          /\ ses[d].winSize = 0
                          /\ ~txFactory[d].fin /\ ~rxFactory[d].fin
    BY DEF Init, NewTxFactory, NewRxFactory
  <2>2. TX \in Dir /\ RX \in Dir /\ WIN_SIZ \in Nat
    BY WindowFits DEF Dir
  <2>3. \A d \in Dir : ~Past(d) /\ ~Returned(d)
    BY <2>1 DEF Past, Returned
  <2>4. IsFiniteSet(net[RX])
    BY <2>1, <2>2, FS_EmptySet
  <2>5. HelloFirst /\ WindowPlaces
    BY <2>1, <2>2, <2>3 DEF HelloFirst, WindowPlaces, Quiet
  <2>6. GreetingComing /\ SlotsCovered /\ FinComing
    BY <2>1, <2>2, <2>3 DEF GreetingComing, SlotsCovered, FinComing
  <2> QED BY <2>4, <2>5, <2>6 DEF BalanceInv
<1>2. /\ TypeInv /\ Owned /\ KeyInv /\ BalanceInv /\ TypeInv' /\ KeyInv' /\ [Next]_vars
      => BalanceInv'
  <2> SUFFICES ASSUME TypeInv, Owned, KeyInv, BalanceInv, TypeInv', KeyInv', [Next]_vars
               PROVE  BalanceInv'
    OBVIOUS
  <2>1. CASE Server
    BY <2>1, BalanceServer
  <2>2. CASE Client
    BY <2>2, BalanceClient
  <2>3. CASE Network
    BY <2>3, BalanceNetwork
  <2>4. CASE Terminated \/ UNCHANGED vars
    <3>1. UNCHANGED vars
      BY <2>4 DEF Terminated
    <3>2. UNCHANGED <<net, lost, txFactory, rxFactory, ses>>
      BY <3>1 DEF vars, gatewayVars, sessionVars
    <3> QED BY <3>2, StopsKeepBalance
  <2> QED BY <2>1, <2>2, <2>3, <2>4 DEF Next
<1> QED BY TypeInvariant, OwnedInvariant, KeyInvariant, <1>1, <1>2, PTL DEF Spec

(* There is no timer and no retransmission, yet the ends never wait for    *)
(* each other (session.h:313, 376, 501, 521) unless a datagram was lost or *)
(* a process died: not when datagrams are repeated or overtake each other, *)
(* and not when the server takes a second client's Hello, or a repeated    *)
(* one, for the ACK or the OK it waits for.                                *)
THEOREM NeverStalls == Spec => []NoStallWithoutFault
<1>1. TypeInv /\ BalanceInv => NoStallWithoutFault
  <2> SUFFICES ASSUME TypeInv, BalanceInv, Stalled, ~(lost > 0),
                      \A d \in Dir : ses[d].proc = "alive"
               PROVE  FALSE
    BY DEF NoStallWithoutFault
  <2>0. TX \in Dir /\ RX \in Dir /\ TX # RX
    BY DEF Dir, TX, RX
  <2>1. /\ HelloFirst /\ WindowPlaces /\ GreetingComing /\ SlotsCovered /\ FinComing
        /\ ses[TX].winSize \in Nat /\ ses[RX].winSize \in Nat
    <3>1. lost = 0
      BY BalanceTypes
    <3> QED BY <2>0, <3>1, BalanceTypes DEF BalanceInv
  <2>2. /\ Returned(TX) \/ Blocked(TX)
        /\ Returned(RX) \/ Blocked(RX)
        /\ Blocked(TX) \/ Blocked(RX)
    BY <2>0 DEF Stalled, Stopped, Dir
  <2>3. /\ Blocked(TX) => /\ ses[TX].next \in {"open", "connected", "done"}
                          /\ ~Returned(TX) /\ Quiet(TX)
        /\ Blocked(RX) => /\ ses[RX].next \in {"setup", "closed"}
                          /\ ses[RX].next = "closed" => ses[RX].winSize > 0
                          /\ ~Returned(RX) /\ Quiet(RX)
    BY <2>0 DEF Blocked, ReceivesNext, At, Quiet, TX, RX
  <2>4. \A n : Quiet(RX) => ~Coming(n)
    BY DEF Quiet, Coming
  <2>5. ASSUME Returned(RX) PROVE FALSE
    <3>1. Blocked(TX) /\ Quiet(TX) /\ ~Returned(TX)
      BY <2>2, <2>3, <2>5 DEF Blocked, ReceivesNext, At
    <3> QED BY <2>1, <2>5, <3>1 DEF FinComing
  <2>6. CASE ses[RX].next = "setup"
    <3>1. Quiet(RX)
      BY <2>2, <2>3, <2>5
    <3>2. ses[TX].next = "open"
      BY <2>1, <2>2, <2>3, <2>6, <3>1 DEF GreetingComing, Returned
    <3> QED BY <2>1, <2>2, <2>3, <2>6, <3>2 DEF GreetingComing, Returned
  <2>7. CASE ses[RX].next = "closed"
    <3>1. Past(RX) /\ Quiet(RX) /\ ses[RX].winSize > 0
      BY <2>2, <2>3, <2>5, <2>7 DEF Past
    <3>2. ~txFactory[TX].fin
      BY <2>1, <2>4, <3>1 DEF FinComing, WindowPlaces
    <3>3. Blocked(TX) /\ Quiet(TX)
      BY <2>1, <2>2, <2>3, <3>2 DEF WindowPlaces
    <3>4. Past(TX)
      BY <2>1, <3>1, <3>3 DEF GreetingComing, Quiet
    <3>5. ses[TX].next = "done" /\ ses[TX].winSize = 0
      BY <2>1, <2>3, <3>3, <3>4 DEF Past, WindowPlaces
    <3>6. Cardinality(net[RX]) = 0
      BY <3>1, FS_EmptySet DEF Quiet
    <3> QED BY <2>1, <3>1, <3>2, <3>3, <3>4, <3>5, <3>6 DEF SlotsCovered
  <2> QED BY <2>2, <2>3, <2>5, <2>6, <2>7
<1> QED BY TypeInvariant, BalanceInvariant, <1>1, PTL

-----------------------------------------------------------------------------
(* Filing the payload that is due, or the one before it once more, leaves  *)
(* no gap in the window.                                                   *)
LEMMA PutCovers ==
  ASSUME NEW W, NEW lo \in Nat, NEW t \in Nat, lo <= t, Covers(W, lo, t - lo),
         NEW b \in MemBuff, b.cap.capid = b.cap.n,
         b.cap.n \in {t, t + 1}, b.cap.n > 0
  PROVE  \E k \in 0..lo : Covers(WindowPut(W, b), k, b.cap.n - k)
<1> DEFINE V == WindowPut(W, b)
           n == b.cap.n
<1>0. /\ W \in SUBSET MemBuff /\ Keyed(W)
      /\ \A x \in W : x.cap.capid = x.cap.n /\ x.cap.n \in (lo + 1)..t
      /\ \A i \in (lo + 1)..t : \E x \in W : x.cap.n = i
  <2>1. lo + (t - lo) = t
    OBVIOUS
  <2> QED BY <2>1 DEF Covers
<1>1. V \in SUBSET MemBuff /\ Keyed(V)
  BY <1>0, WindowPutKeyed DEF WindowPut
<1>2. \A x : x \in V <=> (x \in W /\ x.cap.n # n) \/ x = b
  BY <1>0 DEF WindowPut
<1>3. PICK k \in 0..lo : k < n /\ (k = lo \/ (lo = t /\ n = t /\ k = lo - 1))
  <2>1. CASE lo < n
    <3>1. lo \in 0..lo
      OBVIOUS
    <3> QED BY <2>1, <3>1
  <2>2. CASE lo >= n
    <3>1. lo = t /\ n = t /\ lo - 1 \in 0..lo /\ lo - 1 < n
      BY <2>2
    <3> QED BY <3>1
  <2> QED BY <2>1, <2>2
<1> HIDE DEF V
<1>4. \A x \in V : x.cap.capid = x.cap.n /\ x.cap.n \in (k + 1)..n
  <2>1. \A x \in W : x.cap.n \in (k + 1)..n
    BY <1>0, <1>3
  <2>2. n \in (k + 1)..n
    BY <1>3
  <2> QED BY <1>0, <1>2, <2>1, <2>2
<1>5. ASSUME NEW i \in (k + 1)..n PROVE \E x \in V : x.cap.n = i
  <2>1. CASE i = n
    BY <1>2, <2>1
  <2>2. CASE i # n
    <3>1. i \in (lo + 1)..t
      BY <1>3, <2>2
    <3>2. PICK x \in W : x.cap.n = i
      BY <1>0, <3>1
    <3> QED BY <1>2, <2>2, <3>2
  <2> QED BY <2>1, <2>2
<1>6. k + (n - k) = n
  BY <1>3
<1> QED BY <1>1, <1>3, <1>4, <1>5, <1>6 DEF Covers, V

(* What the gaps are stated in terms of. *)
LEMMA GapTypes ==
  ASSUME TypeInv, KeyInv
  PROVE  /\ Sent \in Int /\ lost \in Nat /\ ses[TX].capsuleId \in Nat
         /\ Sent = ses[TX].capsuleId - 1
         /\ sink \in Seq(Chunk) /\ Len(sink) \in Nat
         /\ PayloadSize \in Nat /\ PayloadSize > 0
         /\ txFactory[TX].fin \in BOOLEAN
         /\ \A m \in net[RX] : m \in Capsule /\ m.n \in Nat /\ m.capid = m.n /\ m.n <= Sent
         /\ \A m \in net[RX] : m.capType = "PAYLD" => m.n > 0
<1>1. TypeOK /\ TX \in Dir /\ RX \in Dir /\ AllStamped
  BY DEF TypeInv, KeyInv, Dir
<1>2. \A m \in net[RX] : m \in Capsule
  BY <1>1 DEF TypeOK
<1>3. sink \in Seq(Chunk)
  BY <1>1 DEF TypeOK
<1>4. \A m \in net[RX] : m.capType = "PAYLD" => m.n > 0
  BY <1>1 DEF AllStamped, Stamped
<1> QED BY <1>1, <1>2, <1>3, <1>4, Numbers, PayloadSizeType DEF Sent

(* A step that sends no payload, writes nothing and files nothing leaves   *)
(* no gap.                                                                 *)
LEMMA GaplessKept ==
  ASSUME GaplessInv,
         ses'[TX].capsuleId = ses[TX].capsuleId,
         txFactory'[TX].fin = txFactory[TX].fin,
         rxcurrentWindow'[RX] = rxcurrentWindow[RX], sink' = sink,
         \A c \in net'[RX] : \E m \in net[RX] :
           c.capType = m.capType /\ c.n = m.n /\ c.from = m.from,
         lost' = 0 => lost = 0 /\ \A m \in net[RX] : m.capType = "PAYLD" => m \in net'[RX]
  PROVE  GaplessInv'
<1>1. /\ \A m \in net[RX] : m.from = "peer"
      /\ lost = 0 => /\ NoHole
                     /\ \E lo, s, t \in 0..ses[TX].capsuleId : ReceivedUpTo(lo, s, t)
  BY DEF GaplessInv
<1>2. \A m \in net'[RX] : m.from = "peer"
  BY <1>1
<1>3. ASSUME lost' = 0
      PROVE  /\ NoHole'
             /\ \E lo, s, t \in 0..ses'[TX].capsuleId : ReceivedUpTo(lo, s, t)'
  <2>1. lost = 0 /\ \A m \in net[RX] : m.capType = "PAYLD" => m \in net'[RX]
    BY <1>3
  <2>2. NoHole'
    BY <1>1, <2>1 DEF NoHole
  <2>3. PICK lo, s, t \in 0..ses[TX].capsuleId : ReceivedUpTo(lo, s, t)
    BY <1>1, <2>1
  <2>4. Sent' = Sent
    BY DEF Sent
  <2>5. EndsWith(s)' = EndsWith(s)
    BY <2>4 DEF EndsWith
  <2>6. \A n : Coming(n) => Coming(n)'
    BY <2>1 DEF Coming
  <2>7. ReceivedUpTo(lo, s, t)'
    <3>1. /\ lo <= s /\ s <= t /\ Covers(rxcurrentWindow[RX], lo, t - lo)
          /\ EndsWith(s) /\ (t = 0 \/ t <= Sent)
          /\ \A m \in net[RX] : m.capType = "PAYLD" => t <= m.n
          /\ \A n \in (t + 1)..Sent : Coming(n)
      BY <2>3 DEF ReceivedUpTo
    <3>2. \A m \in net'[RX] : m.capType = "PAYLD" => t <= m.n
      BY <3>1
    <3>3. \A n \in (t + 1)..Sent' : Coming(n)'
      BY <2>4, <2>6, <3>1
    <3>4. EndsWith(s)' /\ (t = 0 \/ t <= Sent')
      BY <2>4, <2>5, <3>1
    <3> QED BY <3>1, <3>2, <3>3, <3>4 DEF ReceivedUpTo
  <2> QED BY <2>2, <2>7
<1> QED BY <1>2, <1>3 DEF GaplessInv

(* The handlers of the server leave no gap: a payload that is not lost is  *)
(* the next of those to come.                                              *)
LEMMA GaplessServer ==
  ASSUME TypeInv, Owned, KeyInv, GaplessInv, Server
  PROVE  GaplessInv'
<1>0. /\ TypeOK /\ ServerReady /\ SourceCount /\ AllStamped
      /\ TX \in Dir /\ RX \in Dir /\ TX # RX /\ Peer(TX) = RX
  BY DEF TypeInv, Owned, KeyInv, Dir, TX, RX, Peer
<1>1. /\ \A m \in net[RX] : m.from = "peer"
      /\ lost = 0 => /\ NoHole
                     /\ \E lo, s, t \in 0..ses[TX].capsuleId : ReceivedUpTo(lo, s, t)
  BY DEF GaplessInv
<1>2. /\ rxcurrentWindow'[RX] = rxcurrentWindow[RX] /\ sink' = sink
  BY <1>0, ServerFrame
<1>3. CASE openStateTX
  <2>1. /\ txFactory'[TX] = txFactory[TX] /\ net'[RX] = net[RX] /\ lost' = lost
    BY <1>0, <1>3, OpenTX
  <2>2. ses'[TX].capsuleId = ses[TX].capsuleId
    <3>1. ses' = [ses EXCEPT ![TX].next = "setup"] /\ ses[TX] \in SessionState
      BY <1>0, <1>3 DEF openStateTX, TypeOK
    <3>2. ses \in [Dir -> SessionState]
      BY <1>0 DEF TypeOK
    <3> QED BY <1>0, <3>1, <3>2 DEF SessionState
  <2> QED BY <1>2, <2>1, <2>2, GaplessKept
<1>4. CASE setupStateTX
  <2>1. /\ ses[TX].next = "setup" /\ ses'[TX].capsuleId = ses[TX].capsuleId + 1
    BY <1>0, <1>4, SetupTX
  <2>2. PICK c : /\ IsHi(c) /\ c.from = "peer" /\ net'[RX] \subseteq net[RX] \cup {c}
                 /\ lost' = 0 => lost = 0
    BY <1>0, <1>4, SetupTX
  <2>3. ses[TX].capsuleId = 0 /\ ses'[TX].capsuleId = 1
    BY <1>0, <2>1 DEF SourceCount
  <2>4. net[RX] = {}
    BY <2>3, GapTypes
  <2>5. c.capType = "CTRL"
    BY <2>2 DEF IsHi
  <2>6. ASSUME lost' = 0
        PROVE  /\ NoHole'
               /\ \E lo, s, t \in 0..ses'[TX].capsuleId : ReceivedUpTo(lo, s, t)'
    <3>1. PICK lo, s, t \in 0..0 : ReceivedUpTo(lo, s, t)
      BY <1>1, <2>2, <2>3, <2>6
    <3>2. lo = 0 /\ s = 0 /\ t = 0 /\ t - lo = 0
      OBVIOUS
    <3>3. Covers(rxcurrentWindow[RX], 0, 0) /\ sink = <<>>
      BY <3>1, <3>2 DEF ReceivedUpTo, EndsWith
    <3>4. Sent' = 0
      BY <2>3 DEF Sent
    <3>5. EndsWith(0)' /\ NoHole'
      BY <1>2, <3>3 DEF EndsWith, NoHole
    <3>6. ReceivedUpTo(0, 0, 0)'
      <4>1. (0 + 1)..0 = {} /\ 0 - 0 = 0
        OBVIOUS
      <4>2. \A m \in net'[RX] : m.capType # "PAYLD"
        BY <2>2, <2>4, <2>5
      <4> QED BY <1>2, <3>3, <3>4, <3>5, <4>1, <4>2 DEF ReceivedUpTo
    <3>7. 0 \in 0..ses'[TX].capsuleId
      BY <2>3
    <3> QED BY <3>5, <3>6, <3>7
  <2> QED BY <1>1, <2>2, <2>6 DEF GaplessInv
<1>5. CASE connectedStateTX
  BY <1>0, <1>2, <1>5, ConnectedTX, GaplessKept
<1>6. CASE closedStateTX
  <2>1. ses'[TX].capsuleId = ses[TX].capsuleId + 1 /\ ~txFactory[TX].fin
    BY <1>0, <1>6, ClosedTX
  <2>2. PICK c : /\ c.capType = "PAYLD" /\ c.n = ses[TX].capsuleId /\ c.from = "peer"
                 /\ net'[RX] \subseteq net[RX] \cup {c}
                 /\ lost' = 0 => /\ lost = 0 /\ net[RX] \subseteq net'[RX]
                                 /\ c \in net'[RX]
    BY <1>0, <1>6, ClosedTX
  <2>3. /\ Sent \in Int /\ ses[TX].capsuleId \in Nat /\ Sent = ses[TX].capsuleId - 1
        /\ Sent' = c.n
    <3>1. Sent' = ses'[TX].capsuleId - 1
      BY DEF Sent
    <3> QED BY <2>1, <2>2, <3>1, GapTypes
  <2>4. ASSUME lost' = 0
        PROVE  /\ NoHole'
               /\ \E lo, s, t \in 0..ses'[TX].capsuleId : ReceivedUpTo(lo, s, t)'
    <3>1. lost = 0 /\ net[RX] \subseteq net'[RX] /\ c \in net'[RX]
      BY <2>2, <2>4
    <3>2. PICK lo, s, t \in 0..ses[TX].capsuleId : ReceivedUpTo(lo, s, t)
      BY <1>1, <3>1
    <3>3. /\ lo <= s /\ s <= t /\ Covers(rxcurrentWindow[RX], lo, t - lo)
          /\ EndsWith(s) /\ (t = 0 \/ t <= Sent)
          /\ \A m \in net[RX] : m.capType = "PAYLD" => t <= m.n
          /\ \A n \in (t + 1)..Sent : Coming(n)
      BY <3>2 DEF ReceivedUpTo
    <3>4. EndsWith(s)'
      BY <1>2, <2>1, <3>3 DEF EndsWith
    <3>5. NoHole'
      BY <1>1, <1>2, <3>1 DEF NoHole
    <3>6. t \in Nat /\ t <= c.n
      BY <2>2, <2>3, <3>3
    <3>7. \A m \in net'[RX] : m.capType = "PAYLD" => t <= m.n
      BY <2>2, <3>3, <3>6
    <3>8. ASSUME NEW n \in (t + 1)..Sent' PROVE Coming(n)'
      <4>1. CASE n = c.n
        BY <2>2, <3>1, <4>1 DEF Coming
      <4>2. CASE n # c.n
        <5>1. n \in (t + 1)..Sent
          BY <2>2, <2>3, <3>6, <4>2
        <5> QED BY <3>1, <3>3, <5>1 DEF Coming
      <4> QED BY <4>1, <4>2
    <3>9. ReceivedUpTo(lo, s, t)'
      BY <1>2, <2>3, <3>3, <3>4, <3>6, <3>7, <3>8 DEF ReceivedUpTo
    <3>10. \A x \in 0..ses[TX].capsuleId : x \in 0..ses'[TX].capsuleId
      BY <2>1, <2>3
    <3> QED BY <3>2, <3>5, <3>9, <3>10
  <2> QED BY <1>1, <2>2, <2>4 DEF GaplessInv
<1>7. CASE doneStateTX
  BY <1>0, <1>2, <1>7, DoneTX, GaplessKept
<1>8. CASE bufferIsNull \/ closedStateExit(TX) \/ divideByZero(TX) \/ ioError(TX)
  <2>1. ses'[TX].capsuleId = ses[TX].capsuleId
    BY <1>0, <1>8, Stops
  <2>2. UNCHANGED <<net, lost, txFactory>>
    BY <1>8 DEF bufferIsNull, closedStateExit, divideByZero, ioError, gatewayVars
  <2> QED BY <1>2, <2>1, <2>2, GaplessKept
<1> QED BY <1>3, <1>4, <1>5, <1>6, <1>7, <1>8 DEF Server

(* The client takes the payload it is due, or the last one once more.      *)
LEMMA GaplessClosedRX ==
  ASSUME ~Reorder, TypeInv, KeyInv, GaplessInv, closedStateRX,
         ses'[TX] = ses[TX], txFactory'[TX] = txFactory[TX]
  PROVE  GaplessInv'
<1>0. TypeOK /\ RX \in Dir
  BY DEF TypeInv, Dir
<1>1. /\ \A m \in net[RX] : m.from = "peer"
      /\ lost = 0 => /\ NoHole
                     /\ \E lo, s, t \in 0..ses[TX].capsuleId : ReceivedUpTo(lo, s, t)
  BY DEF GaplessInv
<1>2. PICK m \in Deliverable(RX) :
        /\ rxcurrentWindow'[RX] = Windowed(RX, m) /\ sink' = sink
        /\ m \in net[RX] /\ net'[RX] = net[RX] \ {m} /\ lost' = lost
  BY <1>0, ClosedRX
<1>3. \A x \in net[RX] : m.n <= x.n
  BY <1>1, <1>2 DEF Deliverable
<1>4. CASE m.capType # "PAYLD"
  <2>1. rxcurrentWindow'[RX] = rxcurrentWindow[RX]
    BY <1>2, <1>4 DEF Windowed
  <2>2. \A x \in net[RX] : x.capType = "PAYLD" => x \in net'[RX]
    BY <1>2, <1>4
  <2> QED BY <1>2, <2>1, <2>2, GaplessKept
<1>5. CASE m.capType = "PAYLD"
  <2> DEFINE b == NewBuff(RX, m)
             n == m.n
  <2>1. b \in MemBuff /\ b.cap = m
    <3>1. hdrid[RX] \in Nat /\ m \in Capsule
      BY <1>0, <1>2 DEF TypeOK
    <3> QED BY <3>1 DEF NewBuff, MemBuff
  <2>2. rxcurrentWindow'[RX] = WindowPut(rxcurrentWindow[RX], b)
    BY <1>2, <1>5 DEF Windowed
  <2> HIDE DEF b
  <2>3. /\ n \in Nat /\ m.capid = n /\ n <= Sent /\ n > 0
        /\ Sent \in Int /\ ses[TX].capsuleId \in Nat /\ Sent = ses[TX].capsuleId - 1
        /\ Sent' = Sent
    BY <1>2, <1>5, GapTypes DEF Sent
  <2>4. ASSUME lost' = 0
        PROVE  /\ NoHole'
               /\ \E lo, s, t \in 0..ses'[TX].capsuleId : ReceivedUpTo(lo, s, t)'
    <3>1. PICK lo, s, t \in 0..ses[TX].capsuleId : ReceivedUpTo(lo, s, t)
      BY <1>1, <1>2, <2>4
    <3>2. /\ lo \in Nat /\ s \in Nat /\ t \in Nat
          /\ lo <= s /\ s <= t /\ Covers(rxcurrentWindow[RX], lo, t - lo)
          /\ EndsWith(s) /\ t <= n
          /\ \A i \in (t + 1)..Sent : Coming(i)
      BY <1>2, <1>5, <3>1 DEF ReceivedUpTo
    <3>3. n \in {t, t + 1}
      <4> SUFFICES ASSUME n > t PROVE n <= t + 1
        BY <2>3, <3>2
      <4>1. t + 1 \in (t + 1)..Sent
        BY <2>3, <3>2
      <4>2. PICK x \in net[RX] : x.n = t + 1
        BY <3>2, <4>1 DEF Coming
      <4> QED BY <1>3, <4>2
    <3>4. PICK k \in 0..lo : Covers(rxcurrentWindow'[RX], k, n - k)
      <4>1. /\ b.cap.capid = b.cap.n /\ b.cap.n = n
            /\ b.cap.n \in {t, t + 1} /\ b.cap.n > 0
        BY <2>1, <2>3, <3>3
      <4>2. PICK V : V = rxcurrentWindow[RX]
        OBVIOUS
      <4>3. lo \in Nat /\ t \in Nat /\ lo <= t /\ Covers(V, lo, t - lo)
        BY <3>2, <4>2
      <4>4. \E k \in 0..lo : Covers(WindowPut(V, b), k, b.cap.n - k)
        BY <2>1, <4>1, <4>3, PutCovers
      <4> QED BY <2>2, <4>1, <4>2, <4>4
    <3>5. EndsWith(s)' /\ NoHole'
      BY <1>1, <1>2, <2>3, <2>4, <3>2 DEF EndsWith, NoHole
    <3>6. k \in Nat /\ k <= s /\ s <= n /\ n \in 0..ses'[TX].capsuleId
          /\ k \in 0..ses'[TX].capsuleId /\ s \in 0..ses'[TX].capsuleId
      BY <2>3, <3>1, <3>2
    <3>7. ASSUME NEW i \in (n + 1)..Sent' PROVE Coming(i)'
      <4>1. i \in (t + 1)..Sent /\ i # n
        BY <2>3, <3>2
      <4>2. PICK x \in net[RX] : x.capType = "PAYLD" /\ x.n = i
        BY <3>2, <4>1 DEF Coming
      <4> QED BY <1>2, <4>1, <4>2 DEF Coming
    <3>8. \A x \in net'[RX] : n <= x.n
      BY <1>2, <1>3
    <3>9. ReceivedUpTo(k, s, n)'
      BY <2>3, <3>4, <3>5, <3>6, <3>7, <3>8 DEF ReceivedUpTo
    <3> QED BY <3>5, <3>6, <3>9
  <2> QED BY <1>1, <1>2, <2>4 DEF GaplessInv
<1> QED BY <1>4, <1>5

(* Payload n, its number and its bytes. *)
LEMMA BytesOf ==
  ASSUME TypeInv, KeyInv, NEW b \in rxcurrentWindow[RX]
  PROVE  /\ b.cap.data \in Chunk /\ b.cap.n \in Nat
         /\ b.cap.data.off = (b.cap.n - 1) * PayloadSize
         /\ b.cap.data.len = PayloadSize \/ (txFactory[TX].fin /\ b.cap.n = Sent)
<1>1. b \in MemBuff /\ AllStamped
  BY DEF TypeInv, TypeOK, Dir, KeyInv
<1>2. b.cap.data \in Chunk /\ b.cap.n \in Nat
  BY <1>1 DEF MemBuff, Capsule
<1>3. b.cap.fin <=> (txFactory[TX].fin /\ b.cap.n = Sent)
  BY Numbers
<1>4. /\ b.cap.data.off = (b.cap.n - 1) * PayloadSize
      /\ ~b.cap.fin => b.cap.data.len = PayloadSize
  BY <1>1 DEF AllStamped, Stamped
<1> QED BY <1>2, <1>3, <1>4

(* A window that begins with a payload at or before the end of the file is *)
(* written without leaving a hole, and the file then ends with the last    *)
(* payload of the window.                                                  *)
LEMMA GaplessDoneRX ==
  ASSUME TypeInv, KeyInv, GaplessInv, doneStateRX,
         ses'[TX] = ses[TX], txFactory'[TX] = txFactory[TX]
  PROVE  GaplessInv'
<1> DEFINE W == rxcurrentWindow[RX]
           P == PayloadSize
           L == Len(sink)
<1>0. TypeOK /\ RX \in Dir
  BY DEF TypeInv, Dir
<1>1. /\ \A m \in net[RX] : m.from = "peer"
      /\ lost = 0 => /\ NoHole
                     /\ \E lo, s, t \in 0..ses[TX].capsuleId : ReceivedUpTo(lo, s, t)
  BY DEF GaplessInv
<1>2. /\ rxcurrentWindow'[RX] = {} /\ sink' = WriteWindow(sink, W)
      /\ net'[RX] = net[RX] /\ (lost' = 0 => lost = 0)
  BY <1>0, DoneRX
<1>3. Sent' = Sent /\ \A n : Coming(n)' = Coming(n)
  BY <1>2 DEF Sent, Coming
<1>4. /\ sink \in Seq(Chunk) /\ L \in Nat /\ P \in Nat /\ P > 0 /\ Sent \in Int
      /\ ses[TX].capsuleId \in Nat
  BY GapTypes
<1>5. ASSUME lost' = 0
      PROVE  /\ NoHole'
             /\ \E lo, s, t \in 0..ses'[TX].capsuleId : ReceivedUpTo(lo, s, t)'
  <2>1. PICK lo, s, t \in 0..ses[TX].capsuleId : ReceivedUpTo(lo, s, t)
    BY <1>1, <1>2, <1>5
  <2>2. /\ lo \in Nat /\ s \in Nat /\ t \in Nat /\ t - lo \in Nat
        /\ lo <= s /\ s <= t /\ Covers(W, lo, t - lo)
        /\ EndsWith(s) /\ (t = 0 \/ t <= Sent)
        /\ \A m \in net[RX] : m.capType = "PAYLD" => t <= m.n
        /\ \A n \in (t + 1)..Sent : Coming(n)
    BY <2>1 DEF ReceivedUpTo
  <2>3. PICK k \in Nat : k = t - lo
    BY <2>2
  <2>4. AppendedFrom(lo, sink, W, k, sink')
    BY <1>2, <1>4, <2>2, <2>3, WrittenAfter
  <2>5. /\ Len(sink') = L + k
        /\ \A i \in 1..L : sink'[i] = sink[i]
    BY <2>4 DEF AppendedFrom
  <2>6. ASSUME NEW j \in 1..k
        PROVE  /\ sink'[L + j].off = (lo + j - 1) * P
               /\ sink'[L + j].len = P \/ (txFactory[TX].fin /\ lo + j = Sent)
    <3>1. PICK b \in W : b.cap.n = lo + j /\ sink'[L + j] = b.cap.data
      BY <2>4 DEF AppendedFrom
    <3> QED BY <3>1, BytesOf
  <2>7. L # 0 => /\ sink[L].off = (s - 1) * P /\ s > 0
                 /\ sink[L].len = P \/ (txFactory[TX].fin /\ s = Sent)
                 /\ sink[L].len \in Nat
    <3>1. L # 0 => L \in 1..L /\ sink # <<>>
      BY <1>4
    <3>2. L # 0 => sink[L].len \in Nat
      <4>1. \A i \in 1..Len(sink) : sink[i] \in Chunk
        BY <1>4
      <4> QED BY <3>1, <4>1 DEF Chunk
    <3> QED BY <2>2, <3>1, <3>2 DEF EndsWith
  <2>8. L = 0 => s = 0 /\ lo = 0
    <3>1. L = 0 => sink = <<>>
      BY <1>4
    <3> QED BY <2>2, <3>1 DEF EndsWith
  <2>9. ASSUME NEW i \in 1..Len(sink') PROVE sink'[i].off <= EndOf(sink', i - 1)
    <3>1. CASE i <= L
      <4>1. i \in 1..L /\ (i - 1 # 0 => i - 1 \in 1..L)
        BY <1>4, <3>1
      <4>2. sink[i].off <= EndOf(sink, i - 1)
        BY <1>1, <1>2, <1>5, <4>1 DEF NoHole
      <4>3. EndOf(sink', i - 1) = EndOf(sink, i - 1)
        BY <2>5, <4>1 DEF EndOf
      <4> QED BY <2>5, <4>1, <4>2, <4>3
    <3>2. CASE i > L
      <4>1. PICK j \in 1..k : i = L + j
        <5>1. i - L \in 1..k /\ i = L + (i - L)
          BY <1>4, <2>5, <3>2
        <5> QED BY <5>1
      <4>2. sink'[i].off = (lo + j - 1) * P
        BY <2>6, <4>1
      <4>3. CASE j > 1
        <5>1. PICK h \in 1..k : h = j - 1
          BY <4>3
        <5>2. i - 1 = L + h /\ i - 1 # 0 /\ lo + h # Sent
          BY <1>4, <2>2, <2>3, <4>1, <5>1
        <5>3. sink'[L + h].off = (lo + h - 1) * P /\ sink'[L + h].len = P
          BY <2>6, <5>2
        <5>4. EndOf(sink', i - 1) = (lo + h - 1) * P + P
          BY <5>2, <5>3 DEF EndOf
        <5>5. (lo + h - 1) * P + P = (lo + h) * P /\ lo + h = lo + j - 1
          BY <1>4, <5>1
        <5> HIDE DEF P
        <5> QED BY <1>4, <4>2, <5>4, <5>5
      <4>4. CASE j = 1
        <5>1. sink'[i].off = lo * P /\ i - 1 = L
          BY <1>4, <4>1, <4>2, <4>4
        <5>2. CASE L = 0
          BY <1>4, <2>8, <5>1, <5>2 DEF EndOf
        <5>3. CASE L # 0
          <6>1. L \in 1..L
            BY <1>4, <5>3
          <6>2. EndOf(sink', L) = (s - 1) * P + sink[L].len
            BY <2>5, <2>7, <5>3, <6>1 DEF EndOf
          <6>3. CASE lo = s
            <7>1. s # Sent
              BY <1>4, <2>2, <2>3, <4>1, <6>3
            <7>2. EndOf(sink', L) = (s - 1) * P + P
              BY <2>7, <5>3, <6>2, <7>1
            <7>3. (s - 1) * P + P = s * P
              BY <1>4
            <7> HIDE DEF P
            <7> QED BY <1>4, <2>2, <5>1, <6>3, <7>2, <7>3
          <6>4. CASE lo # s
            <7>1. lo <= s - 1
              BY <2>2, <6>4
            <7>2. lo * P <= (s - 1) * P /\ (s - 1) * P \in Int /\ lo * P \in Int
              BY <1>4, <2>2, <7>1
            <7> HIDE DEF P
            <7> QED BY <2>7, <5>1, <5>3, <6>2, <7>2
          <6> QED BY <6>3, <6>4
        <5> QED BY <5>2, <5>3
      <4> QED BY <4>3, <4>4
    <3> QED BY <1>4, <2>5, <3>1, <3>2
  <2>10. EndsWith(t)'
    <3>1. CASE k = 0
      <4>1. s = t
        BY <2>2, <2>3, <3>1
      <4>2. Len(sink') = L /\ (L # 0 => L \in 1..L)
        BY <1>4, <2>5, <3>1
      <4>3. sink' \in Seq(Chunk)
        BY <1>0, <1>2, <1>4, WriteWindowType DEF TypeInv, WindowsKeyed, TypeOK
      <4>4. sink' = <<>> <=> L = 0
        BY <4>2, <4>3
      <4> QED BY <1>3, <2>5, <2>7, <2>8, <4>1, <4>2, <4>4 DEF EndsWith
    <3>2. CASE k # 0
      <4>1. PICK j \in 1..k : j = k
        BY <3>2
      <4>2. lo + j = t /\ Len(sink') = L + j /\ t > 0 /\ Len(sink') # 0
        BY <1>4, <2>2, <2>3, <2>5, <4>1
      <4>3. sink' # <<>>
        BY <4>2
      <4>4. /\ sink'[Len(sink')].off = (t - 1) * P
            /\ sink'[Len(sink')].len = P \/ (txFactory[TX].fin /\ t = Sent)
        BY <2>6, <4>2
      <4> QED BY <1>3, <4>2, <4>3, <4>4 DEF EndsWith
    <3> QED BY <3>1, <3>2
  <2>11. Covers({}, t, t - t)
    <3>1. (t + 1)..(t + (t - t)) = {}
      BY <2>2
    <3>2. Keyed({})
      BY FS_EmptySet DEF Keyed
    <3> QED BY <3>1, <3>2 DEF Covers
  <2>12. ReceivedUpTo(t, t, t)'
    BY <1>2, <1>3, <2>2, <2>10, <2>11 DEF ReceivedUpTo
  <2> QED BY <2>1, <2>9, <2>12 DEF NoHole
<1> QED BY <1>1, <1>2, <1>5 DEF GaplessInv

(* The handlers of the client leave no gap. *)
LEMMA GaplessClient ==
  ASSUME ~Reorder, TypeInv, Owned, KeyInv, GaplessInv, Client
  PROVE  GaplessInv'
<1>0. /\ TypeOK /\ ShakingClean /\ TX \in Dir /\ RX \in Dir /\ TX # RX /\ Peer(RX) = TX
  BY DEF TypeInv, Owned, Dir, TX, RX, Peer
<1>1. ses'[TX] = ses[TX] /\ txFactory'[TX] = txFactory[TX]
  BY <1>0, ClientFrame
<1>2. CASE openStateRX
  <2>1. /\ rxcurrentWindow' = rxcurrentWindow /\ sink' = sink /\ net'[RX] = net[RX]
        /\ lost' = 0 => lost = 0
    BY <1>0, <1>2, OpenRX
  <2> QED BY <1>1, <2>1, GaplessKept
<1>3. CASE setupStateRX
  <2>1. /\ rxcurrentWindow'[RX] = rxcurrentWindow[RX] /\ sink' = sink /\ lost' = lost
        /\ ses[RX].next = "setup" /\ net'[RX] \subseteq net[RX]
    BY <1>0, <1>3, SetupRX
  <2>2. \A m \in net[RX] : m.capType = "CTRL"
    BY <1>0, <2>1 DEF ShakingClean, Shaking
  <2> QED BY <1>1, <2>1, <2>2, GaplessKept
<1>4. CASE connectedStateRX
  <2>1. /\ rxcurrentWindow' = rxcurrentWindow /\ sink' = sink /\ net'[RX] = net[RX]
        /\ lost' = 0 => lost = 0
    BY <1>0, <1>4, ConnectedRX
  <2> QED BY <1>1, <2>1, GaplessKept
<1>5. CASE closedStateRX
  BY <1>1, <1>5, GaplessClosedRX
<1>6. CASE doneStateRX
  BY <1>1, <1>6, GaplessDoneRX
<1>7. CASE closedStateExit(RX) \/ divideByZero(RX) \/ ioError(RX)
  <2>1. UNCHANGED <<net, lost, rxcurrentWindow, sink>>
    BY <1>7 DEF closedStateExit, divideByZero, ioError, gatewayVars
  <2> QED BY <1>1, <2>1, GaplessKept
<1> QED BY <1>2, <1>3, <1>4, <1>5, <1>6, <1>7 DEF Client

LEMMA GaplessNetwork ==
  ASSUME TypeInv, BalanceInv, GaplessInv, Network
  PROVE  GaplessInv'
<1>0. RX \in Dir
  BY DEF Dir
<1>1. /\ UNCHANGED sessionVars
      /\ \A c \in net'[RX] : \E m \in net[RX] :
           c.capType = m.capType /\ c.n = m.n /\ c.from = m.from
      /\ lost' = 0 => lost = 0 /\ \A d \in Dir : net[d] \subseteq net'[d]
  BY OnlyMore DEF BalanceInv
<1>2. UNCHANGED <<ses, txFactory, rxcurrentWindow, sink>>
  BY <1>1 DEF sessionVars
<1> QED BY <1>0, <1>1, <1>2, GaplessKept

LEMMA GaplessInvariant ==
  ASSUME ~Reorder
  PROVE  Spec => []GaplessInv
<1>1. Init => GaplessInv
  <2> SUFFICES ASSUME Init PROVE GaplessInv
    OBVIOUS
  <2>1. /\ net[RX] = {} /\ sink = <<>> /\ rxcurrentWindow[RX] = {}
        /\ ses[TX].capsuleId = 0
    BY DEF Init, Dir
  <2>2. Sent = -1
    BY <2>1 DEF Sent
  <2>3. Covers({}, 0, 0 - 0)
    <3>1. (0 + 1)..(0 + (0 - 0)) = {}
      OBVIOUS
    <3>2. Keyed({})
      BY FS_EmptySet DEF Keyed
    <3> QED BY <3>1, <3>2 DEF Covers
  <2>4. EndsWith(0) /\ NoHole
    BY <2>1 DEF EndsWith, NoHole
  <2>5. (0 + 1)..Sent = {} /\ 0 \in 0..ses[TX].capsuleId
    BY <2>1, <2>2
  <2>6. ReceivedUpTo(0, 0, 0)
    BY <2>1, <2>3, <2>4, <2>5 DEF ReceivedUpTo
  <2> QED BY <2>1, <2>4, <2>5, <2>6 DEF GaplessInv
<1>2. TypeInv /\ Owned /\ KeyInv /\ BalanceInv /\ GaplessInv /\ [Next]_vars => GaplessInv'
  <2> SUFFICES ASSUME TypeInv, Owned, KeyInv, BalanceInv, GaplessInv, [Next]_vars
               PROVE  GaplessInv'
    OBVIOUS
  <2>1. CASE Server
    BY <2>1, GaplessServer
  <2>2. CASE Client
    BY <2>2, GaplessClient
  <2>3. CASE Network
    BY <2>3, GaplessNetwork
  <2>4. CASE Terminated \/ UNCHANGED vars
    <3>1. UNCHANGED vars
      BY <2>4 DEF Terminated
    <3>2. UNCHANGED <<net, lost, txFactory, rxcurrentWindow, ses, sink>>
      BY <3>1 DEF vars, gatewayVars, sessionVars
    <3> QED BY <3>2, GaplessKept
  <2> QED BY <2>1, <2>2, <2>3, <2>4 DEF Next
<1> QED BY TypeInvariant, OwnedInvariant, KeyInvariant, BalanceInvariant, <1>1, <1>2, PTL
        DEF Spec

(* The client appends whole windows to its file (presentation.h:41) and    *)
(* never looks at where it writes, and the server goes on at any capsule   *)
(* it is sent (session.h:501).  Still, on a network that keeps the order,  *)
(* repeated datagrams and a second client can only make the client write a *)
(* payload again: every payload it writes begins at or before the byte     *)
(* where the one before it ended, unless a datagram was lost.              *)
THEOREM NothingSkipped ==
  ASSUME ~Reorder
  PROVE  Spec => []NoHole
<1>1. GaplessInv => NoHole
  BY DEF GaplessInv, NoHole
<1> QED BY GaplessInvariant, <1>1, PTL

-----------------------------------------------------------------------------
(* The last byte. *)

(* The client's file ends where the server's does. *)
AtEnd == EndOf(sink, Len(sink)) = fileSize

(* The payload with FIN that has told the client to stop is still in its   *)
(* window, until it is the last one in its file.                           *)
FinInv ==
  /\ \A b \in rxcurrentWindow[RX] : b.cap.fin => b.cap.data.off + b.cap.data.len = fileSize
  /\ rxFactory[RX].fin => IF Returned(RX) THEN AtEnd
                          ELSE \E b \in rxcurrentWindow[RX] : b.cap.fin

(* The last buffer write2Souce writes is the one with the highest key. *)
LEMMA LastWritten ==
  ASSUME NEW s \in Seq(Chunk), NEW W \in SUBSET MemBuff, Keyed(W), W # {}
  PROVE  \E c \in W : /\ \A x \in W : x.cap.capid <= c.cap.capid
                      /\ Len(WriteWindow(s, W)) # 0
                      /\ WriteWindow(s, W)[Len(WriteWindow(s, W))] = c.cap.data
<1>1. PICK n \in Nat : n = Cardinality(W) /\ n # 0 /\ IsFiniteSet(W)
  BY FS_CardinalityType, FS_EmptySet DEF Keyed
<1>2. n \in 1..n
  BY <1>1
<1>3. PICK c : c = CHOOSE b \in W : Rank(W, b) = n
  OBVIOUS
<1>4. c \in W /\ Rank(W, c) = n
  <2>1. \E b \in W : Rank(W, b) = n
    BY <1>1, <1>2, RankExists
  <2> QED BY <1>3, <2>1
<1>5. \A x \in W : x.cap.capid <= c.cap.capid
  <2>1. PICK B : B = {x \in W : x.cap.capid <= c.cap.capid}
    OBVIOUS
  <2>2. B \in SUBSET W /\ Cardinality(B) = Cardinality(W)
    BY <1>1, <1>4, <2>1 DEF Rank
  <2>3. B = W
    BY <1>1, <2>2, FS_Subset
  <2> QED BY <2>1, <2>3
<1>6. PICK t : t = [i \in 1..n |-> InCapidOrder(W)[i].cap.data]
  OBVIOUS
<1>7. WriteWindow(s, W) = s \o t
  BY <1>1, <1>6 DEF WriteWindow
<1>8. t[n] = c.cap.data
  <2>1. InCapidOrder(W)[n] = c
    BY <1>1, <1>2, <1>3 DEF InCapidOrder
  <2> QED BY <1>2, <1>6, <2>1
<1>9. PICK S : Chunk \subseteq S /\ \A i \in 1..n : t[i] \in S
  <2>1. \A i \in 1..n : t[i] \in Chunk \cup {t[j] : j \in 1..n}
    OBVIOUS
  <2> QED BY <2>1
<1>10. t \in Seq(S) /\ Len(t) = n /\ s \in Seq(S) /\ Len(s) \in Nat
  BY <1>6, <1>9
<1>11. /\ Len(s \o t) = Len(s) + n
       /\ \A i \in 1..(Len(s) + n) : (s \o t)[i] = IF i <= Len(s) THEN s[i] ELSE t[i - Len(s)]
  BY <1>10, ConcatProperties
<1>12. /\ Len(s) + n \in 1..(Len(s) + n) /\ ~(Len(s) + n <= Len(s))
       /\ Len(s) + n - Len(s) = n /\ Len(s) + n # 0
  BY <1>1, <1>10
<1>13. (s \o t)[Len(s) + n] = t[n]
  BY <1>11, <1>12
<1> QED BY <1>4, <1>5, <1>7, <1>8, <1>11, <1>12, <1>13

(* A step that neither files nor writes keeps it. *)
LEMMA FinKept ==
  ASSUME FinInv, rxcurrentWindow'[RX] = rxcurrentWindow[RX], sink' = sink,
         fileSize' = fileSize, rxFactory'[RX].fin = rxFactory[RX].fin,
         rxFactory[RX].fin => Returned(RX)' = Returned(RX)
  PROVE  FinInv'
<1>1. AtEnd' = AtEnd
  BY DEF AtEnd, EndOf
<1> QED BY <1>1 DEF FinInv

(* A window with FIN is written with FIN last. *)
LEMMA FinWritten ==
  ASSUME TypeInv, KeyInv, FinInv, doneStateRX, fileSize' = fileSize
  PROVE  FinInv'
<1>0. TypeOK /\ RX \in Dir
  BY DEF TypeInv, Dir
<1>1. /\ ses[RX].next = "done" /\ rxcurrentWindow'[RX] = {}
      /\ ses'[RX].complete /\ rxFactory'[RX].fin = rxFactory[RX].fin
      /\ rxFactory[RX].fin => ses'[RX].next = "connected"
      /\ sink' = WriteWindow(sink, rxcurrentWindow[RX])
  BY <1>0, DoneRX
<1>2. ASSUME rxFactory[RX].fin PROVE Returned(RX)' /\ AtEnd'
  <2> DEFINE W == rxcurrentWindow[RX]
  <2>1. ~Returned(RX) /\ Returned(RX)'
    BY <1>1, <1>2 DEF Returned
  <2>2. PICK f \in W : f.cap.fin
    BY <1>2, <2>1 DEF FinInv
  <2>3. W \in SUBSET MemBuff /\ Keyed(W) /\ sink \in Seq(Chunk)
    BY <1>0 DEF TypeInv, TypeOK, WindowsKeyed
  <2>4. PICK c \in W : /\ \A x \in W : x.cap.capid <= c.cap.capid
                       /\ Len(sink') # 0 /\ sink'[Len(sink')] = c.cap.data
    BY <1>1, <2>2, <2>3, LastWritten
  <2>5. c = f
    <3>1. /\ f.cap.capid = Sent /\ c.cap.capid <= Sent /\ c.cap.capid \in Nat
          /\ Sent \in Int
      BY <2>2, Numbers
    <3>2. c.cap.capid = f.cap.capid
      BY <2>4, <3>1
    <3> QED BY <2>3, <3>2 DEF Keyed
  <2>6. EndOf(sink', Len(sink')) = c.cap.data.off + c.cap.data.len
    BY <2>4 DEF EndOf
  <2>7. EndOf(sink', Len(sink')) = fileSize
    BY <2>2, <2>5, <2>6 DEF FinInv
  <2> QED BY <2>1, <2>7 DEF AtEnd, EndOf
<1> QED BY <1>1, <1>2 DEF FinInv

(* A payload the client files has FIN only if it ends the file. *)
LEMMA FinFiled ==
  ASSUME TypeInv, TypeInv', FinOnlyOnLast, WindowPlaces, FinInv, closedStateRX,
         fileSize' = fileSize
  PROVE  FinInv'
<1>0. TypeOK /\ RX \in Dir /\ ses[RX].winSize \in Nat
  BY DEF TypeInv, TypeOK, Dir, SessionState
<1>1. PICK m \in net[RX] :
        LET W == Windowed(RX, m)
            fin == rxFactory[RX].fin \/ (W # {} /\ Highest(W).cap.fin)
        IN  /\ ses[RX].winSize > 0 /\ ses'[RX].next = "closed"
            /\ rxcurrentWindow'[RX] = W /\ rxFactory'[RX].fin = fin
  BY <1>0, ClosedRX
<1>2. PICK W : W = Windowed(RX, m)
  OBVIOUS
<1>3. ~rxFactory[RX].fin
  BY <1>0, <1>1 DEF WindowPlaces
<1>4. rxcurrentWindow'[RX] = W /\ ~Returned(RX)'
  BY <1>1, <1>2 DEF Returned
<1>5. rxFactory'[RX].fin => W # {} /\ Highest(W).cap.fin
  BY <1>1, <1>2, <1>3
<1>6. W \in SUBSET MemBuff /\ Keyed(W)
  BY <1>0, <1>4 DEF TypeInv, TypeOK, WindowsKeyed
<1>7. rxFactory'[RX].fin => \E b \in W : b.cap.fin
  BY <1>5, <1>6, HighestIsLast
<1>8. \A b \in W : b.cap.fin => b.cap.data.off + b.cap.data.len = fileSize
  <2>1. \A b \in W : b \in rxcurrentWindow[RX] \/ b.cap = m
    BY <1>2 DEF Windowed, WindowPut, NewBuff
  <2> QED BY <2>1 DEF FinInv, FinOnlyOnLast
<1> QED BY <1>4, <1>7, <1>8 DEF FinInv

LEMMA FinInvariant == Spec => []FinInv
<1>1. Init => FinInv
  BY DEF Init, FinInv, Dir, NewRxFactory
<1>2. /\ TypeInv /\ Owned /\ KeyInv /\ BalanceInv /\ FinOnlyOnLast /\ FinInv /\ TypeInv'
      /\ [Next]_vars
      => FinInv'
  <2> SUFFICES ASSUME TypeInv, Owned, KeyInv, BalanceInv, FinOnlyOnLast, FinInv, TypeInv',
                      [Next]_vars
               PROVE  FinInv'
    OBVIOUS
  <2>0. /\ TypeOK /\ ShakingClean /\ RX \in Dir /\ WindowPlaces
    BY DEF TypeInv, Owned, Dir, BalanceInv
  <2>1. CASE Server
    <3>1. /\ ses'[RX] = ses[RX] /\ rxFactory'[RX] = rxFactory[RX]
          /\ rxcurrentWindow'[RX] = rxcurrentWindow[RX]
          /\ fileSize' = fileSize /\ sink' = sink
      BY <2>0, <2>1, ServerFrame
    <3> QED BY <3>1, FinKept DEF Returned
  <2>2. CASE Client
    <3>0. fileSize' = fileSize
      BY <2>0, <2>2, ClientFrame
    <3>1. CASE openStateRX \/ setupStateRX \/ connectedStateRX
      <4>1. /\ rxcurrentWindow'[RX] = rxcurrentWindow[RX] /\ sink' = sink
            /\ rxFactory'[RX].fin = rxFactory[RX].fin
            /\ ~Past(RX)
        BY <2>0, <3>1, OpenRX, SetupRX, ConnectedRX DEF Past, Returned
      <4>2. ~rxFactory[RX].fin
        BY <2>0, <4>1 DEF WindowPlaces
      <4> QED BY <3>0, <4>1, <4>2, FinKept
    <3>2. CASE closedStateRX
      BY <2>0, <3>0, <3>2, FinFiled
    <3>3. CASE doneStateRX
      BY <3>0, <3>3, FinWritten
    <3>4. CASE closedStateExit(RX) \/ divideByZero(RX) \/ ioError(RX)
      <4>1. UNCHANGED <<rxcurrentWindow, rxFactory, sink>>
        BY <3>4 DEF closedStateExit, divideByZero, ioError
      <4>2. Returned(RX)' = Returned(RX)
        BY <2>0, <3>4, Stops DEF Returned
      <4> QED BY <3>0, <4>1, <4>2, FinKept
    <3> QED BY <2>2, <3>1, <3>2, <3>3, <3>4 DEF Client
  <2>3. CASE Network \/ Terminated \/ UNCHANGED vars
    <3>1. UNCHANGED <<rxcurrentWindow, rxFactory, sink, ses, fileSize>>
      BY <2>3 DEF Network, Terminated, vars, sessionVars
    <3> QED BY <3>1, FinKept DEF Returned
  <2> QED BY <2>1, <2>2, <2>3 DEF Next
<1> QED BY TypeInvariant, OwnedInvariant, KeyInvariant, BalanceInvariant, FinCorrect,
           <1>1, <1>2, PTL DEF Spec

(* Whatever the network loses, repeats and reorders, a client that returns *)
(* (session.h:545) has written the last byte of the server's file, and     *)
(* nothing after it: FIN is looked for on the highest key only             *)
(* (session.h:655), the payload that carries it has the highest number of  *)
(* all, and a window is written up to its highest key.  What such a client *)
(* can miss is in the middle of the file, never at its end.                *)
THEOREM EndsComplete == Spec => []EndsWithLastByte
<1>1. BalanceInv /\ FinInv => EndsWithLastByte
  BY DEF BalanceInv, WindowPlaces, FinInv, AtEnd, EndsWithLastByte
<1> QED BY BalanceInvariant, FinInvariant, <1>1, PTL
=============================================================================
