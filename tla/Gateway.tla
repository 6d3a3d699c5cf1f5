------------------------------ MODULE Gateway ------------------------------
(***************************************************************************)
(* gateway.h: the addresses of the peer, the rotation over them, and the   *)
(* UDP socket both ends send on.  The network is external: it may reorder, *)
(* lose or duplicate a datagram, each within a named bound.                *)
(***************************************************************************)
EXTENDS DataFactory

CONSTANTS
  Addr,            \* interface addresses
  Lo,              \* "127.0.0.1"
  Garbage,         \* what the heap holds one entry past a peer list
  InterfaceLists,  \* the interface lists an end may start with
  Down,            \* addresses that do not lead to the peer
  Reorder,         \* may the network deliver out of order?
  MaxLost,         \* bound on datagrams the network loses on the way
  MaxDup,          \* bound on datagrams the network duplicates
  MaxStray         \* bound on Hellos of a second client

ASSUME AddressAssumption ==
  /\ Lo \in Addr /\ Garbage \notin Addr
  /\ Down \subseteq Addr
  /\ InterfaceLists \subseteq Seq(Addr)

ASSUME NetworkAssumption ==
  Reorder \in BOOLEAN /\ MaxLost \in Nat /\ MaxDup \in Nat /\ MaxStray \in Nat

VARIABLES
  addressList,  \* [Dir -> Seq(Addr)]: PhyInterfaces::addressList of each end
  peers,        \* [Dir -> PeerList]: peer_addressList and peer_addressCount
  rot,          \* [Dir -> Nat]: the static counter of selectAddrFromList
  peer_addr,    \* [Dir -> Sender]: whom recvfrom heard last
  net,          \* [Dir -> SUBSET Capsule]: datagrams on their way to an end
  lost,         \* datagrams that reached no end so far
  dups,         \* datagrams duplicated so far
  strays        \* Hellos a second client has sent so far

gatewayVars == <<addressList, peers, rot, peer_addr, net, lost, dups, strays>>

(* stateDirection: the server transmits, the client receives. *)
TX == "TX"
RX == "RX"
Dir == {TX, RX}
Peer(d) == IF d = TX THEN RX ELSE TX

(* The other end of the session, or a second client of the server. *)
Sender == {"peer", "stranger"}

-----------------------------------------------------------------------------
(* The malloc'ed peer list: list is NULL until a capsule with addresses is *)
(* processed.                                                              *)
NoPeers == [known |-> FALSE, list |-> <<>>, count |-> 0]

LoopbackAt(addrs) == {i \in 1..Len(addrs) : addrs[i] = Lo}

(* Mutant: the loopback address is shifted out but still counted. *)
DecodePeersKeepCount(addrs) ==
  [known |-> TRUE,
   list  |-> [i \in 1..Len(addrs) |->
                IF \A k \in LoopbackAt(addrs) : i < k THEN addrs[i]
                ELSE IF i < Len(addrs) THEN addrs[i + 1] ELSE Garbage],
   count |-> Len(addrs)]

(* SessionProcessor::process at setup and at connected: every loopback     *)
(* entry lowers the count, the first one shifts the rest down.             *)
DecodePeers(addrs) ==
  [known |-> TRUE,
   list  |-> [i \in 1..Len(addrs) |->
                IF \A k \in LoopbackAt(addrs) : i < k THEN addrs[i]
                ELSE IF i < Len(addrs) THEN addrs[i + 1] ELSE Garbage],
   count |-> Len(addrs) - Cardinality(LoopbackAt(addrs))]

(* selectAddrFromList divides by peer_addressCount. *)
Selectable(d) == peers[d].known => peers[d].count > 0

(* The next capsule of d does not reach its peer.  Before a list is known  *)
(* it goes to peer_addr; then the address is the list's and the port still *)
(* that of peer_addr.                                                      *)
Misrouted(d) ==
  \/ peer_addr[d] = "stranger"
  \/ /\ peers[d].known
     /\ peers[d].list[((rot[d] + 1) % peers[d].count) + 1] \in Down

-----------------------------------------------------------------------------
(* chunkWrite and send: one sendto on the selected address. *)
SendCapsule(d, cap) ==
  /\ Selectable(d)
  /\ rot' = [rot EXCEPT ![d] = IF peers[d].known THEN @ + 1 ELSE @]
  /\ IF Misrouted(d)
       THEN lost' = lost + 1 /\ net' = net
       ELSE lost' = lost /\ net' = [net EXCEPT ![Peer(d)] = @ \cup {cap}]
  /\ UNCHANGED peer_addr

(* The datagrams recvfrom may return next: each sender's arrive in order   *)
(* when the network keeps the order.                                       *)
Deliverable(d) ==
  {m \in net[d] : Reorder \/ \A x \in net[d] : x.from = m.from => m.n <= x.n}

(* pull and receive: recvfrom takes one datagram off the socket and        *)
(* overwrites peer_addr with its sender.                                   *)
TakeCapsule(d, m) ==
  /\ m \in Deliverable(d)
  /\ net' = [net EXCEPT ![d] = @ \ {m}]
  /\ peer_addr' = [peer_addr EXCEPT ![d] = m.from]
  /\ UNCHANGED <<rot, lost>>

(* The network drops a datagram. *)
Lose ==
  /\ lost < MaxLost
  /\ \E d \in Dir : \E m \in net[d] : net' = [net EXCEPT ![d] = @ \ {m}]
  /\ lost' = lost + 1
  /\ UNCHANGED <<addressList, peers, rot, peer_addr, dups, strays>>

(* The network delivers a datagram once more. *)
Duplicate ==
  /\ dups < MaxDup
  /\ \E d \in Dir : \E m \in net[d] :
       net' = [net EXCEPT ![d] = @ \cup {[m EXCEPT !.copy = dups + 1]}]
  /\ dups' = dups + 1
  /\ UNCHANGED <<addressList, peers, rot, peer_addr, lost, strays>>

(* A second client opens its session with the same server; cap is its      *)
(* Hello.  What it sends later is not modelled.                            *)
Stray(cap) ==
  /\ strays < MaxStray
  /\ net' = [net EXCEPT ![TX] = @ \cup {cap}]
  /\ strays' = strays + 1
  /\ UNCHANGED <<addressList, peers, rot, peer_addr, lost, dups>>
=============================================================================
