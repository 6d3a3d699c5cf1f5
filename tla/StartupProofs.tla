--------------------------- MODULE StartupProofs ---------------------------
(***************************************************************************)
(* The safety properties of Startup, for every list of addresses and of    *)
(* interfaces, every set of descriptors and any number of changes.         *)
(*                                                                         *)
(* The two halves share only the step run, so each has its own inductive   *)
(* invariant: Serving for the socket, Discovered for the interfaces.       *)
(***************************************************************************)
EXTENDS Startup, TLAPS

Socket == [fd : Nat, family : Families \cup {"none"}, open : BOOLEAN]

(* A socket that has lost its first bind is closed for good, and a socket  *)
(* that is closed is never descriptor 0.                                   *)
FirstOrLost ==
  \/ sfd.open /\ rp = 1
  \/ ~sfd.open /\ sfd.fd > 0

(* Where the program is tells what has become of the socket. *)
Serving ==
  /\ sfd \in Socket
  /\ results \in Seq(Families) /\ results # <<>>
  /\ rp \in Nat \ {0}
  /\ pc = "main" => rp = 1
  /\ pc = "socket" => rp <= Len(results)
  /\ pc = "bind" => FirstOrLost
  /\ role = "server" /\ pc \in {"file", "session"} =>
       sfd.open /\ ((bound = 1 /\ Bindable(1)) \/ sfd.fd = 0)
  /\ phase # "main" => pc = "session"

LEMMA ServingInit == Init => Serving
BY SetupAssumption DEF Init, SetupInit, Serving, Socket, NoSocket

LEMMA ServingSetup ==
  ASSUME Serving, Setup, UNCHANGED interfaceVars
  PROVE  Serving'
<1> USE DEF Goto, Same, Serving, Bindable, interfaceVars
<1>1. CASE usage
  BY <1>1 DEF usage, FirstOrLost
<1>2. CASE fetch_addresses \/ resolve
  <2>1. Len(results) \in Nat \ {0}
    OBVIOUS
  <2> QED
    BY <1>2, <2>1 DEF fetch_addresses, resolve, FirstOrLost
<1>3. CASE obtainAddressesFails
  BY <1>3 DEF obtainAddressesFails, FirstOrLost
<1>4. CASE socketFails
  BY <1>4 DEF socketFails, FirstOrLost
<1>5. CASE socket
  <2>1. PICK fd \in FreeFds :
          /\ sfd' = [fd |-> fd, family |-> results[rp], open |-> TRUE]
          /\ pc' = IF role = "server" THEN "bind" ELSE IF fd > 0 THEN "file" ELSE "return"
    BY <1>5 DEF socket
  <2>2. fd \in Nat /\ results[rp] \in Families
    BY <1>5, SetupAssumption DEF socket
  <2>3. sfd' \in Socket /\ sfd'.open
    BY <2>1, <2>2 DEF Socket
  <2>4. pc = "socket" /\ rp' = 1 /\ UNCHANGED <<role, results, bound>>
    BY <1>5 DEF socket
  <2>5. pc' \in {"bind", "file", "return"} /\ (role = "server" => pc' = "bind")
    BY <2>1
  <2> QED
    BY <2>3, <2>4, <2>5 DEF FirstOrLost
<1>6. CASE bindSkipped
  BY <1>6 DEF bindSkipped, FirstOrLost
<1>7. CASE bindAddress
  BY <1>7 DEF bindAddress, FirstOrLost
<1>8. CASE bindFails
  <2>1. sfd' \in Socket /\ ~sfd'.open /\ sfd'.fd > 0
    BY <1>8 DEF bindFails, Socket
  <2> QED
    BY <1>8, <2>1 DEF bindFails, FirstOrLost
<1>9. CASE noSource \/ openSource \/ openSink \/ defaultSource
  BY <1>9 DEF noSource, openSource, openSink, defaultSource, FirstOrLost
<1> QED
  BY <1>1, <1>2, <1>3, <1>4, <1>5, <1>6, <1>7, <1>8, <1>9 DEF Setup

LEMMA ServingStep ==
  ASSUME Serving, [Next]_vars
  PROVE  Serving'
<1>1. CASE Setup /\ UNCHANGED interfaceVars
  BY <1>1, ServingSetup
<1>2. CASE run
  BY <1>2 DEF run, setupVars, Serving, FirstOrLost, Bindable
<1>3. CASE UNCHANGED setupVars /\ (Discovery \/ Change)
  <2>1. phase # "main"
    BY <1>3 DEF Discovery, Progress, askMore, ask, fillCapsule, heardPeer, receiveFails,
                askFails, reallocAborts, Change, Asking
  <2> QED
    BY <1>3, <2>1 DEF setupVars, Serving, FirstOrLost, Bindable
<1>4. CASE UNCHANGED vars
  BY <1>4 DEF vars, setupVars, interfaceVars, Serving, FirstOrLost, Bindable
<1> QED
  BY <1>1, <1>2, <1>3, <1>4 DEF Next, Program

(* A server asks for its interfaces, and so starts its session, only with  *)
(* an open socket bound to the first address that can be, or with          *)
(* descriptor 0 (connection.h, bindAddress; userclass.h, udm_bind).  As    *)
(* bindAddress closes a socket it could not bind, that address is the      *)
(* first of the list.                                                      *)
THEOREM BoundToAble == FairSpec => []ServesBound
<1>1. Serving => ServesBound
  BY DEF Serving, ServesBound
<1> QED
  BY <1>1, ServingInit, ServingStep, PTL DEF FairSpec

-----------------------------------------------------------------------------
(* The end has its list; it has the size of the capsule. *)
Listed == phase \in {"ready", "heard", "size", "test", "sent"}
Sized == phase \in {"test", "sent"}

(* Lengths asked for at different times differ by at most the changes. *)
Near(m, n) == m <= n + changes /\ n <= m + changes

(* What the queries answered so far have told, while none failed. *)
Agreed ==
  /\ Listed => /\ Near(Len(addressList), Len(kernel))
               /\ changes = 0 => addressList = kernel
  /\ Sized => Near(size, Len(kernel)) /\ Near(size, Len(addressList))
  /\ \A i \in 1..Len(body) : i <= Len(addressList) => body[i] = addressList[i]
  /\ phase = "sent" => size <= Len(body) + changes

Phases == Asking \cup {"main", "ready", "heard", "sent", "aborted"}

Discovered ==
  /\ kernel \in Seq(Addr)
  /\ addressList \in Seq(Addr \cup {Garbage})
  /\ body \in Seq(Addr \cup {Garbage})
  /\ numreqs \in Nat /\ allocated \in Nat /\ changes \in Nat /\ size \in Nat
  /\ failed \in BOOLEAN
  /\ phase \in Phases
  /\ phase \notin {"test", "sent"} => body = <<>>
  /\ Len(addressList) <= allocated
  /\ ~failed => Agreed

LEMMA DiscoveredInit == Init => Discovered
<1> SUFFICES ASSUME Init
             PROVE  Discovered
  OBVIOUS
<1>1. kernel \in Seq(Addr) /\ Len(kernel) \in Nat
  BY StartupAssumption DEF Init
<1>2. \A T : <<>> \in Seq(T) /\ Len(<<>>) = 0
  OBVIOUS
<1>3. Agreed
  BY <1>1, <1>2 DEF Init, Agreed, Listed, Sized
<1>4. /\ numreqs \in Nat /\ allocated \in Nat /\ changes \in Nat /\ size \in Nat
      /\ phase \in Phases
  BY DEF Init, Phases
<1>5. failed \in BOOLEAN
  BY DEF Init
<1>6. addressList = <<>> /\ body = <<>> /\ allocated = 0
  BY DEF Init
<1>7. /\ addressList \in Seq(Addr \cup {Garbage}) /\ body \in Seq(Addr \cup {Garbage})
      /\ Len(addressList) <= allocated
  BY <1>6, <1>2
<1> QED
  BY <1>1, <1>3, <1>4, <1>5, <1>6, <1>7 DEF Discovered

(* A reply whose list is as long as it says keeps the list within its      *)
(* block; a reply that is the kernel's keeps the queries in agreement.     *)
LEMMA RepliedDiscovered ==
  ASSUME Discovered, phase \in Asking,
         NEW r \in [n : Nat, req : Seq(Addr \cup {Garbage})], r.n = Len(r.req),
         Replied(r), UNCHANGED <<kernel, changes>>, failed' \in BOOLEAN,
         ~failed' => ~failed /\ r.req = kernel
  PROVE  Discovered'
<1> USE DEF Discovered, Replied, Agreed, Listed, Sized, Near
<1>0. Len(kernel) \in Nat /\ Len(addressList) \in Nat /\ Len(body) \in Nat
  OBVIOUS
<1>1. CASE phase = "count"
  BY <1>0, <1>1 DEF Asking, Phases
<1>2. CASE phase = "list"
  BY <1>0, <1>2 DEF Asking, Phases
<1>3. CASE phase = "size"
  BY <1>0, <1>3 DEF Asking, Phases
<1>4. CASE phase = "test" /\ Len(body) < r.n
  <2> DEFINE e == IF Len(body) < Len(addressList) THEN addressList[Len(body) + 1] ELSE Garbage
  <2>1. /\ body' = Append(body, e) /\ numreqs' = 1
        /\ UNCHANGED <<phase, allocated, addressList, size>>
    BY <1>4
  <2>2. e \in Addr \cup {Garbage}
    BY <1>0
  <2>3. body' \in Seq(Addr \cup {Garbage}) /\ Len(body') = Len(body) + 1
    BY <2>1, <2>2
  <2>4. ASSUME ~failed'
        PROVE  \A i \in 1..Len(body') : i <= Len(addressList) => body'[i] = addressList[i]
    <3>1. \A i \in 1..Len(body) : i <= Len(addressList) => body[i] = addressList[i]
      BY <2>4
    <3>2. Len(body) < Len(addressList) => e = addressList[Len(body) + 1]
      OBVIOUS
    <3> HIDE DEF e
    <3> QED
      BY <1>0, <2>1, <2>2, <2>3, <3>1, <3>2
  <2> HIDE DEF e
  <2> QED
    BY <1>4, <2>1, <2>3, <2>4
<1>5. CASE phase = "test" /\ ~(Len(body) < r.n)
  <2>1. /\ phase' = "sent" /\ numreqs' = 1
        /\ UNCHANGED <<allocated, addressList, size, body>>
    BY <1>5
  <2>2. ASSUME ~failed'
        PROVE  size <= Len(body) + changes
    BY <1>0, <1>5, <2>2
  <2> QED
    BY <1>0, <1>5, <2>1, <2>2 DEF Phases
<1> QED
  BY <1>1, <1>2, <1>3, <1>4, <1>5 DEF Asking

LEMMA DiscoveredStep ==
  ASSUME Discovered, [Next]_vars
  PROVE  Discovered'
<1> USE DEF Listed, Sized, Near
<1>1. CASE UNCHANGED interfaceVars
  BY <1>1 DEF interfaceVars, Discovered, Agreed
<1>2. CASE run
  BY <1>2 DEF run, Discovered, Agreed, Asking, Phases
<1>3. CASE askMore
  BY <1>3 DEF askMore, Discovered, Agreed
<1>4. CASE ask
  <2>1. Short \in [n : Nat, req : Seq(Addr \cup {Garbage})] /\ Short.n = Len(Short.req)
    BY DEF Short, Discovered
  <2>2. Short.req = kernel
    BY DEF Short
  <2> QED
    BY <1>4, <2>1, <2>2, RepliedDiscovered DEF ask, Discovered
<1>5. CASE askFails
  <2>1. Failure \in [n : Nat, req : Seq(Addr \cup {Garbage})] /\ Failure.n = Len(Failure.req)
    BY DEF Failure, Junk, Discovered
  <2> QED
    BY <1>5, <2>1, RepliedDiscovered DEF askFails
<1>6. CASE heardPeer \/ receiveFails \/ fillCapsule \/ reallocAborts
  BY <1>6 DEF heardPeer, receiveFails, fillCapsule, reallocAborts, Discovered, Agreed,
              Asking, Phases
<1>7. CASE Change
  <2>1. /\ kernel' \in Seq(Addr) /\ changes' = changes + 1
        /\ Len(kernel) \in Nat /\ Len(kernel') \in Nat
        /\ Len(kernel') <= Len(kernel) + 1 /\ Len(kernel) <= Len(kernel') + 1
    <3>1. CASE \E a \in Addr : kernel' = Append(kernel, a)
      BY <1>7, <3>1 DEF Change, Discovered
    <3>2. CASE kernel # <<>> /\ kernel' = Tail(kernel)
      BY <1>7, <3>2 DEF Change, Discovered
    <3> QED
      BY <1>7, <3>1, <3>2 DEF Change
  <2>2. /\ UNCHANGED <<failed, phase, numreqs, allocated, addressList, size, body>>
        /\ changes \in Nat /\ size \in Nat
        /\ Len(addressList) \in Nat /\ Len(body) \in Nat
    BY <1>7 DEF Change, Discovered
  <2>3. Agreed => Agreed'
    BY <2>1, <2>2 DEF Agreed
  <2> QED
    BY <2>1, <2>2, <2>3 DEF Discovered
<1> QED
  BY <1>1, <1>2, <1>3, <1>4, <1>5, <1>6, <1>7
  DEF Next, Program, Discovery, Progress, vars

(* interfacesToIpV4addr never writes past the block it malloc'ed,          *)
(* whatever the kernel answers and whenever the interfaces change.         *)
THEOREM ListFits == FairSpec => []ListWithinAllocation
<1>1. Discovered => ListWithinAllocation
  BY DEF Discovered, ListWithinAllocation
<1> QED
  BY <1>1, DiscoveredInit, DiscoveredStep, PTL DEF FairSpec

(* The Hi and the ACK of a host whose interfaces stay as they are and      *)
(* whose ioctls succeed carry exactly its interfaces; every change costs   *)
(* at most one entry (session.h, setCapParams).                            *)
THEOREM InterfacesSent == FairSpec => []HiExact
<1>1. Discovered => HiExact
  <2> SUFFICES ASSUME Discovered, phase = "sent", ~failed
               PROVE  HiExact
    BY DEF HiExact
  <2>0. /\ Len(kernel) \in Nat /\ Len(addressList) \in Nat /\ Len(body) \in Nat
        /\ size \in Nat /\ changes \in Nat
    BY DEF Discovered
  <2>1. /\ changes = 0 => addressList = kernel
        /\ Near(size, Len(kernel)) /\ Near(size, Len(addressList))
        /\ \A i \in 1..Len(body) : i <= Len(addressList) => body[i] = addressList[i]
        /\ size <= Len(body) + changes
    BY DEF Discovered, Agreed, Listed, Sized
  <2>2. ASSUME NEW i \in 1..size, i + changes <= size
        PROVE  Sent[i] = addressList[i]
    <3>1. i \in 1..Len(body) /\ i <= Len(addressList)
      BY <2>0, <2>1, <2>2 DEF Near
    <3> QED
      BY <2>1, <3>1 DEF Sent
  <2>3. ASSUME changes = 0
        PROVE  Sent = kernel
    <3>1. size = Len(kernel) /\ addressList = kernel
      BY <2>0, <2>1, <2>3 DEF Near
    <3>2. \A i \in 1..size : Sent[i] = kernel[i]
      BY <2>0, <2>2, <2>3, <3>1
    <3>3. Sent = [i \in 1..size |-> Sent[i]]
      BY DEF Sent
    <3>4. kernel = [i \in 1..size |-> kernel[i]]
      BY <3>1 DEF Discovered
    <3> QED
      BY <3>2, <3>3, <3>4
  <2> QED
    BY <2>1, <2>2, <2>3 DEF HiExact, Near
<1> QED
  BY <1>1, DiscoveredInit, DiscoveredStep, PTL DEF FairSpec
=============================================================================
