--------------------------- MODULE PhyInterfaces ---------------------------
(***************************************************************************)
(* gateway.h, class PhyInterfaces: the list of interface addresses read    *)
(* when an end starts, and its use in the Hi and the ACK (session.h,       *)
(* setCapParams), where the kernel is asked again for the number of        *)
(* interfaces once for the size and once for every test of the loop.       *)
(* Between the two an end waits for its peer, which may never speak.       *)
(* The kernel is external: interfaces come and go and the ioctl may fail.  *)
(***************************************************************************)
EXTENDS Naturals, Sequences

CONSTANTS
  Addr,        \* interface addresses
  Garbage,     \* memory this query did not write, or that is not the list's
  MaxChanges   \* bound on interfaces that come or go

ASSUME InterfaceAssumption == Garbage \notin Addr /\ MaxChanges \in Nat

VARIABLES
  kernel,       \* Seq(Addr): the interfaces of the host
  changes,      \* interfaces that have come or gone
  failed,       \* an ioctl has failed
  phase,        \* what the number of interfaces is asked for
  numreqs,      \* entries the kernel is asked for
  allocated,    \* entries malloc'ed for addressList
  addressList,  \* Seq(Addr \cup {Garbage})
  size,         \* capSize / ADDR_LEN of the capsule
  body          \* Seq(Addr \cup {Garbage}): entries copied to the capsule

interfaceVars ==
  <<kernel, changes, failed, phase, numreqs, allocated, addressList, size, body>>

(* The calls of _noOfInterfaces: by the constructor, by                    *)
(* interfacesToIpV4addr, for addrlistLen and for the test of the loop.     *)
Asking == {"count", "list", "size", "test"}

(* A heap block that is read before it is written: realloc may leave in   *)
(* its first entries what an earlier query put there.                      *)
Junk(n) == [i \in 1..n |-> Garbage]

-----------------------------------------------------------------------------
(* What _noOfInterfaces returns, n, and what it leaves in ifc_req.  A      *)
(* reply that fills the buffer is not taken; a failed ioctl returns        *)
(* numreqs, ifc_len still at the size of the buffer.                       *)
Short == [n |-> Len(kernel), req |-> kernel]

(* Mutant: a failed ioctl is reported as no interfaces. *)
FailureZero == [n |-> 0, req |-> Junk(numreqs)]

Failure == [n |-> numreqs, req |-> Junk(numreqs)]

(* The caller goes on with the reply. *)
Replied(r) ==
  /\ numreqs' = 1
  /\ CASE phase = "count" ->
            phase' = "list" /\ UNCHANGED <<allocated, addressList, size, body>>
       [] phase = "list" ->
            /\ phase' = "ready"
            /\ allocated' = r.n /\ addressList' = r.req
            /\ UNCHANGED <<size, body>>
       [] phase = "size" ->
            phase' = "test" /\ size' = r.n /\ UNCHANGED <<allocated, addressList, body>>
       [] phase = "test" /\ Len(body) < r.n ->
            /\ body' = Append(body, IF Len(body) < Len(addressList)
                                      THEN addressList[Len(body) + 1] ELSE Garbage)
            /\ UNCHANGED <<phase, allocated, addressList, size>>
       [] OTHER ->
            phase' = "sent" /\ UNCHANGED <<allocated, addressList, size, body>>

(* Mutant: the buffer is as large as before. *)
askMoreNever ==
  /\ phase \in Asking
  /\ numreqs <= Len(kernel)
  /\ UNCHANGED interfaceVars

askMore ==
  /\ phase \in Asking
  /\ numreqs <= Len(kernel)
  /\ numreqs' = 2 * numreqs
  /\ UNCHANGED <<kernel, changes, failed, phase, allocated, addressList, size, body>>

(* Mutant: a reply that fills the buffer is taken for the whole list. *)
askTruncated ==
  /\ phase \in Asking
  /\ LET n == IF Len(kernel) < numreqs THEN Len(kernel) ELSE numreqs
     IN  Replied([n |-> n, req |-> SubSeq(kernel, 1, n)])
  /\ UNCHANGED <<kernel, changes, failed>>

ask ==
  /\ phase \in Asking
  /\ Len(kernel) < numreqs
  /\ Replied(Short)
  /\ UNCHANGED <<kernel, changes, failed>>

askFails ==
  /\ phase \in Asking
  /\ Replied(Failure)
  /\ failed' = TRUE
  /\ UNCHANGED <<kernel, changes>>

(* The first realloc is given the ifc_buf of a malloc'ed ifconf, which was *)
(* never set: it may work or abort.                                        *)
reallocAborts ==
  /\ phase = "count" /\ numreqs = 1
  /\ phase' = "aborted"
  /\ UNCHANGED <<kernel, changes, failed, numreqs, allocated, addressList, size, body>>

(* The end waits in recvfrom: the server in openState for a Hello, the     *)
(* client in setupState for the Hi.  A failing call ends the program.      *)
heardPeer ==
  /\ phase = "ready"
  /\ phase' = "heard"
  /\ UNCHANGED <<kernel, changes, failed, numreqs, allocated, addressList, size, body>>

receiveFails ==
  /\ phase = "ready"
  /\ phase' = "aborted"
  /\ UNCHANGED <<kernel, changes, failed, numreqs, allocated, addressList, size, body>>

(* The handler of setup (server) or connected (client) fills the capsule. *)
fillCapsule ==
  /\ phase = "heard"
  /\ phase' = "size"
  /\ UNCHANGED <<kernel, changes, failed, numreqs, allocated, addressList, size, body>>

(* The capsule that is sent: size entries of its body. *)
Sent == [i \in 1..size |-> IF i <= Len(body) THEN body[i] ELSE Garbage]

(* What the end does by itself, and with what it meets. *)
Progress == askMore \/ ask \/ fillCapsule
Discovery == Progress \/ heardPeer \/ receiveFails \/ askFails \/ reallocAborts

(* An interface comes up or goes down.  A change before the first query is *)
(* another initial value of kernel, one after the last cannot be noticed.  *)
Change ==
  /\ phase \in Asking \cup {"ready", "heard"}
  /\ changes < MaxChanges
  /\ changes' = changes + 1
  /\ \/ \E a \in Addr : kernel' = Append(kernel, a)
     \/ kernel # <<>> /\ kernel' = Tail(kernel)
  /\ UNCHANGED <<failed, phase, numreqs, allocated, addressList, size, body>>

-----------------------------------------------------------------------------
(* While no ioctl fails, the addresses sent to the peer are the interfaces *)
(* of the host, all of them, if none came or went: the six or more         *)
(* separate queries of an exchange agree.  If some did, the size sent is   *)
(* off by at most as many entries as there were changes, and only as many, *)
(* at the end, can be anything but the addresses of the list.              *)
HiExact ==
  phase = "sent" /\ ~failed =>
    /\ changes = 0 => Sent = kernel
    /\ size <= Len(addressList) + changes /\ Len(addressList) <= size + changes
    /\ \A i \in 1..size : i + changes <= size => Sent[i] = addressList[i]

(* interfacesToIpV4addr writes no entry past the block it malloc'ed, even  *)
(* when the ioctl fails or the number of interfaces changes between the    *)
(* constructor's own count and the second one.                             *)
ListWithinAllocation == Len(addressList) <= allocated
=============================================================================
