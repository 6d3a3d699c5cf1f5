------------------------------ MODULE Startup ------------------------------
(***************************************************************************)
(* An end from main to its first capsule with addresses: the socket is set *)
(* up (SocketSetup), io_context::run builds the Gateway, whose             *)
(* PhyInterfaces asks the kernel over that socket (PhyInterfaces), and the *)
(* session's handshake sends the list.                                     *)
(***************************************************************************)
EXTENDS SocketSetup, PhyInterfaces

CONSTANT InterfaceLists   \* the interfaces a host may start with

ASSUME StartupAssumption == InterfaceLists \subseteq Seq(Addr)

vars == <<setupVars, interfaceVars>>

Init ==
  /\ SetupInit
  /\ kernel \in InterfaceLists
  /\ changes = 0 /\ failed = FALSE
  /\ phase = "main" /\ numreqs = 1
  /\ allocated = 0 /\ addressList = <<>>
  /\ size = 0 /\ body = <<>>

(* udm_txstart and udm_rxstart: cont->run(). *)
run ==
  /\ pc = "session" /\ phase = "main"
  /\ phase' = "count"
  /\ UNCHANGED <<setupVars, kernel, changes, failed, numreqs, allocated, addressList,
                 size, body>>

Program ==
  \/ Setup /\ UNCHANGED interfaceVars
  \/ run
  \/ Discovery /\ UNCHANGED setupVars

Next == Program \/ (Change /\ UNCHANGED setupVars)

(* A program that does not wait for its peer is run; the kernel is not     *)
(* assumed to fail, nor the peer to speak.                                 *)
FairSpec ==
  /\ Init /\ [][Next]_vars
  /\ WF_vars(Setup /\ UNCHANGED interfaceVars)
  /\ WF_vars(run)
  /\ WF_vars(Progress /\ UNCHANGED setupVars)

-----------------------------------------------------------------------------
(* A server that starts its session and asks the kernel over its socket    *)
(* has that socket open, and bound to the first address of the list that   *)
(* can be bound, whatever bind or socket refused before.  The one          *)
(* exception is descriptor 0, which udm_bind leaves unbound.               *)
ServesBound ==
  role = "server" /\ phase # "main" =>
    /\ sfd.open
    /\ sfd.fd > 0 => /\ bound # 0 /\ Bindable(bound)
                     /\ \A e \in 1..(bound - 1) : ~Bindable(e)

(* An end gets to its wait for the peer, or the program ends, and one that *)
(* has heard the peer answers: the doubling of the buffer and the loop     *)
(* over the interfaces end, with interfaces coming up meanwhile too.       *)
StartupProgress ==
  /\ <>(phase \in {"ready", "aborted"} \/ pc \in Ends)
  /\ phase = "heard" ~> phase = "sent"

(* "here we are binding the socket to the first address that is able to"   *)
(* (connection.h:44): the server gives up only if every address is taken.  *)
BindsFirstAble ==
  role = "server" /\ pc = "exit" /\ sfd.fd > 0 => \A e \in 1..Len(results) : e \in busy
=============================================================================
