---------------------------- MODULE SocketSetup ----------------------------
(***************************************************************************)
(* The two programs up to the start of their session: main of              *)
(* udmuser_srv.cpp and udmuser_cl.cpp, fetch_addresses, resolver::resolve, *)
(* udm_socket and udm_bind of userclass.h, obtainAddresses and bindAddress *)
(* of connection.h.  getaddrinfo, socket and bind are external.            *)
(***************************************************************************)
EXTENDS Naturals, Sequences

CONSTANTS
  ResultLists,  \* what getaddrinfo may return: sequences of families
  Families,     \* address families
  FreeFds       \* descriptors socket may return; 0 when stdin is closed

ASSUME SetupAssumption ==
  ResultLists \subseteq Seq(Families) \ {<<>>} /\ FreeFds \subseteq Nat

VARIABLES
  role,       \* "server" or "client"
  pc,         \* where main is
  argc,       \* as main sees it
  results,    \* the addrinfo list, as the families of its entries
  busy,       \* entries of results whose address is taken
  rp,         \* the entry the running loop is at
  sfd,        \* [fd, family, open]: the socket
  bound       \* the entry the socket is bound to, 0 for none

setupVars ==
  <<role, pc, argc, results, busy, rp, sfd, bound>>

NoSocket == [fd |-> 0, family |-> "none", open |-> FALSE]

(* main returns, or a call of exit. *)
Ends == {"return", "exit", "crashed"}

Goto(from, to) == pc = from /\ pc' = to
Same(rest) == UNCHANGED <<role, argc, results, busy>> /\ UNCHANGED rest

-----------------------------------------------------------------------------
(* argc is wrong: the usage message. *)
usage ==
  /\ Goto("main", "return")
  /\ IF role = "server" THEN argc < 2 ELSE argc # 4
  /\ Same(<<rp, sfd, bound>>)

(* The server's wildcard addresses. *)
fetch_addresses ==
  /\ Goto("main", "socket")
  /\ role = "server" /\ argc >= 2
  /\ Same(<<rp, sfd, bound>>)

(* The addresses of the server a client is given; peer_addr is the first. *)
resolve ==
  /\ Goto("main", "socket")
  /\ role = "client" /\ argc = 4
  /\ Same(<<rp, sfd, bound>>)

(* getaddrinfo fails: exit. *)
obtainAddressesFails ==
  /\ Goto("main", "exit")
  /\ IF role = "server" THEN argc >= 2 ELSE argc = 4
  /\ Same(<<rp, sfd, bound>>)

(* udm_socket: the first entry for which socket succeeds. *)
socketFails ==
  /\ Goto("socket", IF rp < Len(results) THEN "socket" ELSE "exit")
  /\ rp' = rp + 1
  /\ Same(<<sfd, bound>>)

socket ==
  /\ pc = "socket"
  /\ \E fd \in FreeFds :
       /\ sfd' = [fd |-> fd, family |-> results[rp], open |-> TRUE]
       /\ pc' = IF role = "server" THEN "bind" ELSE IF fd > 0 THEN "file" ELSE "return"
  /\ rp' = 1
  /\ Same(bound)

(* udm_bind does nothing with descriptor 0. *)
bindSkipped ==
  /\ Goto("bind", "file")
  /\ sfd.fd = 0
  /\ Same(<<rp, sfd, bound>>)

Bindable(e) == results[e] = sfd.family /\ e \notin busy

bindAddress ==
  /\ Goto("bind", "file")
  /\ sfd.fd > 0 /\ sfd.open /\ Bindable(rp)
  /\ bound' = rp
  /\ Same(<<rp, sfd>>)

(* Mutant: main goes on after the last entry (the test of rp is missing). *)
bindFailsUnchecked ==
  /\ Goto("bind", IF rp < Len(results) THEN "bind" ELSE "file")
  /\ sfd.fd > 0 /\ ~(sfd.open /\ Bindable(rp))
  /\ rp' = rp + 1
  /\ sfd' = [sfd EXCEPT !.open = FALSE]
  /\ Same(bound)

(* The socket is closed, the next entry is tried with the closed one. *)
bindFails ==
  /\ Goto("bind", IF rp < Len(results) THEN "bind" ELSE "exit")
  /\ sfd.fd > 0 /\ ~(sfd.open /\ Bindable(rp))
  /\ rp' = rp + 1
  /\ sfd' = [sfd EXCEPT !.open = FALSE]
  /\ Same(bound)

(* The server's file: a missing one makes file_size throw, which main      *)
(* catches; an empty one ends the program.                                 *)
noSource ==
  /\ Goto("file", "return")
  /\ role = "server" /\ argc = 3
  /\ Same(<<rp, sfd, bound>>)

openSource ==
  /\ Goto("file", "session")
  /\ role = "server" /\ argc = 3
  /\ Same(<<rp, sfd, bound>>)

(* The client goes on whether or not its file could be opened. *)
openSink ==
  /\ Goto("file", "session")
  /\ role = "client"
  /\ Same(<<rp, sfd, bound>>)

(* Without a file argument the default name is copied to an uninitialised  *)
(* pointer: a crash, or the default file, present or not.                  *)
defaultSource ==
  /\ role = "server" /\ argc # 3
  /\ \E to \in {"crashed", "return", "session"} : Goto("file", to)
  /\ Same(<<rp, sfd, bound>>)

Setup ==
  \/ usage \/ fetch_addresses \/ resolve \/ obtainAddressesFails
  \/ socketFails \/ socket \/ bindSkipped \/ bindAddress \/ bindFails
  \/ noSource \/ openSource \/ openSink \/ defaultSource

SetupInit ==
  /\ role \in {"server", "client"}
  /\ argc \in 1..4
  /\ results \in ResultLists
  /\ busy \in SUBSET (1..Len(results))
  /\ pc = "main" /\ rp = 1 /\ sfd = NoSocket /\ bound = 0
=============================================================================
