---------------------------- MODULE FileTransfer ----------------------------
(***************************************************************************)
(* What the two programs promise together: the client's file grows by      *)
(* pieces of the server's file and is never anything but a prefix of it,   *)
(* the client returns when it has the whole file and not before, and the   *)
(* server returns after the client has.  Windows, capsules, addresses and  *)
(* connections do not show.                                                *)
(***************************************************************************)
EXTENDS Naturals, Sequences

CONSTANT FileSizes

VARIABLES
  fileSize,    \* size of the server's file
  received,    \* Seq(Nat): the bytes in the client's file, each as its offset
  clientDone,  \* udm_rxstart has returned
  serverDone   \* udm_txstart has returned

vars == <<fileSize, received, clientDone, serverDone>>

(* The first n bytes of the server's file. *)
Prefix(n) == [i \in 1..n |-> i - 1]

Init ==
  /\ fileSize \in FileSizes
  /\ received = <<>>
  /\ clientDone = FALSE /\ serverDone = FALSE

(* Some more of the file arrives; the client may return if this was all. *)
Receive ==
  /\ ~clientDone
  /\ \E n \in Len(received) + 1 .. fileSize :
       /\ received' = Prefix(n)
       /\ clientDone' \in {FALSE, n = fileSize}
  /\ UNCHANGED <<fileSize, serverDone>>

ClientReturn ==
  /\ ~clientDone
  /\ received = Prefix(fileSize)
  /\ clientDone' = TRUE
  /\ UNCHANGED <<fileSize, received, serverDone>>

ServerReturn ==
  /\ clientDone /\ ~serverDone
  /\ serverDone' = TRUE
  /\ UNCHANGED <<fileSize, received, clientDone>>

Next == Receive \/ ClientReturn \/ ServerReturn

Spec == Init /\ [][Next]_vars /\ WF_vars(Next)
=============================================================================
