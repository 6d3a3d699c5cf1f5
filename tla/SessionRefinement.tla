------------------------- MODULE SessionRefinement -------------------------
(***************************************************************************)
(* How the two state machines of Session appear as the abstract file       *)
(* transfer: the client's file as the bytes in it, the ends as having      *)
(* returned or not.                                                        *)
(***************************************************************************)
EXTENDS Session, SequencesExt

(* The bytes of the client's file, each as its offset in the server's. *)
Written ==
  FlattenSeq([i \in DOMAIN sink |-> [j \in 1..sink[i].len |-> sink[i].off + j - 1]])

Transfer ==
  INSTANCE FileTransfer WITH
    received <- Written, clientDone <- Returned(RX), serverDone <- Returned(TX)

(* Refinement: when no datagram is lost, reordered or duplicated, the two  *)
(* state machines together implement the abstract file transfer, liveness  *)
(* included: nothing but a prefix of the file is ever written, the client  *)
(* returns with all of it, the server returns after the client.            *)
TransfersFile == Transfer!Spec

(* Refinement until something is lost or repeated or a second client has   *)
(* spoken: every step up to then is a step of the abstract file transfer   *)
(* or does not show, though either process may die and the server may exit *)
(* on an empty buffer (datafactory.h:142) without its last payload         *)
(* carrying FIN.                                                           *)
RefinesUntilFault ==
  Transfer!Init /\ [][(lost = 0 /\ Undisturbed)' => Transfer!Next]_(Transfer!vars)
=============================================================================
