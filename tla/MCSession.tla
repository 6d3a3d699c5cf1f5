----------------------------- MODULE MCSession -----------------------------
(* Small instances of Session for TLC. *)
EXTENDS SessionRefinement

CONSTANTS a1, a2

MCAddr == {Lo, a1, a2}

(* The loopback address in front, in the middle and absent, with one and   *)
(* with two other addresses.                                               *)
MCRoutable == {<<Lo, a1>>, <<a2, Lo, a1>>, <<a2>>}

MCWithLoopbackOnly == MCRoutable \cup {<<Lo>>}
MCLoopbackOnly == {<<Lo>>}
MCTwoPaths == {<<Lo, a1, a2>>}
=============================================================================
