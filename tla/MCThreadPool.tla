---------------------------- MODULE MCThreadPool ----------------------------
(* A host with no, one and two hardware threads. *)
EXTENDS ThreadPool

CONSTANTS w1, w2

MCWorkers == {w1, w2}
MCPools == {{}, {w1}, {w1, w2}}
=============================================================================
