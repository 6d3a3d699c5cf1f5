----------------------------- MODULE MCStartup -----------------------------
(* The wildcard address of one family or of both, in either order, and     *)
(* hosts with no and with two interfaces.                                  *)
EXTENDS Startup

CONSTANTS a1, a2, v4, v6

MCFamilies == {v4, v6}
MCResults == {<<v4>>, <<v4, v6>>, <<v6, v4>>}
MCInterfaces == {<<>>, <<a2, a1>>}
=============================================================================
