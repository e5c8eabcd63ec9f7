--------------------------- MODULE MCPagosStripe ---------------------------
(* Instance of PagosStripe for TLC: one order that may be paid twice, with   *)
(* two requests in flight.                                                   *)
EXTENDS PagosStripe

CONSTANTS d1, i1, i2, r1, r2

UnPedido == [i \in {i1, i2} |-> d1]
UnIntento == [i \in {i1} |-> d1]
=============================================================================
