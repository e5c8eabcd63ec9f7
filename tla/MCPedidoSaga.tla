---------------------------- MODULE MCPedidoSaga ----------------------------
(* Instances of PedidoSaga for TLC: one order under several faults, with    *)
(* and without stock for it; and two orders of two units each for one item   *)
(* that starts with four units, so that their handlers overlap on it, or     *)
(* with three, so that RESERVAR_STOCK fails for want of stock unless the     *)
(* other order gives its units back first.                                   *)
EXTENDS PedidoSaga, TLC

CONSTANTS s1, s2, p1, p2, i1

Simetria == Permutations({s1, s2})

UnItem == [s \in {s1} |-> i1]
MismoItem == [s \in {s1, s2} |-> i1]
Dos == [s \in {s1} |-> 2]
DosCadaUno == [s \in {s1, s2} |-> 2]
UnoOTres == {[i \in {i1} |-> n] : n \in {1, 3}}
TresOCuatro == {[i \in {i1} |-> n] : n \in {3, 4}}
SoloTres == {[i \in {i1} |-> 3]}

TodasLasBanderas == SUBSET PasoForzable
ConYSinCobro == {{}, {"COBRAR_PAGO"}}
=============================================================================
