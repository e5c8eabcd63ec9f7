----------------------------- MODULE CicloPedido -----------------------------
(***************************************************************************)
(* What the order saga promises of one order, independently of how it is   *)
(* executed: an order is created pending; its stock is taken at most once  *)
(* and given back at most once, and only while it is pending; it is        *)
(* confirmed only while it holds its stock, and cancelled, if nothing      *)
(* failed underneath, only while it does not.  Both ends are final.        *)
(***************************************************************************)
CONSTANT Pedido

VARIABLES
  estado,  \* estado[p]: pedidos.estado, NINGUNO before the row exists
  saldo,   \* saldo[p]: libre, retenido (stock taken) or devuelto
  hubo     \* a fault of the infrastructure has happened

vars == <<estado, saldo, hubo>>

Init ==
  /\ estado = [p \in Pedido |-> "NINGUNO"]
  /\ saldo = [p \in Pedido |-> "libre"]
  /\ hubo = FALSE

Crear(p) ==
  /\ estado[p] = "NINGUNO"
  /\ estado' = [estado EXCEPT ![p] = "PENDIENTE"]
  /\ UNCHANGED <<saldo, hubo>>

Retener(p) ==
  /\ estado[p] = "PENDIENTE" /\ saldo[p] = "libre"
  /\ saldo' = [saldo EXCEPT ![p] = "retenido"]
  /\ UNCHANGED <<estado, hubo>>

Devolver(p) ==
  /\ estado[p] = "PENDIENTE" /\ saldo[p] = "retenido"
  /\ saldo' = [saldo EXCEPT ![p] = "devuelto"]
  /\ UNCHANGED <<estado, hubo>>

Confirmar(p) ==
  /\ estado[p] = "PENDIENTE" /\ saldo[p] = "retenido"
  /\ estado' = [estado EXCEPT ![p] = "CONFIRMADO"]
  /\ UNCHANGED <<saldo, hubo>>

\* After a fault a cancelled order may keep the stock it took.
Cancelar(p) ==
  /\ estado[p] = "PENDIENTE"
  /\ saldo[p] = "retenido" => hubo
  /\ estado' = [estado EXCEPT ![p] = "CANCELADO"]
  /\ UNCHANGED <<saldo, hubo>>

Fallar ==
  /\ hubo' = TRUE
  /\ UNCHANGED <<estado, saldo>>

Next ==
  \/ \E p \in Pedido :
       Crear(p) \/ Retener(p) \/ Devolver(p) \/ Confirmar(p) \/ Cancelar(p)
  \/ Fallar

Spec == Init /\ [][Next]_vars
=============================================================================
