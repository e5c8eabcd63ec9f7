----------------------------- MODULE PagosStripe -----------------------------
(***************************************************************************)
(* Payments of orders with Stripe (api/v1/endpoints/pagos.py).             *)
(*                                                                         *)
(* A payment is the local row of a PaymentIntent.  Clients ask for one,    *)
(* confirm it, refresh it from Stripe or refund it; Stripe charges on its  *)
(* own time and tells so with webhooks, which it delivers at least once    *)
(* and in any order.  Every request reads the payment, may call Stripe,    *)
(* reads the order and commits both in one transaction: other requests run *)
(* between those steps.                                                    *)
(***************************************************************************)
EXTENDS Naturals

CONSTANTS
  Pedido,     \* rows of pedidos
  Intento,    \* the PaymentIntents that may be created: bounds them
  PedidoDe,   \* PedidoDe[i]: pedido_id of intent i
  Peticion,   \* requests in flight at a time
  Repite,     \* Stripe may repeat an event that was answered
  MaxFallos   \* bound on the requests that are cut short

Ninguno == "ninguno"
PagoEstado == {"pendiente", "pagado", "fallido", "reembolsado"}
PedidoEstado == {"PENDIENTE", "CONFIRMADO", "CANCELADO"}
\* PaymentIntent.status; what has no branch of its own counts as processing.
IntentoEstado == {"requires_payment_method", "processing", "succeeded", "canceled"}
Evento == {"payment_intent.succeeded", "payment_intent.payment_failed", "charge.refunded"}

ASSUME PagosOK ==
  /\ Ninguno \notin Intento
  /\ PedidoDe \in [Intento -> Pedido]
  /\ Repite \in BOOLEAN
  /\ MaxFallos \in Nat

VARIABLES
  intento,      \* Stripe: status of each PaymentIntent
  reembolsados, \* Stripe: intents whose charge was refunded
  emitidos,     \* Stripe: events <<i, tipo>> sent at least once
  porEntregar,  \* Stripe: events that have not been answered 200
  pago,         \* pago[i]: pagos.estado of the row of i
  pedido,       \* pedido[d]: pedidos.estado
  pet,          \* pet[r]: where request r is and what it has read
  fallos        \* requests cut short so far

stripe == <<intento, reembolsados, emitidos, porEntregar>>
tablas == <<pago, pedido>>
vars == <<stripe, tablas, pet, fallos>>

Libre == [en |-> "libre", intento |-> Ninguno, evento |-> Ninguno,
          leido |-> Ninguno, meta |-> Ninguno, visto |-> Ninguno]

Init ==
  /\ intento = [i \in Intento |-> Ninguno]
  /\ reembolsados = {}
  /\ emitidos = {}
  /\ porEntregar = {}
  /\ pago = [i \in Intento |-> Ninguno]
  /\ pedido = [d \in Pedido |-> "PENDIENTE"]
  /\ pet = [r \in Peticion |-> Libre]
  /\ fallos = 0

\* The three apply_payment_* helpers: the estado each gives to the payment
\* and the one it gives to the order.
EstadoDelPedido(meta) == IF meta = "pagado" THEN "CONFIRMADO" ELSE "CANCELADO"

MetaDeEvento(tipo) ==
  CASE tipo = "payment_intent.succeeded" -> "pagado"
    [] tipo = "payment_intent.payment_failed" -> "fallido"
    [] tipo = "charge.refunded" -> "reembolsado"

\* Mutants: a charge in progress counts as made; the status is stored as it is.
MetaAnticipada(st) ==
  CASE st \in {"succeeded", "processing"} -> "pagado"
    [] OTHER -> "fallido"
MetaLiteral(st) == IF st = "succeeded" THEN "pagado" ELSE st

\* What POST /sync makes of the status of the intent.
MetaDeEstado(st) ==
  CASE st = "succeeded" -> "pagado"
    [] st \in {"requires_payment_method", "canceled"} -> "fallido"
    [] OTHER -> Ninguno

Empezar(r, paso) == pet[r] = Libre /\ pet' = [pet EXCEPT ![r] = paso]
Acabar(r) == pet' = [pet EXCEPT ![r] = Libre]
Emitir(i, tipo) ==
  /\ emitidos' = emitidos \cup {<<i, tipo>>}
  /\ porEntregar' = porEntregar \cup {<<i, tipo>>}

-----------------------------------------------------------------------------
(* Stripe and the client's browser.                                        *)

\* The client confirms with the client_secret that POST /crear returned.
ConfirmarCliente(i) ==
  /\ pago[i] # Ninguno
  /\ intento[i] = "requires_payment_method"
  /\ intento' = [intento EXCEPT ![i] = "processing"]
  /\ UNCHANGED <<reembolsados, emitidos, porEntregar, tablas, pet, fallos>>

Cobrar(i) ==
  /\ intento[i] = "processing"
  /\ intento' = [intento EXCEPT ![i] = "succeeded"]
  /\ Emitir(i, "payment_intent.succeeded")
  /\ UNCHANGED <<reembolsados, tablas, pet, fallos>>

\* A declined charge may be tried again with another card.
Rechazar(i) ==
  /\ intento[i] = "processing"
  /\ intento' = [intento EXCEPT ![i] = "requires_payment_method"]
  /\ Emitir(i, "payment_intent.payment_failed")
  /\ UNCHANGED <<reembolsados, tablas, pet, fallos>>

\* From Stripe's dashboard, or on expiry.  The webhook has no branch for it.
CancelarIntento(i) ==
  /\ intento[i] = "requires_payment_method"
  /\ intento' = [intento EXCEPT ![i] = "canceled"]
  /\ UNCHANGED <<reembolsados, emitidos, porEntregar, tablas, pet, fallos>>

-----------------------------------------------------------------------------
(* The requests.                                                           *)

\* POST /pagos/crear, up to its two queries.  The intent is the one that
\* Stripe is going to create for this request, whose idempotency key is new.
CrearPago(r, i) ==
  /\ intento[i] = Ninguno
  /\ \A o \in Peticion : pet[o].intento # i
  /\ \A j \in Intento : PedidoDe[j] = PedidoDe[i] => pago[j] # "pagado"
  /\ Empezar(r, [Libre EXCEPT !.en = "crear", !.intento = i])
  /\ UNCHANGED <<stripe, tablas, fallos>>

CrearIntento(r) ==
  /\ pet[r].en = "crear"
  /\ intento' = [intento EXCEPT ![pet[r].intento] = "requires_payment_method"]
  /\ pet' = [pet EXCEPT ![r].en = "insertar"]
  /\ UNCHANGED <<reembolsados, emitidos, porEntregar, tablas, fallos>>

InsertarPago(r) ==
  /\ pet[r].en = "insertar"
  /\ pago' = [pago EXCEPT ![pet[r].intento] = "pendiente"]
  /\ Acabar(r)
  /\ UNCHANGED <<stripe, pedido, fallos>>

\* POST /pagos/{id}/confirm-test: the row, then Stripe, which refuses an
\* intent that is not waiting for a payment method.
ConfirmarPagoTest(r, i) ==
  /\ pago[i] \notin {Ninguno, "pagado"}
  /\ Empezar(r, [Libre EXCEPT !.en = "confirmar", !.intento = i])
  /\ UNCHANGED <<stripe, tablas, fallos>>

ConfirmarIntento(r) ==
  LET i == pet[r].intento IN
  /\ pet[r].en = "confirmar"
  /\ intento' = IF intento[i] = "requires_payment_method"
                  THEN [intento EXCEPT ![i] = "processing"] ELSE intento
  /\ Acabar(r)
  /\ UNCHANGED <<reembolsados, emitidos, porEntregar, tablas, fallos>>

\* POST /pagos/{id}/sync: the row, then the status at Stripe.
SincronizarPago(r, i) ==
  /\ pago[i] # Ninguno
  /\ Empezar(r, [Libre EXCEPT !.en = "consultar", !.intento = i, !.leido = pago[i]])
  /\ UNCHANGED <<stripe, tablas, fallos>>

ConsultarIntento(r) ==
  LET meta == MetaDeEstado(intento[pet[r].intento]) IN
  /\ pet[r].en = "consultar"
  /\ IF meta = Ninguno
       THEN Acabar(r)
       ELSE pet' = [pet EXCEPT ![r].en = "pedido", ![r].meta = meta]
  /\ UNCHANGED <<stripe, tablas, fallos>>

\* POST /pagos/{id}/refund: the row, then Stripe, which refuses what it has
\* not charged or has already refunded.  The row waits for the webhook.
ReembolsarPago(r, i) ==
  /\ pago[i] = "pagado"
  /\ Empezar(r, [Libre EXCEPT !.en = "reembolsar", !.intento = i])
  /\ UNCHANGED <<stripe, tablas, fallos>>

ReembolsarIntento(r) ==
  LET i == pet[r].intento IN
  /\ pet[r].en = "reembolsar"
  /\ IF intento[i] = "succeeded" /\ i \notin reembolsados
       THEN /\ reembolsados' = reembolsados \cup {i}
            /\ Emitir(i, "charge.refunded")
       ELSE UNCHANGED <<reembolsados, emitidos, porEntregar>>
  /\ Acabar(r)
  /\ UNCHANGED <<intento, tablas, fallos>>

Entregables == IF Repite THEN emitidos ELSE porEntregar

\* Mutant: the event is answered 200 before it is processed.
WebhookRespondePrimero(r, i, tipo) ==
  /\ <<i, tipo>> \in Entregables
  /\ pago[i] # Ninguno
  /\ Empezar(r, [Libre EXCEPT !.en = "pedido", !.intento = i, !.evento = tipo,
                              !.leido = pago[i], !.meta = MetaDeEvento(tipo)])
  /\ porEntregar' = porEntregar \ {<<i, tipo>>}
  /\ UNCHANGED <<intento, reembolsados, emitidos, tablas, fallos>>

\* POST /pagos/webhook.
StripeWebhook(r, i, tipo) ==
  /\ <<i, tipo>> \in Entregables
  /\ pago[i] # Ninguno
  /\ Empezar(r, [Libre EXCEPT !.en = "pedido", !.intento = i, !.evento = tipo,
                              !.leido = pago[i], !.meta = MetaDeEvento(tipo)])
  /\ UNCHANGED <<stripe, tablas, fallos>>

\* apply_payment_*: the query of the order, then the commit.  SQLAlchemy
\* sends no UPDATE for a column that is set to the value it was loaded with.
LeerPedido(r) ==
  /\ pet[r].en = "pedido"
  /\ pet' = [pet EXCEPT ![r].en = "guardar", ![r].visto = pedido[PedidoDe[pet[r].intento]]]
  /\ UNCHANGED <<stripe, tablas, fallos>>

Guardar(r) ==
  LET i == pet[r].intento
      d == PedidoDe[i]
      final == EstadoDelPedido(pet[r].meta)
  IN
  /\ pet[r].en = "guardar"
  /\ pago' = IF pet[r].leido = pet[r].meta THEN pago
             ELSE [pago EXCEPT ![i] = pet[r].meta]
  /\ pedido' = IF pet[r].visto = final THEN pedido
               ELSE [pedido EXCEPT ![d] = final]
  /\ porEntregar' = porEntregar \ {<<i, pet[r].evento>>}
  /\ Acabar(r)
  /\ UNCHANGED <<intento, reembolsados, emitidos, fallos>>

\* A call to the database or to Stripe raises, or the process dies: nothing
\* more of the request happens, and a webhook is not answered 200.
Abortar(r) ==
  /\ pet[r] # Libre
  /\ fallos < MaxFallos
  /\ fallos' = fallos + 1
  /\ Acabar(r)
  /\ UNCHANGED <<stripe, tablas>>

-----------------------------------------------------------------------------
Externo(i) == ConfirmarCliente(i) \/ Cobrar(i) \/ Rechazar(i) \/ CancelarIntento(i)

Entrante(r, i) ==
  \/ CrearPago(r, i)
  \/ ConfirmarPagoTest(r, i)
  \/ SincronizarPago(r, i)
  \/ ReembolsarPago(r, i)
  \/ \E tipo \in Evento : StripeWebhook(r, i, tipo)

Avanzar(r) ==
  \/ CrearIntento(r)
  \/ InsertarPago(r)
  \/ ConfirmarIntento(r)
  \/ ConsultarIntento(r)
  \/ ReembolsarIntento(r)
  \/ LeerPedido(r)
  \/ Guardar(r)

Next ==
  \/ \E i \in Intento : Externo(i)
  \/ \E r \in Peticion, i \in Intento : Entrante(r, i)
  \/ \E r \in Peticion : Avanzar(r) \/ Abortar(r)

\* A request that was accepted goes on.  Stripe repeats an event until it is
\* answered 200, and finds one of the server's threads free now and then.
Entregar(i, tipo) ==
  /\ <<i, tipo>> \in porEntregar
  /\ \E r \in Peticion : StripeWebhook(r, i, tipo)

Justicia ==
  /\ \A r \in Peticion : WF_vars(Avanzar(r))
  /\ \A i \in Intento, tipo \in Evento : SF_vars(Entregar(i, tipo))

Spec == Init /\ [][Next]_vars
SpecJusta == Spec /\ Justicia
-----------------------------------------------------------------------------
(* Properties.                                                             *)

Paso == {"libre", "crear", "insertar", "confirmar", "consultar", "reembolsar",
         "pedido", "guardar"}

TypeOK ==
  /\ intento \in [Intento -> IntentoEstado \cup {Ninguno}]
  /\ reembolsados \in SUBSET Intento
  /\ emitidos \in SUBSET (Intento \X Evento)
  /\ porEntregar \in SUBSET emitidos
  /\ pago \in [Intento -> PagoEstado \cup {Ninguno}]
  /\ pedido \in [Pedido -> PedidoEstado]
  /\ pet \in [Peticion -> [en: Paso, intento: Intento \cup {Ninguno},
                           evento: Evento \cup {Ninguno},
                           leido: PagoEstado \cup {Ninguno},
                           meta: PagoEstado \cup {Ninguno},
                           visto: PedidoEstado \cup {Ninguno}]]
  /\ fallos \in 0..MaxFallos

\* Stripe is the source of truth: a payment is pagado only if its intent was
\* charged, and reembolsado only if the charge was refunded.
PagoRespaldado ==
  \A i \in Intento :
    /\ pago[i] = "pagado" => intento[i] = "succeeded"
    /\ pago[i] = "reembolsado" => i \in reembolsados

\* No order is confirmed that Stripe has charged nothing for.
ConfirmadoCobrado ==
  \A d \in Pedido : pedido[d] = "CONFIRMADO" =>
    \E i \in Intento : PedidoDe[i] = d /\ intento[i] = "succeeded"

\* A charge that the payment does not show yet is still to be announced: no
\* crash, error or concurrent request makes the server lose the webhook.
CobroAvisado ==
  \A i \in Intento : intento[i] = "succeeded" /\ pago[i] = "pendiente" =>
    <<i, "payment_intent.succeeded">> \in porEntregar

\* Every charge is recorded as one: however requests, events and failures fall,
\* there is a moment at which its payment says that it was paid.  That a late
\* event may then overwrite it is the matter of CicloDeVida.
CobroSeRegistra ==
  \A i \in Intento :
    (<>(intento[i] = "succeeded")) => <>(pago[i] \in {"pagado", "reembolsado"})

\* An order is never charged twice, however often its client tries to pay.
CobroUnico ==
  \A i, j \in Intento :
    /\ PedidoDe[i] = PedidoDe[j]
    /\ {intento[i], intento[j]} = {"succeeded"}
    => i = j

\* The life cycle of a payment: what was paid is at most refunded, and what was
\* refunded stays so.
CicloDeVida ==
  [][\A i \in Intento :
       /\ pago[i] = "pagado" => pago'[i] \in {"pagado", "reembolsado"}
       /\ pago[i] = "reembolsado" => pago'[i] = "reembolsado"]_vars
=============================================================================
