----------------------------- MODULE PedidoSaga -----------------------------
(***************************************************************************)
(* The order saga (app/saga): a choreography over seven durable RabbitMQ   *)
(* queues.  Every queue has one handler coroutine in each consumer         *)
(* process; a handler records its step in saga_log, commits its effect on  *)
(* the order or on the item's stock, updates the log and publishes the     *)
(* message of the next step.                                               *)
(*                                                                         *)
(* Every database commit and every call to the broker is a step of its     *)
(* own, so a process may die, and another process may run, between any two *)
(* of them.  The handlers of one process share an event loop and yield it  *)
(* only while they publish (Ocupado).                                      *)
(***************************************************************************)
EXTENDS Integers

CONSTANTS
  Saga,          \* saga ids that clients may start
  Proceso,       \* processes running run_saga_consumers
  Item,          \* rows of items
  ItemDe,        \* ItemDe[s]: item_id of the payload, possibly not in Item
  Cantidad,      \* Cantidad[s]: cantidad of the payload
  Existencias,   \* the values items.stock may have before any saga
  Banderas,      \* sets of steps a payload may force to fail
  Fallas,        \* the kinds of fault that may happen (see TipoFalla)
  MaxFallos      \* bound on the number of faults of a behaviour

Paso == {"CREATE_PEDIDO", "RESERVAR_STOCK", "COBRAR_PAGO", "NOTIFICAR_CLIENTE",
         "CONFIRMAR_PEDIDO", "COMPENSAR_STOCK", "CANCELAR_PEDIDO"}
SagaStatus == {"PENDING", "COMPLETED", "FAILED", "COMPENSATING", "COMPENSATED"}
PedidoEstado == {"PENDIENTE", "CONFIRMADO", "CANCELADO"}
Ninguno == "NINGUNO"     \* no row

\* caida: a consumer process dies and is started again.  publicar: a publish raises and the broker
\* has nothing.  ambigua: a publish raises after the broker took the message.
\* bd: a database call raises.  conexion: the broker drops the connection of
\* a live process and redelivers what it had not acknowledged.
TipoFalla == {"caida", "publicar", "ambigua", "bd", "conexion"}

\* Steps whose force_*_fail flag the payload may set.
PasoForzable == {"RESERVAR_STOCK", "COBRAR_PAGO", "NOTIFICAR_CLIENTE"}
PasoCompensacion == {"COMPENSAR_STOCK", "CANCELAR_PEDIDO"}

\* The queue a handler publishes to after its effect, and the one it
\* publishes to from its except branch.
Siguiente(q) ==
  CASE q = "CREATE_PEDIDO"     -> "RESERVAR_STOCK"
    [] q = "RESERVAR_STOCK"    -> "COBRAR_PAGO"
    [] q = "COBRAR_PAGO"       -> "NOTIFICAR_CLIENTE"
    [] q = "NOTIFICAR_CLIENTE" -> "CONFIRMAR_PEDIDO"
    [] q = "COMPENSAR_STOCK"   -> "CANCELAR_PEDIDO"
    [] OTHER                   -> Ninguno

\* Mutants: a failed reservation gives stock back; a failed charge only
\* cancels; only RESERVAR_STOCK compensates.
CompensacionDeMas(q) ==
  IF q \in {"RESERVAR_STOCK", "COBRAR_PAGO", "NOTIFICAR_CLIENTE"}
    THEN "COMPENSAR_STOCK" ELSE Ninguno
CompensacionSinStock(q) ==
  CASE q \in {"RESERVAR_STOCK", "COBRAR_PAGO"} -> "CANCELAR_PEDIDO"
    [] q = "NOTIFICAR_CLIENTE" -> "COMPENSAR_STOCK"
    [] OTHER -> Ninguno
CompensacionParcial(q) == IF q = "RESERVAR_STOCK" THEN "CANCELAR_PEDIDO" ELSE Ninguno

Compensacion(q) ==
  CASE q = "RESERVAR_STOCK" -> "CANCELAR_PEDIDO"
    [] q \in {"COBRAR_PAGO", "NOTIFICAR_CLIENTE"} -> "COMPENSAR_STOCK"
    [] OTHER -> Ninguno

ASSUME ConstantesOK ==
  /\ Ninguno \notin Saga \cup Item
  /\ DOMAIN ItemDe = Saga
  /\ Cantidad \in [Saga -> Nat \ {0}]
  /\ Existencias \subseteq [Item -> Nat]
  /\ Banderas \subseteq SUBSET PasoForzable
  /\ Fallas \subseteq TipoFalla
  /\ MaxFallos \in Nat

VARIABLES
  cola,         \* cola[q][s]: messages of saga s ready in queue q
  pc,           \* pc[p][q]: where the handler of queue q in process p is
  actual,       \* actual[p][q]: saga of the message it is handling
  entrega,      \* entrega[p][q]: its delivery is still its own
  leido,        \* leido[p][q]: the item.stock it has read
  log,          \* log[s][q]: saga_log.status of (s, q)
  estado,       \* estado[s]: pedidos.estado of saga s
  stock,        \* stock[i]: items.stock
  forzadas,     \* forzadas[s]: steps the payload makes fail
  iniciadas,    \* sagas started by POST /sagas/pedidos
  reservas,     \* history: commits of item.stock -= cantidad, by saga
  liberaciones, \* history: commits of item.stock += cantidad, by saga
  fallos        \* faults so far

vars == <<cola, pc, actual, entrega, leido, log, estado, stock, forzadas,
          iniciadas, reservas, liberaciones, fallos>>

PC == {"libre", "crear", "compensando", "efecto", "escribir", "completar",
       "publicar", "fallo", "compensar", "ack"}
\* Mutant: an await between the read of the stock and its commit.
SincronoConAwait == {"crear", "compensando", "efecto", "completar", "fallo"}

Sincrono == {"crear", "compensando", "efecto", "escribir", "completar", "fallo"}

Init ==
  /\ cola = [q \in Paso |-> [s \in Saga |-> 0]]
  /\ pc = [p \in Proceso |-> [q \in Paso |-> "libre"]]
  /\ actual = [p \in Proceso |-> [q \in Paso |-> Ninguno]]
  /\ entrega = [p \in Proceso |-> [q \in Paso |-> FALSE]]
  /\ leido = [p \in Proceso |-> [q \in Paso |-> 0]]
  /\ log = [s \in Saga |-> [q \in Paso |-> Ninguno]]
  /\ estado = [s \in Saga |-> Ninguno]
  /\ stock \in Existencias
  /\ forzadas = [s \in Saga |-> {}]
  /\ iniciadas = {}
  /\ reservas = [s \in Saga |-> 0]
  /\ liberaciones = [s \in Saga |-> 0]
  /\ fallos = 0

-----------------------------------------------------------------------------
tablas == <<log, estado, stock, reservas, liberaciones>>
peticion == <<forzadas, iniciadas>>
manejador == <<actual, entrega, leido>>

\* A handler is between two awaits: no other handler of p can run.
Ocupado(p) == \E q \in Paso : pc[p][q] \in Sincrono

Falla(tipo) ==
  /\ tipo \in Fallas
  /\ fallos < MaxFallos
  /\ fallos' = fallos + 1

Ir(p, q, l) == pc' = [pc EXCEPT ![p][q] = l]
EnCola(q, s) == cola' = [cola EXCEPT ![q][s] = @ + 1]
Marcar(s, q, st) == log' = [log EXCEPT ![s][q] = st]

\* The process ends, and is started again later.
Parar(p) ==
  /\ pc' = [pc EXCEPT ![p] = [q \in Paso |-> "libre"]]
  /\ actual' = [actual EXCEPT ![p] = [q \in Paso |-> Ninguno]]
  /\ entrega' = [entrega EXCEPT ![p] = [q \in Paso |-> FALSE]]
  /\ leido' = [leido EXCEPT ![p] = [q \in Paso |-> 0]]

\* The queues once the broker has taken back the deliveries of p in Q that
\* were not acknowledged.
Devuelta(p, Q) ==
  [q \in Paso |-> [s \in Saga |->
     cola[q][s] + IF q \in Q /\ actual[p][q] = s /\ entrega[p][q] THEN 1 ELSE 0]]

\* An exception leaves the handler of q: its message is rejected without
\* requeue, the exception ends the loop of the queue, gather raises it and
\* run_saga_consumers closes the connection and ends the process.
Levantar(p, q) == cola' = Devuelta(p, Paso \ {q}) /\ Parar(p)

\* POST /sagas/pedidos.  The flags are the client's.
IniciarSaga(s, F) ==
  /\ s \notin iniciadas
  /\ iniciadas' = iniciadas \cup {s}
  /\ forzadas' = [forzadas EXCEPT ![s] = F]
  /\ EnCola("CREATE_PEDIDO", s)
  /\ UNCHANGED <<pc, manejador, tablas, fallos>>

-----------------------------------------------------------------------------
(* What every handler does.                                                *)

\* Mutants: only a finished step counts as processed; a failed step is retried.
YaTerminado(s, q) == log[s][q] \in {"COMPLETED", "COMPENSATED"}
YaLogrado(s, q) == log[s][q] \notin {Ninguno, "FAILED"}

YaProcesado(s, q) == log[s][q] # Ninguno

\* The loop of queue q takes a message whose step has no row yet.
Recibir(p, q, s) ==
  /\ pc[p][q] = "libre"
  /\ ~Ocupado(p)
  /\ cola[q][s] > 0
  /\ ~YaProcesado(s, q)
  /\ cola' = [cola EXCEPT ![q][s] = @ - 1]
  /\ Ir(p, q, "crear")
  /\ actual' = [actual EXCEPT ![p][q] = s]
  /\ entrega' = [entrega EXCEPT ![p][q] = TRUE]
  /\ UNCHANGED <<leido, tablas, peticion, fallos>>

\* A message whose step has a row, whatever its status, is acknowledged.
Descartar(p, q, s) ==
  /\ pc[p][q] = "libre"
  /\ ~Ocupado(p)
  /\ cola[q][s] > 0
  /\ YaProcesado(s, q)
  /\ cola' = [cola EXCEPT ![q][s] = @ - 1]
  /\ UNCHANGED <<pc, manejador, tablas, peticion, fallos>>

\* SagaRepository.create_step: insert PENDING; on a duplicate key roll back,
\* return the row that exists and let the handler go on.
CrearPaso(p, q) ==
  LET s == actual[p][q] IN
  /\ pc[p][q] = "crear"
  /\ IF YaProcesado(s, q) THEN UNCHANGED log ELSE Marcar(s, q, "PENDING")
  /\ Ir(p, q, IF q \in PasoCompensacion THEN "compensando" ELSE "efecto")
  /\ UNCHANGED <<cola, manejador, estado, stock, reservas, liberaciones, peticion, fallos>>

MarcarCompensando(p, q) ==
  /\ pc[p][q] = "compensando"
  /\ Marcar(actual[p][q], q, "COMPENSATING")
  /\ Ir(p, q, "efecto")
  /\ UNCHANGED <<cola, manejador, estado, stock, reservas, liberaciones, peticion, fallos>>

\* update_status after the effect's commit.
Completar(p, q) ==
  /\ pc[p][q] = "completar"
  /\ Marcar(actual[p][q], q,
            IF q \in PasoCompensacion THEN "COMPENSATED" ELSE "COMPLETED")
  /\ Ir(p, q, IF Siguiente(q) = Ninguno THEN "ack" ELSE "publicar")
  /\ UNCHANGED <<cola, manejador, estado, stock, reservas, liberaciones, peticion, fallos>>

Publicar(p, q) ==
  /\ pc[p][q] = "publicar"
  /\ EnCola(Siguiente(q), actual[p][q])
  /\ Ir(p, q, "ack")
  /\ UNCHANGED <<manejador, tablas, peticion, fallos>>

\* The except branch: roll back and update_status(FAILED), which does nothing
\* without a row.  The first three business steps then publish a
\* compensation; the others raise.
RegistrarFallo(p, q) ==
  LET s == actual[p][q] IN
  /\ pc[p][q] = "fallo"
  /\ IF YaProcesado(s, q) THEN Marcar(s, q, "FAILED") ELSE UNCHANGED log
  /\ IF Compensacion(q) = Ninguno
       THEN Levantar(p, q)
       ELSE Ir(p, q, "compensar") /\ UNCHANGED <<cola, manejador>>
  /\ UNCHANGED <<estado, stock, reservas, liberaciones, peticion, fallos>>

PublicarCompensacion(p, q) ==
  /\ pc[p][q] = "compensar"
  /\ EnCola(Compensacion(q), actual[p][q])
  /\ Ir(p, q, "ack")
  /\ UNCHANGED <<manejador, tablas, peticion, fallos>>

Ack(p, q) ==
  /\ pc[p][q] = "ack"
  /\ Ir(p, q, "libre")
  /\ actual' = [actual EXCEPT ![p][q] = Ninguno]
  /\ entrega' = [entrega EXCEPT ![p][q] = FALSE]
  /\ leido' = [leido EXCEPT ![p][q] = 0]
  /\ UNCHANGED <<cola, tablas, peticion, fallos>>

-----------------------------------------------------------------------------
(* The effect of each handler.                                             *)

CrearPedido(p) ==
  LET q == "CREATE_PEDIDO"  s == actual[p][q] IN
  /\ pc[p][q] = "efecto"
  /\ IF estado[s] # Ninguno          \* pedidos.saga_id is unique
       THEN Ir(p, q, "fallo") /\ UNCHANGED estado
       ELSE Ir(p, q, "completar") /\ estado' = [estado EXCEPT ![s] = "PENDIENTE"]
  /\ UNCHANGED <<cola, manejador, log, stock, reservas, liberaciones, peticion, fallos>>

\* Mutant: the stock is not compared with the quantity.
PuedeReservarSinStock(s) ==
  /\ estado[s] # Ninguno
  /\ ItemDe[s] \in Item
  /\ "RESERVAR_STOCK" \notin forzadas[s]

PuedeReservar(s) ==
  /\ estado[s] # Ninguno
  /\ ItemDe[s] \in Item
  /\ "RESERVAR_STOCK" \notin forzadas[s]
  /\ stock[ItemDe[s]] >= Cantidad[s]

LeerReserva(p) ==
  LET q == "RESERVAR_STOCK"  s == actual[p][q] IN
  /\ pc[p][q] = "efecto"
  /\ IF PuedeReservar(s)
       THEN Ir(p, q, "escribir") /\ leido' = [leido EXCEPT ![p][q] = stock[ItemDe[s]]]
       ELSE Ir(p, q, "fallo") /\ UNCHANGED leido
  /\ UNCHANGED <<cola, actual, entrega, tablas, peticion, fallos>>

\* item.stock -= cantidad: the UPDATE carries the value computed from the read.
EscribirReserva(p) ==
  LET q == "RESERVAR_STOCK"  s == actual[p][q] IN
  /\ pc[p][q] = "escribir"
  /\ stock' = [stock EXCEPT ![ItemDe[s]] = leido[p][q] - Cantidad[s]]
  /\ reservas' = [reservas EXCEPT ![s] = @ + 1]
  /\ Ir(p, q, "completar")
  /\ UNCHANGED <<cola, manejador, log, estado, liberaciones, peticion, fallos>>

\* The charge and the notification are simulated: only the flag decides.
CobrarPago(p) ==
  LET q == "COBRAR_PAGO" IN
  /\ pc[p][q] = "efecto"
  /\ Ir(p, q, IF q \in forzadas[actual[p][q]] THEN "fallo" ELSE "completar")
  /\ UNCHANGED <<cola, manejador, tablas, peticion, fallos>>

NotificarCliente(p) ==
  LET q == "NOTIFICAR_CLIENTE" IN
  /\ pc[p][q] = "efecto"
  /\ Ir(p, q, IF q \in forzadas[actual[p][q]] THEN "fallo" ELSE "completar")
  /\ UNCHANGED <<cola, manejador, tablas, peticion, fallos>>

\* CONFIRMAR_PEDIDO and CANCELAR_PEDIDO overwrite whatever estado is there.
Cerrar(p, q, final) ==
  LET s == actual[p][q] IN
  /\ pc[p][q] = "efecto"
  /\ IF estado[s] = Ninguno
       THEN Ir(p, q, "fallo") /\ UNCHANGED estado
       ELSE Ir(p, q, "completar") /\ estado' = [estado EXCEPT ![s] = final]
  /\ UNCHANGED <<cola, manejador, log, stock, reservas, liberaciones, peticion, fallos>>

ConfirmarPedido(p) == Cerrar(p, "CONFIRMAR_PEDIDO", "CONFIRMADO")
CancelarPedido(p) == Cerrar(p, "CANCELAR_PEDIDO", "CANCELADO")

LeerCompensacion(p) ==
  LET q == "COMPENSAR_STOCK"  s == actual[p][q] IN
  /\ pc[p][q] = "efecto"
  /\ IF estado[s] # Ninguno /\ ItemDe[s] \in Item
       THEN Ir(p, q, "escribir") /\ leido' = [leido EXCEPT ![p][q] = stock[ItemDe[s]]]
       ELSE Ir(p, q, "fallo") /\ UNCHANGED leido
  /\ UNCHANGED <<cola, actual, entrega, tablas, peticion, fallos>>

EscribirCompensacion(p) ==
  LET q == "COMPENSAR_STOCK"  s == actual[p][q] IN
  /\ pc[p][q] = "escribir"
  /\ stock' = [stock EXCEPT ![ItemDe[s]] = leido[p][q] + Cantidad[s]]
  /\ liberaciones' = [liberaciones EXCEPT ![s] = @ + 1]
  /\ Ir(p, q, "completar")
  /\ UNCHANGED <<cola, manejador, log, estado, reservas, peticion, fallos>>

-----------------------------------------------------------------------------
(* Faults.                                                                 *)

\* A publish in the try block raises: the except branch runs.
FallaPublicar(p, q) ==
  /\ pc[p][q] = "publicar"
  /\ ~Ocupado(p)
  /\ \/ Falla("publicar") /\ UNCHANGED cola
     \/ Falla("ambigua") /\ EnCola(Siguiente(q), actual[p][q])
  /\ Ir(p, q, "fallo")
  /\ UNCHANGED <<manejador, tablas, peticion>>

\* A publish in the except branch raises, before or after the broker took
\* the message.
FallaCompensar(p, q) ==
  /\ pc[p][q] = "compensar"
  /\ ~Ocupado(p)
  /\ \/ Falla("publicar") /\ cola' = Devuelta(p, Paso \ {q})
     \/ /\ Falla("ambigua")
        /\ cola' = [Devuelta(p, Paso \ {q}) EXCEPT ![Compensacion(q)][actual[p][q]] = @ + 1]
  /\ Parar(p)
  /\ UNCHANGED <<tablas, peticion>>

\* The last line of the try block of most handlers reads pedido.id or item.id
\* again: update_status has committed, which expires them.
Relee(p, q) ==
  /\ pc[p][q] = "ack"
  /\ ~Ocupado(p)
  /\ q \notin {"COBRAR_PAGO", "NOTIFICAR_CLIENTE"}
  /\ log[actual[p][q]][q] \in {"COMPLETED", "COMPENSATED"}

\* A query or commit of the try block raises.
FallaBD(p, q) ==
  /\ \/ /\ pc[p][q] \in Sincrono \ {"fallo"}
        /\ pc[p][q] = "efecto" => q \notin {"COBRAR_PAGO", "NOTIFICAR_CLIENTE"}
     \/ Relee(p, q)
  /\ Falla("bd")
  /\ Ir(p, q, "fallo")
  /\ UNCHANGED <<cola, manejador, tablas, peticion>>

\* The query of already_processed raises: the except branch runs for a message
\* that was not looked up, also when its step was processed before.
FallaConsulta(p, q, s) ==
  /\ pc[p][q] = "libre"
  /\ ~Ocupado(p)
  /\ cola[q][s] > 0
  /\ Falla("bd")
  /\ cola' = [cola EXCEPT ![q][s] = @ - 1]
  /\ Ir(p, q, "fallo")
  /\ actual' = [actual EXCEPT ![p][q] = s]
  /\ entrega' = [entrega EXCEPT ![p][q] = TRUE]
  /\ UNCHANGED <<leido, tablas, peticion>>

\* update_status(FAILED) itself raises: no compensation is published.
FallaRegistro(p, q) ==
  /\ pc[p][q] = "fallo"
  /\ Falla("bd")
  /\ Levantar(p, q)
  /\ UNCHANGED <<tablas, peticion>>

Caida(p) ==
  /\ Falla("caida")
  /\ cola' = Devuelta(p, Paso)
  /\ Parar(p)
  /\ UNCHANGED <<tablas, peticion>>

\* The handlers of p go on running, but their deliveries are no longer theirs.
ConexionPerdida(p) ==
  /\ \E q \in Paso : entrega[p][q]
  /\ Falla("conexion")
  /\ cola' = Devuelta(p, Paso)
  /\ entrega' = [entrega EXCEPT ![p] = [q \in Paso |-> FALSE]]
  /\ UNCHANGED <<pc, actual, leido, tablas, peticion>>

-----------------------------------------------------------------------------
Comun(p, q) ==
  \/ \E s \in Saga : Recibir(p, q, s) \/ Descartar(p, q, s)
  \/ CrearPaso(p, q)
  \/ MarcarCompensando(p, q)
  \/ Completar(p, q)
  \/ Publicar(p, q)
  \/ RegistrarFallo(p, q)
  \/ PublicarCompensacion(p, q)
  \/ Ack(p, q)

Efecto(p, q) ==
  \/ q = "CREATE_PEDIDO" /\ CrearPedido(p)
  \/ q = "RESERVAR_STOCK" /\ (LeerReserva(p) \/ EscribirReserva(p))
  \/ q = "COBRAR_PAGO" /\ CobrarPago(p)
  \/ q = "NOTIFICAR_CLIENTE" /\ NotificarCliente(p)
  \/ q = "CONFIRMAR_PEDIDO" /\ ConfirmarPedido(p)
  \/ q = "COMPENSAR_STOCK" /\ (LeerCompensacion(p) \/ EscribirCompensacion(p))
  \/ q = "CANCELAR_PEDIDO" /\ CancelarPedido(p)

Manejar(p, q) == Comun(p, q) \/ Efecto(p, q)

Fallar(p) ==
  \/ \E q \in Paso : \/ FallaPublicar(p, q)
                     \/ FallaCompensar(p, q)
                     \/ FallaBD(p, q)
                     \/ FallaRegistro(p, q)
                     \/ \E s \in Saga : FallaConsulta(p, q, s)
  \/ Caida(p)
  \/ ConexionPerdida(p)

Next ==
  \/ \E s \in Saga, F \in Banderas : IniciarSaga(s, F)
  \/ \E p \in Proceso, q \in Paso : Manejar(p, q)
  \/ \E p \in Proceso : Fallar(p)

\* A process that is up runs its handlers; clients and faults owe nothing.
Justicia == \A p \in Proceso, q \in Paso : WF_vars(Manejar(p, q))

Spec == Init /\ [][Next]_vars
SpecJusta == Spec /\ Justicia
-----------------------------------------------------------------------------
(* Properties.                                                             *)

\* Every variable has its type.  In particular no handler ever commits a
\* negative items.stock: the guard of RESERVAR_STOCK covers the value written
\* even when other writers ran since it was read.
TypeOK ==
  /\ cola \in [Paso -> [Saga -> Nat]]
  /\ pc \in [Proceso -> [Paso -> PC]]
  /\ actual \in [Proceso -> [Paso -> Saga \cup {Ninguno}]]
  /\ entrega \in [Proceso -> [Paso -> BOOLEAN]]
  /\ leido \in [Proceso -> [Paso -> Nat]]
  /\ log \in [Saga -> [Paso -> SagaStatus \cup {Ninguno}]]
  /\ estado \in [Saga -> PedidoEstado \cup {Ninguno}]
  /\ stock \in [Item -> Nat]
  /\ forzadas \in [Saga -> SUBSET PasoForzable]
  /\ iniciadas \in SUBSET Saga
  /\ reservas \in [Saga -> Nat]
  /\ liberaciones \in [Saga -> Nat]
  /\ fallos \in 0..MaxFallos

\* Whatever fails and however many processes consume the queues, an order is
\* charged, confirmed or compensated only after its stock was taken.
ReservaRespalda ==
  \A s \in Saga :
    \/ log[s]["COBRAR_PAGO"] # Ninguno
    \/ estado[s] = "CONFIRMADO"
    \/ liberaciones[s] > 0
    => reservas[s] > 0

\* saga_log makes a redelivered message harmless: the stock of an order is
\* taken at most once and given back at most once.
EfectoUnaVez == \A s \in Saga : reservas[s] <= 1 /\ liberaciones[s] <= 1

\* The choreography takes one of its two ends: an order being confirmed is
\* not being compensated or cancelled too.
DesenlaceUnico ==
  \A s \in Saga :
    log[s]["CONFIRMAR_PEDIDO"] # Ninguno =>
      /\ log[s]["COMPENSAR_STOCK"] = Ninguno
      /\ log[s]["CANCELAR_PEDIDO"] = Ninguno
      /\ liberaciones[s] = 0

\* An entry of the books: a commit of the stock for an order adds or takes
\* the quantity of that order, measured on the stock it overwrites, and
\* nothing else touches the stock.
Asiento ==
  /\ \A s \in Saga :
       /\ reservas'[s] # reservas[s] =>
            stock'[ItemDe[s]] = stock[ItemDe[s]] - Cantidad[s]
       /\ liberaciones'[s] # liberaciones[s] =>
            stock'[ItemDe[s]] = stock[ItemDe[s]] + Cantidad[s]
  /\ \A i \in Item : stock'[i] # stock[i] =>
       \E s \in Saga : /\ ItemDe[s] = i
                      /\ \/ reservas'[s] # reservas[s]
                         \/ liberaciones'[s] # liberaciones[s]

\* The books balance: no write of the stock swallows that of another handler.
LibroDeStock == [][Asiento]_vars

Final == {"CONFIRMADO", "CANCELADO"}

\* CONFIRMAR_PEDIDO and CANCELAR_PEDIDO are final steps: an order that
\* reached one of their states stays there.
EstadoFinalEstable ==
  [][\A s \in Saga : estado[s] \in Final => estado'[s] = estado[s]]_vars

\* Without a fault, a saga that was started ends, whatever its flags and
\* the stock: its order is confirmed or cancelled.
SagaTermina ==
  \A s \in Saga : s \in iniciadas ~> (estado[s] \in Final \/ fallos > 0)

\* What an order promises to the rest of the system (CicloPedido): its state
\* and its stock, without queues, handlers or log.
Saldo(s) ==
  IF reservas[s] = 0 THEN "libre"
  ELSE IF liberaciones[s] = 0 THEN "retenido" ELSE "devuelto"

Ciclo == INSTANCE CicloPedido WITH
           Pedido <- Saga,
           saldo <- [s \in Saga |-> Saldo(s)],
           hubo <- fallos > 0

\* The saga implements CicloPedido.
ImplementaCiclo == Ciclo!Spec
=============================================================================
