# API JMV in TLA+

A verification development of the inventory and order service in `src/app`
(FastAPI, SQLAlchemy, RabbitMQ, Kafka, Redis, Celery, Stripe). The modules
model the parts of it where several actors write the same rows; TLC checks
them on small instances and TLAPS proves the main invariants for all of them.

## 1. The system

| Component | Code | State | Operations | What is hard in it |
|---|---|---|---|---|
| Order saga | `saga/consumers.py`, `saga/repository.py`, `api/v1/endpoints/sagas.py`, `messaging/rabbitmq_client.py` | seven durable queues, `saga_log`, `pedidos.estado`, `items.stock` | start; one handler per step; compensations | redelivery, a process dying between two commits, a publish that fails, two compensation paths |
| Payments | `api/v1/endpoints/pagos.py`, `payments/stripe_service.py`, `models/pago.py` | `pagos`, `pedidos.estado`; Stripe's intents, charges and events | create, confirm, sync, refund, webhook | every request reads, calls Stripe, then writes; events repeat and come in any order |
| Items API | `endpoints/items_legacy.py`, `api/v2/endpoints/items.py`, `repositories/item_repository.py`, `models/item.py` | `items`, `auditoria_item`, the bucket of images | CRUD, bulk operations, stock transfer, upload of an image, walk with a cursor | reads a row, computes, writes it back without a lock on the read |
| List cache | `core/cache.py` | Redis pages, their metadata and indexes | get, store, register, invalidate | a page stored after its invalidation; update paths that do not invalidate |
| Multi-level cache | `cache/multi_level_cache.py` | L1 and L2 entries | get_or_set, invalidate | stores nothing for ORM rows: `json.dumps` raises and `get_or_set` returns first (137-140) |
| CQRS | `commands`, `events`, `consumers/items_projection_consumer.py`, `queries`, `services/operation_service.py` | `items`, Kafka log, read model, operation records, read caches | commands, events, projection, queries | commit, then operation, then publish, in three systems; auto-commit of offsets; caches nobody invalidates |
| Accounts | `core/security.py`, `security/token_blacklist.py`, `endpoints/auth.py`, `endpoints/usuarios.py`, `oauth/service.py`, `oauth/google_sso.py` | `usuarios`; blacklist, sessions and codes in Redis | login, refresh, logout, change and recovery of a password, OAuth2 code, SSO, rights over personal data, retention | the row is loaded and flushed a while later; Redis comes after the commit, key by key |
| Celery tasks | `workers/tasks.py`, `notifications`, `tasks/sftp_integration_task.py`, `workers/celery_app.py` | the broker's list, `notificaciones_enviadas`, `integraciones_legacy`, `items.sku` | queue, send with retries; hourly import | work done and not yet recorded when the worker dies; a session that needs a rollback |
| API key rotation | `core/api_key_manager.py` | keys in Redis and in memory | rotate, validate | its task is imported by no worker and scheduled nowhere |
| Backpressure | `middlewares/backpressure.py` | a counter in Redis | enter, leave | imported by `main.py` but never added to the application |
| The rest | reports, categories, CORS, GraphQL, gRPC, search, storage, CDC, observability, gateway, k8s | - | - | single transactions, adapters and configuration |

The saga and the payments meet in `pedidos.estado`; the saga and the items API
in `items.stock`; the items API, the commands, the caches and the projection
in `items`; the import and the items API in the unique column `items.sku`; the
retention job and the requests of a user in `usuarios`. `PROJECT.json` lists
each component with its status and each hazard at its line.

What makes each component correct:

* *saga*: the stock of an order is taken and given back at most once; nothing
  is charged, confirmed or compensated for an order without stock; one outcome
  per saga, and a final one; a stock write never swallows another; every saga
  ends.
* *payments*: the rows never say more than Stripe does; no order is confirmed
  without a charge; a charge is recorded and stays so until it is refunded; one
  charge per order; a refund is final.
* *items*: a transfer conserves the total and no stock becomes negative; the
  audit tells the row, and a failure of it breaks no operation; a row names an
  image that exists; a walk gives every item once; requests never wait for each
  other for good.
* *list cache*: an invalidation finds the pages that show the item.
* *CQRS*: the read model converges to the table, and an operation reported
  completed is visible.
* *accounts*: the lock counts exactly; revoked sessions stay revoked; a code or
  a recovery token serves once; a cancelled account keeps no personal data.
* *tasks*: what the tables say was sent or imported was, retries are bounded,
  and everything queued ends.

## 2. The modules

| Module | What it is |
|---|---|
| `CicloPedido` | Abstract specification of an order: taken at most once, returned at most once, confirmed only while it holds its stock, final at the end. No code of its own. |
| `PedidoSaga` | The saga: queues, handlers, log, order and stock. |
| `MCPedidoSaga` | Its instances for TLC. |
| `PedidoSagaProofs` | Theorems about it. |
| `PagosStripe` | Payments against Stripe. |
| `MCPagosStripe` | Its instances for TLC. |
| `PagosStripeProofs` | Theorems about it. |
| `DesenlaceProofs` | The outcome of a saga in one process: one way, a final end, and the refinement of `CicloPedido`. |
| `CacheListado` | The pages of the cached listing in Redis and what finds them. |
| `Inventario` | The requests that write items, their audit and images, the listing and the walk; `EXTENDS CacheListado`. |
| `MCInventario`, `InventarioProofs` | Instance and theorems. |
| `ItemsCqrs` | Commands, topic, projection, operations and cached queries. |
| `MCItemsCqrs`, `ItemsCqrsProofs` | Instance and theorems. |
| `Cuentas` | Accounts: login, tokens, sessions, passwords, codes, personal data. |
| `MCCuentas`, `CuentasProofs` | Instance and theorems. |
| `Tareas` | Celery: notifications and the import of files. |
| `MCTareas`, `TareasProofs` | Instance and theorems. |
| `Sumas` | Lemmas about sums over finite sets, for the proofs of `Inventario` and `Tareas`. |

### PedidoSaga and the code

`pc[p][q]` is the place of the handler of queue `q` in process `p`
(`scripts/run_saga_consumers.py` starts the seven loops with `asyncio.gather`).
Each database commit and each broker call is an action, so that a process may
die, and another may run, between any two:

| Action | Code |
|---|---|
| `IniciarSaga` | `POST /sagas/pedidos` publishes CREATE_PEDIDO |
| `Recibir`, `Descartar` | `already_processed` is false or true |
| `CrearPaso` | `create_step`: insert PENDING; on a duplicate key return the row that is there |
| `MarcarCompensando` | `update_status(COMPENSATING)` of the two compensation steps |
| `CrearPedido`, `LeerReserva`/`EscribirReserva`, `CobrarPago`, `NotificarCliente`, `ConfirmarPedido`, `LeerCompensacion`/`EscribirCompensacion`, `CancelarPedido` | the effect of each handler; those of the stock read the row and commit a value computed from it |
| `Completar`, `Publicar`, `Ack` | `update_status`, `publish`, the end of `message.process` |
| `RegistrarFallo`, `PublicarCompensacion` | the except branch; the handlers without a compensation raise again, which ends the process (`Levantar`) |
| `FallaPublicar`, `FallaCompensar`, `FallaBD`, `FallaConsulta`, `FallaRegistro`, `Caida`, `ConexionPerdida` | faults, each of a kind in `TipoFalla` and counted by `fallos` |

Handlers of one process share an event loop and give it up only at an
`await`: `Ocupado(p)` says that one is between two awaits (the database
calls are synchronous), and no other handler of `p` moves then.

Abstractions:

* A queue is a bag of messages per saga: a queue that redelivers keeps no
  order that the code could rely on. A payload is its saga id; item, quantity
  and flags are functions of it.
* An exception that leaves a handler rejects the message without requeue, ends
  the `async for` of its queue, makes `gather` raise and so closes the
  connection: the other unacknowledged messages return to their queues and the
  process ends. That it starts again is the operator's doing; `SagaTermina`,
  the only property that needs a live process, is about runs without faults.
* When a connection is lost, handlers under way go on; their acknowledgement
  no longer has any effect, because the message is back in its queue.
* A commit either happened or not. A commit whose answer was lost is not modelled.
* A graceful stop is a crash.
* `reservas`, `liberaciones` are history variables: commits of the two effects.

### PagosStripe and the code

`pet[r]` is a request in flight: where it is, and what it has read. Each call
to the database or to Stripe is an action; `Guardar` is the one commit of
`apply_payment_success`, `apply_payment_failed` and `apply_refund`, and leaves
alone a column that is set to the value it was loaded with, as SQLAlchemy does.
`CrearPago`, `ConfirmarPagoTest`, `SincronizarPago`, `ReembolsarPago` and
`StripeWebhook` are the five endpoints that change state. `Abortar` cuts a
request short anywhere.

Stripe is external and modelled from how the code uses it: an intent moves
`requires_payment_method -> processing -> succeeded` or back, or is canceled;
every charge, refusal and refund emits an event; an event stays in
`porEntregar` until it is answered 200, and with `Repite` may come again.
Refunds made in Stripe's dashboard and partial refunds are left out.

Any number of requests interleave freely. The webhook is `async def` and its
database calls are synchronous, so two webhooks of one process do not
interleave, but the API runs in several replicas (`k8s/deployment.yaml`) and
the other endpoints run in the thread pool.

### Inventario, CacheListado and the code

`pet[r]` is a request in flight. Its sessions are SQLAlchemy's: reads first, a
flush that puts only the changed columns into an UPDATE per row, one commit.

| Action | Code |
|---|---|
| `Pedir`, `Leer` | the request comes; the SELECTs of the rows it needs (a transfer reads the origin, then the destination) |
| `SubirImagen`, `BorrarImagen` | the call to S3: an upload before the row is written, a deletion of the object with the item |
| `Actualizar` | one UPDATE; it takes the lock of its row, in the order of the ids, and waits for who has it |
| `Confirmar` | the commit: the changed columns and the audit rows that the listeners of `models/item.py` insert, or some of them, as `_insert_audit_row` swallows an exception |
| `CommitSinEfecto` | the commit of a transaction that an audit insert aborted: PostgreSQL rolls it back without an error |
| `Revertir`, `Cortar` | an error or a death before the commit; a death after it |
| `TomarPaginas`, `TomarPrimeras`, `Borrar`, `Limpiar`, `Siguiente` | `invalidate_list_caches_for_item`, `invalidate_first_page_list_caches`, command by command |
| `TomarPaginasFalla`, `TomarPrimerasFalla`, `BorrarFalla`, `LimpiarFalla`, `SiguienteFalla`, `GuardarFalla`, `RegistrarFalla` | the same commands when Redis raises: each function of `cache.py` swallows the error, leaves out what it had left, and its caller goes on |
| `Listar`, `Guardar`, `Registrar` | `listar_items` on a miss: query, `set_cache`, `register_list_cache` |
| `Recorrer` | a client that asks for pages with a cursor |
| `Expira` | the time to live of a page, or of the metadata that is registered of it |

What each endpoint computes from what it read is an operator with the name of
the endpoint (`crear_item`, `transferir_stock`, ...), evaluated on the read rows.
`version` counts the commits of a row and `pisado` holds the items of which a
commit replaced a version it had not read, which is what excuses `TotalCuadra`.
`desfasado` holds the items of which that is true of the *last* commit, or whose
last commit lost its audit row, which is what excuses `HistorialFiel`. `sinAviso` holds the items whose last change invalidates
no page, which are the paths that the code leaves out (`actualizar_item`, the
transfer of v2, the upload of an image), and those whose request died or could
not read the index of the item. The flag `sola` of a page is true while
nothing else ran beside the listing that stored it and no deletion of the page
has failed: `BorrarFalla` leaves the page, and the index of its item is then
deleted all the same, so that no later invalidation of the item finds it.

Abstractions: a row is its stock, whether it is deleted and the key of its
image. The filters of the listing are left out, and a page is its number. The
walk of v1 and the state at a date may read a replica (`get_read_db`); its lag
is not modelled. Of the history of an item only its last `datos_nuevos` is kept,
which is what the state at a date answers with now. An audit row whose insert
raises before it reaches the database is lost (`Confirmar`); one that the
database refuses aborts the transaction (`CommitSinEfecto`), which a creation
and a transfer notice in a later statement (`Revertir`). Elasticsearch and the
rows of `movimientos_stock`, which nothing reads back, are not modelled.

### ItemsCqrs and the code

| Action | Code |
|---|---|
| `Escribir` | the commit of a command, or of a request of `items_legacy.py` |
| `Refrescar` | between the commit and the event: `refresh` reads the row, `create_operation` stores a pending operation |
| `Publicar`, `Perder` | the publish to Kafka, or what is cut short or fails before it |
| `Proyectar` | the consumer takes the next event of an item and writes `items_lectura`; `complete_operation`, `fail_operation` are its calls to Redis after it |
| `AutoCommit`, `CaerConsumidor` | the periodic commit of the offsets, only between two events; a restart from the committed offsets |
| `ExpiraOperacion` | the time to live of `operation:<id>` |
| `Consultar`, `Guardar`, `Expira` | a cached query on a miss, its store, its time to live |

A row is its number of commits and whether it is deleted: enough to say which
event, if any, the projection shows. The deletion event of the legacy endpoint
carries a part of the row only. The legacy PUT, bulk operations and transfers
publish nothing to Kafka: their commits are of the kind `v1_sin_evento`. (Their
events for RabbitMQ are not sent either: the call that would run the coroutine
of `_publicar_evento_item` is inside that coroutine, `items_legacy.py:99-128`.) The history variable `desviado` holds the items whose last
commit did not reach the log alone and whole. No command invalidates the
cached queries: they show the old answer until they expire, after the operation
is already completed (`items_cqrs.py:58` says the operation tells when the read
is ready); `LecturaSeRenueva` states what does hold.

### Cuentas and the code

| Action | Code |
|---|---|
| `Pedir`, `Autenticar` | a request comes; its token is decoded and looked up in the blacklist and in `usuarios` |
| `Leer`, `Commit` | the row is loaded; the columns the handler changed are flushed, with values computed from what was loaded |
| `Emitir`, `register_session_from_token` | the tokens of a login or a refresh; the session in Redis |
| `Refrescar` | `POST /auth/refresh`, which looks at the token's user and at neither the blacklist nor the password (`auth.py:158`) |
| `CerrarSesion`, `LeerSesiones`, `Negar` | revocation of one session; of all: the set is read, then each `jti` is put into the blacklist |
| `generate_authorization_code`, `LeerCodigo`, `Canjear`, `sync_user_from_google` | OAuth2 and the SSO |
| `Morir`, `Pasar` | a process dies in a request; the clock |

`is_blacklisted` is false when Redis fails, which is a fault here. The clock has
`Segundo` ticks to a second, because the dates of a token differ by less than
one: `_create_token` drops the fraction of `exp` (`Entero`), `jose` takes a
token until the second after it (`Vivo`), and the seconds left of it, for which
a logout or a use from another address revokes it, are truncated
(`get_token_remaining_seconds`). `blacklist_token` replaces the time an entry
had. So a revocation for an hour can be replaced by one that ends before the
token does: `acortada` holds the tokens of which that is true, and
`RevocadasFuera` bounds what it gives back.

The counter of failed logins is not reset when a lock expires, so that the next
failure locks again: `BloqueoExacto` counts failures since the last success, as
the code does. `ultimo_acceso_at` is assigned nowhere, so the retention job
looks at a constant (`Inactivos`). Between the read of a recovery token or of a
code and its commit or deletion another request may read it too: `reuso` holds
what was used by a request that came after a use (`SinReuso`), `repetido` what
was used twice at all (`UnSoloUso`, finding 5). A user may have no RFC
(`"nulo"`), and then an anonymization leaves the column alone: `cruzada` holds
the users to whom a rectification gave one while a cancellation was under way.

### Tareas and the code

`proc[p]` is a Celery worker or a request that creates an item.

| Action | Code |
|---|---|
| `Crear`, `Encolar` | `crear_item`: the commit; `delay` of each notification, or the sending itself with `CELERY_ENABLED` off |
| `Tomar`, `Confirmar` | a worker takes a message and acknowledges it at the end (`task_acks_late`) |
| `Descartar` | a worker that does not import the task rejects its message, without requeue |
| `send`, `save_enviado`, `save_error`, `Reintentar` | the call to SendGrid, the row with its outcome, `self.retry` |
| `Programar` | Beat |
| `Mirar`, `Importar`, `Registrar` | the import: is the hash registered; one row; the record of the file |
| `Morir`, `MorirProceso`, `MorirAlta` | a worker dies, and its message comes back; only the pool process dies, and Celery acknowledges the message, as `task_reject_on_worker_lost` is not set; a request dies |

`workers/celery_app.py` imports the modules of the retention and the SFTP tasks
only, so that the worker of `docker-compose.yml` rejects every notification. A
scenario says whether the workers import `app.workers.tasks` (`importa`):
`AvisosContados` and `IntentosAcotados` hold either way, and so does
`AvisoTermina`, which excuses what Celery threw away (`perdidos`). `proc[w]` is a process of a pool: the death of a worker
with several is a `Morir` of each.

A duplicate sku raises in the commit and nobody calls `rollback`, so the session
fails for the rest of the run (`rota`): a file with a failed item is never
registered, whatever `items_fallidos` is for. A row that the
database refuses every time (a sku of more than 20 characters, which does not
fit `codigo_sku`, `models/item.py:137`) is not a kind of its own: each attempt
to import it is a failure of the database, after which `trunco` excuses the
liveness of the import. With Celery off the warning of a low stock is sent by
nobody.

## 3. What TLC checks

| Run | Instance | Shows |
|---|---|---|
| `saga_una_instancia` | one saga of 2 units, stock 1 or 3, all eight sets of forced failures, one process, 4 faults among crash, failed publish, lost connection; 105,841 states | `ReservaRespalda`, `EfectoUnaVez`, `DesenlaceUnico`, `EstadoFinalEstable`; the saga implements `CicloPedido` (`ImplementaCiclo`) and ends (`SagaTermina`) |
| `saga_dos_pedidos` | two sagas of 2 units on one item with 3 or 4, one process, 1 fault among a publish that raises after the broker took the message and a call to the database that raises; 1,425,000 states | `LibroDeStock`: handlers of both orders overlap and no write is lost; `TypeOK`, `ReservaRespalda` |
| `pagos_concurrentes` | one intent, two requests at a time, repeated events, 2 aborted requests; 146,746 states | `PagoRespaldado`, `ConfirmadoCobrado`, `CobroAvisado`, `CobroSeRegistra` |
| `inventario` | two items, a page each, or none yet; ten kinds of operation, two requests at a time, two that write and three in all, one failure; 1,178,302 states | `HistorialFiel`, `TotalCuadra`, `ImagenRespaldada`, `RecorridoCompleto`, `PaginaSolaAlDia`; the row locks never stop everyone (`SinAbrazo`), and every request ends (`PeticionTermina`) |
| `items_cqrs` | two items, one of them there before; two commits of any kind, two requests and a query at a time, one fault; 491,598 states | the invariants of `ItemsCqrs`, `Convergencia`, `LecturaSeRenueva` |
| `cuentas` | one account with an open session, with an RFC or without; two requests at a time and three in all, two more tokens, a lock after two failures, two ticks to a second, a token of two seconds in its first one and until its second one, a lock of half a second, revocations of three seconds, one fault; 3,702,141 states | `RevocadasFuera`, `BloqueoExacto`, `SinReuso`, `CancelacionLimpia` |
| `tareas` | two workers and one request, six scenarios of notifications and of folders, one retry, one import waiting, one fault; 107,366 states | `AvisosContados`, `IntentosAcotados`, `RegistroEntero`, `AvisoTermina`, `ImportacionCompleta` |
| `saga_reentrega_doble` | two processes, one lost connection | violates `EfectoUnaVez` |
| `saga_publicacion_ambigua` | one process, one publish that raises after the broker took the message | violates `EstadoFinalEstable` |
| `pagos_doble_cobro` | one order, two intents, no fault | violates `CobroUnico` |
| `pagos_ciclo_de_vida` | one intent, one request at a time, no fault, no repeated event | violates `CicloDeVida` |
| `cuentas_un_uso` | as `cuentas`, one tick to a second, one of the clock, no fault | violates `UnSoloUso` |

Why these bounds. The stock of 1 is not enough for an order and 3 is, so the
reservation both fails and succeeds; with 4 both orders fit, and with 3 the
second fits only after the first gave back. Four faults let one message be
redelivered, its publish fail and its compensation be redelivered too, in one
behaviour; more sagas or processes with as many faults are beyond five minutes. That
several processes keep `TypeOK` and `ReservaRespalda` is a theorem; a run looks
at two of them only for what they break. Two requests are what an overtaking
needs, and two aborts allow a webhook to be cut short, repeated and cut short
again. In `inventario` the two writers overlap on one item or on two rows,
transfers in both directions and bulk operations among them, and the third
request lists between them; the tables are two rows that a transfer can move
between, or empty. In `items_cqrs` two commits are what an event that overtakes another
needs; two faults with the same instance (1.4 million states) and three commits
of one item (4.5 million) pass as well, but not in five minutes. In `cuentas`
a lock after two failures is reached, and one more request overlaps with it;
the clock goes by half seconds, as the truncations of a token's end and of what
is left of it need. The open session is half a second old at the start
(`Inicio`), of a token of two seconds, so that a change of password and then a
logout, or a use from another address, leave it revoked for one second of the
one and a half it has left, and it is used in the last half; a lock lasts half a
second, so that it expires before the third failure. That the token expires in
the end, and what a revocation gives back then, is the theorem's
(`Revocadas`). A revocation lasts three seconds: `CuentasOK` asks that it outlive
a token by one, as 3600 s outlive 15 minutes.
In `tareas` one
retry (the code has three) makes the retry differ from the first attempt; a
scenario has either notifications or files that clash with a request's sku,
because nothing else joins the two. `MaxFallos` bounds only the faults;
the queues need no bound, because every message is consumed. Deadlock is not
checked: a system with no message and no request left rightly stops.

Fairness. `SagaTermina` assumes weak fairness of each handler of each process
(`Justicia`): the event loop serves every coroutine that is ready. Clients and
faults owe nothing. `CobroSeRegistra` assumes weak fairness of each request
that was accepted, and strong fairness of the delivery of each event, because
Stripe repeats what was not answered 200 and the server has a thread free now
and then, not forever. `PeticionTermina` assumes weak fairness of the steps of a
request that runs, and none of its failures. In `Tareas` what runs goes on and
Beat ticks; a message that the workers know is handed out if one of them is free
time and again (strong fairness of `Tomar`), and one they do not know is
rejected (weak fairness of `Descartar`, which needs no free process). A charge is not forced to happen.

### Findings

1. **Redelivery to another process repeats an effect** (`EfectoUnaVez`).
   `create_step` answers a duplicate key with the existing row and the handler
   goes on (`repository.py:58`). The unique constraint on `(saga_id, step)`,
   which the class names as the basis of its idempotency, stops nothing: the
   reservation is committed twice, here with the same new stock, because both
   handlers computed it from the same row. With one consumer process the
   property is a theorem.
2. **A publish that fails after it succeeded** (`EstadoFinalEstable`).
   `publish` can raise in its `finally`, after the broker has the message; the
   except branch starts the compensation as well, and the order ends one way
   and then the other.
3. **Two charges for one order** (`CobroUnico`). Each `POST /pagos/crear`
   makes a new idempotency key, and only a payment already `pagado` blocks
   another; the model's docs promise that a retry is no second charge.
4. **The life cycle of a payment is not kept** (`CicloDeVida`). A webhook or a
   sync sets `estado` whatever it was. In the trace the failure event of a first
   attempt arrives after the success of the second: a charged payment becomes
   `fallido` and its order `CANCELADO` (`pagos.py:440`). In the same way a sync
   or a late success after a refund makes it `pagado` again and the order
   `CONFIRMADO` (`pagos.py:270`). `models/pago.py:36-38` names the life cycle
   and line 24 the consistency with Stripe; `CobroSeRegistra` and `CobroAvisado`
   say what does hold, that every charge is recorded as one at some moment.
5. **A recovery token serves twice** (`UnSoloUso`). Two recoveries that load the
   row before either commits both succeed (`auth.py:366`, `models/usuario.py:19`
   says it is of a single use); an authorization code that is read and then
   deleted does the same (`oauth/service.py:60`, against its line 65). To whoever
   comes after a use both are refused, which is `SinReuso`.

### Where a property makes an exception of the code

Some properties hold only outside cases that the model has and that a document
of the repository promises would not matter. Each is kept in a history variable,
so that the exception is no wider than the case:

* `pisado` (`TotalCuadra`): a commit that replaced a version of a row it had not
  read. A transfer beside another writer can lose units, while
  `v2/endpoints/items.py:226` calls it atomic.
* `desfasado` (`HistorialFiel`), until the next commit of the item: the last
  commit did the same, so that its audit tells a state the row never had, which
  `items_legacy.py:1468` then answers with; or its audit row was lost. When it
  is PostgreSQL that refuses the audit row, the swallowed exception leaves the
  transaction aborted and its commit writes nothing (`CommitSinEfecto`), although
  auditing is never to break an operation (`models/item.py:102`).
* `sola` (`PaginaSolaAlDia`): a page that was stored beside other requests. An
  invalidation between its store and its registration does not find it, while
  `cache.py:270` speaks of all the pages with the item. A page whose deletion
  failed is not `sola` any more either.
* `acortada` (`RevocadasFuera`): a token that was revoked twice may be accepted
  again in its last second and the one it expires in, although a change of
  password revokes every session (`auth.py:277`) and the blacklist lasts until
  a token's own end (`token_blacklist.py:5`).
* `cruzada`, `rectificada` (`CancelacionLimpia`): an RFC that was null when the
  cancellation loaded the row is not in its UPDATE, so that what a rectification
  commits in between stays; and one that commits later writes its column over.
  `usuarios.py:317-323` promises a row without real personal data.
* `perdidos` (`AvisoTermina`): a message that the deployed worker rejects because
  it does not import the task (against `celery_app.py:18`), and one whose pool
  process died and that Celery acknowledged (against the comment of
  `celery_app.py:87`).
* `SinChoques`, `trunco` (`ImportacionCompleta`): a file of which an item fails,
  or whose import was cut short, is never registered, although
  `models/integracion_legacy.py:36` has a column for its failed items.

## 4. What TLAPS proves

For every set of sagas, processes, items, payloads and flags, every kind of
fault and every `MaxFallos`, under `ConstantesOK` (a quantity is positive, a
stock natural; an `item_id` need not exist):

* `TypeCorrect`: `TypeOK` (hence no negative stock). It needs `Posicion`:
  a handler that is not free holds a message, and one about to write a stock
  has read one that suffices and belongs to an item that exists.
* `NadaSinReserva`: `ReservaRespalda`. Not inductive alone: a charge is
  logged because its message was queued. `Respaldo` says that for an order
  without stock there is nothing anywhere downstream: no row, no handler and
  no message of the later steps. A step can add something there only from a
  message already there or from the commit of the reservation.
* `UnaVezConUnProceso`, assuming a single process: `EfectoUnaVez`. `UnaVez`
  says, for each of the two stock queues, that the effect has not been
  committed while its row does not exist, nor while a handler that is going to
  commit it is under way; the one process has one handler of that queue, so
  nobody else commits it meanwhile. With two processes it fails (finding 1).
* `LibroConUnProceso`, assuming a single process: `LibroDeStock`, for any
  number of orders. `Exclusion` says that at most one handler is between two
  awaits; `LecturaVigente`, that what a handler about to write has read is
  still the stock.

For every set of orders, intents and concurrent requests, under `PagosOK`:

* `PagosTipos`: `TypeOK`; `PagosRespaldados`: `PagoRespaldado`;
  `ConfirmadosCobrados`: `ConfirmadoCobrado`; `CobrosAvisados`: `CobroAvisado`.
  One invariant, `Inv`, carries all four. It adds to the types what each
  request carries (`PetOK`): what it is about to record is true of Stripe and
  stays so, because `succeeded` and a refund never go away there (`MetaVale`);
  what it read of its row is stale at worst in that the row has since left
  `pendiente` (`LeidoVale`), so a skipped UPDATE loses nothing; and an intent
  under creation belongs to one request (`CreaPropio`).

For one process, whatever the number of sagas, when neither an answer of a
publish nor a database call is lost (`FallasLimpias`; crashes, failed publishes
and lost connections stay):

* `DesenlaceConUnProceso`: `DesenlaceUnico`; `FinalEstableConUnProceso`:
  `EstadoFinalEstable`; `SagaImplementaCiclo`: `ImplementaCiclo`, every step of
  the saga is a step of the abstract order or a stutter. The invariant is that
  a saga is at one place of its way: nothing that comes after a step that may
  still publish is alive yet (`Camino`, with `Tras` and `Vivo`), the state of
  an order is that of the step that set it (`Pedido`), and, until something
  fails, an order is cancelled only after its stock was given back or never
  taken (`Devuelto`). Only `IniciarSaga`, `Publicar` and `PublicarCompensacion`
  add anything; of every other step one lemma (`Mengua`) says that it adds
  nothing. Finding 2 is what happens without `FallasLimpias`, finding 1 with
  two processes.

For every set of items, pages and requests, every operation and every table to
start from, under `InventarioOK` and `CacheOK`:

* `InventarioTipos`: `TypeOK`; `Historiales`: `HistorialFiel`; `Imagenes`:
  `ImagenRespaldada`. `Inv` adds what each request carries (`PetOK`): what it
  read of a row is the row if the version it read is still current, what it is
  about to write was computed from what it read, and an object it is about to
  name is in the bucket or was removed by a deletion. A commit whose audit
  row is lost leaves its item in `desfasado`; one that PostgreSQL rolls back
  leaves the row, the audit and the version as they were.
* `TotalesCuadran`: `TotalCuadra`. `Traslados` says that a transfer that is
  going to write has read its two rows, which differ, and writes what the
  endpoint computes from them; if no commit replaced an unread version, they
  are still the rows. The change of the sum is then a lemma of `Sumas` about
  two changed terms. What an absolute write adds to `total` is what it adds to
  the sum.
* `RecorridosCompletos`: `RecorridoCompleto`, for any limit. `Camino` says that
  what was given is not beyond the cursor, and that of what was active all
  along nothing is left behind it. That a page ends where the next begins needs
  the place of an item among the active ones (`Puesto`), a cardinality.
* `PaginasSolas`: `PaginaSolaAlDia`. `Fresco` has three parts. `Nacen`: a row
  that exists goes on existing, and an id under creation belongs to one request
  (otherwise a page would show an item that no index knows). `Solas`: a listing
  that has run alone so far holds what the rows are. `Frescas`: a page stored
  alone, and that no deletion has failed on, is found through the index of each
  of its items, and is in the list of who is invalidating that item; nobody is
  about to clean the indexes of it (`Limpia`); and of an item it shows outdated, some request is still going to
  invalidate, unless its last change does not. That the errors of one page leave
  the others alone is what the step of each `...Falla` shows.
* `SinAbrazos`: `SinAbrazo`. `EnOrden` says that who holds a row holds all the
  rows it writes with a lower id. If every writer waited, take the greatest of
  the rows waited for: who holds it waits for a row that it does not hold, which
  is then a greater one. This is the part of `PeticionTermina` that is not about
  fairness.

For every set of items, requests and queries, under `CqrsOK`:

* `CqrsTipos`: `TypeOK`; `ProyeccionesAlDia`: `ProyeccionAlDia`;
  `PrefijosAplicados`: `PrefijoAplicado`; `CompletadasVisibles`:
  `CompletadaVisible`. `Inv` relates the three positions of a log (`Posiciones`),
  says that the event in the consumer's hands is already projected (`EnMano`),
  that the last event of an item that is not `desviado` is its row
  (`UltimoEsFila`), and that an operation belongs to one event or request
  (`OperacionUnica`).

For every set of users and requests, under `CuentasOK`:

* `CuentasTipos`: `TypeOK`; `Revocadas`: `RevocadasFuera`; `Canceladas`:
  `CancelacionLimpia`; `Bloqueos`: `BloqueoExacto`; `UsosUnicos`: `SinReuso`.
  `Base` (types, what tokens and requests hold) is inductive; each of the four
  has an invariant of its own that is inductive under it. `Revocaciones`: a
  registered token is in the blacklist until it is accepted no more, or, if it
  was revoked again for what was left of it, until its last second
  (`Negado`), or a request is still revoking it; every step lets an entry only
  grow, or marks the token (`NegraCrece`), which rests on whole seconds being
  the greatest multiple of a second below a time. `Datos`: who writes
  personal data or `activo` has not, unless it is rectified, an RFC that a
  request loaded is still one, and of a user without one, as a cancellation
  loaded it, the row has none, or the user is in `cruzada` (`Nulo`). `Cuenta`: the
  counter of the row, plus what a request alone has yet to flush, is the number
  of failures. `Uso`: what is spent is spent for every request that begins
  later.

For every set of workers, requests, scenarios and bounds, under `TareasOK` and `EscenariosOK`:

* `TareasTipos`: `TypeOK`; `RegistrosEnteros`: `RegistroEntero`. `Inv` says of
  each import that its rows before the current one are in the table as long as
  its session needs no rollback, which it does from its first failed item on.
* `AvisosSeCuentan`: `AvisosContados`; `IntentosSeAcotan`: `IntentosAcotados`.
  `Contado` adds to the calls made for a notification those that are still to
  come: of each message at the broker the attempts it has left, of each process
  what it will do with the one in its hands. That sum is within the bound: it
  falls or stays at every step (the death of a pool process and the rejection of
  a message only take from it), and a fault, which may bring a message back or
  leave a retry beside it, raises the bound by as much. The rows are counted
  the same way, each call having its row, a process about to write it, or a
  fault of its own.

From which assumptions. Each module names what it asks of its constants, and TLC
evaluates it on every run. The sums and the walk need finite sets (items,
workers and requests of `Tareas`), as a table and a deployment have. A transfer
has one item beside its origin, as its payload names an origin and a
destination, and the name of nobody is not a request. The sums of `Sumas` are
the folds of the community modules, which are recursive functions; the provers
cannot apply an induction principle, so each induction is a look at a least
counterexample: the sizes of the sets for which the lemma fails would be a set
of naturals, with a least member.

Only model-checked: the liveness properties `SagaTermina`, `CobroSeRegistra`,
`PeticionTermina`, `Convergencia`, `LecturaSeRenueva`,
`AvisoTermina` and `ImportacionCompleta`, because liveness under fairness is
outside what TLAPS checks here. Every invariant, every action property and the
refinement that a passing run checks is also a theorem, four of the saga's
(`EfectoUnaVez`, `LibroDeStock`, `DesenlaceUnico`, `EstadoFinalEstable`) and its
refinement under the conditions named above.

## 5. Not modelled

`PROJECT.json` has the reason of each part.

* *Two writers in two modules.* Saga and payments both write `pedidos.estado`,
  and saga and items API both write `items.stock`; each module assumes the other
  silent. Nothing in the code orders them: a webhook and a compensation for one
  order end as whichever commits last.
* *Without effect in the running system.* The rotation of the API key (its task
  is imported by no worker), the backpressure middleware (never added), the
  levels of the multi-level cache (never written: see section 1), the report of
  low stock (scheduled nowhere).
* *Single transactions.* Categories, CORS origins, reports, registration of
  users and consents.
* *Adapters.* GraphQL, gRPC, search, storage, discovery, AI, CDC, the events of
  items on RabbitMQ: they keep no state the rest relies on. The circuit
  breakers are those of the library pybreaker.
* *Observation and infrastructure.* Logging, metrics, profiling, chaos, the
  gateway, the stub services, k8s (which tells how many replicas there are).
* *Within modelled parts.* The text of errors, messages and payloads; in
  payments, listing and reading; in accounts, roles, the listing of sessions,
  the clients of OAuth2; in the import, the connection, the response files and
  rows without a sku.

## 6. Plan

Done: the saga with its abstract specification and the refinement proof, the
payments, the items with the cached listing, the read model, the accounts, the
background tasks, and the proofs of section 4. Left, in this order:

1. Composition of saga and payments on `pedidos.estado`, and of saga and items
   API on `items.stock`.
2. An abstract cache for the listing, with the refinement that `CacheListado`
   gives of it while no error of Redis is swallowed.
