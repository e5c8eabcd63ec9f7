----------------------------- MODULE ItemsCqrs ------------------------------
(***************************************************************************)
(* The read model of the items: the commands that write the table and      *)
(* publish what they wrote (app/commands), the topic in Kafka, the         *)
(* consumer that projects it (items_projection_consumer.py), the state of  *)
(* the operations in Redis (operation_service.py) and the cached queries   *)
(* (app/queries).                                                          *)
(*                                                                         *)
(* Commit, operation and publication are three writes to three systems     *)
(* with no outbox: a request may be cut short, or run beside another one,  *)
(* between any two of them.  The key of an event is the id of its item, so *)
(* each item has its own ordered log.  The consumer handles one event at a *)
(* time without yielding, so its offset is only committed between events.  *)
(*                                                                         *)
(* A row is its number of commits and whether it is deleted.  Every commit *)
(* counts, those of the requests of Inventario included, which publish     *)
(* without an operation or not at all.  Left out: categories, the wording  *)
(* of answers, and the total that a listing counts in a query of its own.  *)
(***************************************************************************)
EXTENDS Naturals, Sequences, SequencesExt

CONSTANTS
  Item,         \* ids of items
  Creados,      \* items that were created, and projected, before
  Peticion,     \* requests in flight at a time
  Lector,       \* queries in flight at a time
  Listado,      \* keys of the cached lists and searches
  MaxEscrituras,\* bound on the commits
  MaxFallos     \* bound on what fails, is lost or dies

ASSUME CqrsOK ==
  Listado \cap Item = {} /\ Creados \subseteq Item /\ MaxEscrituras \in Nat /\ MaxFallos \in Nat

Operacion == 1..MaxEscrituras
SinOp == 0
Comando == {"crear", "actualizar", "eliminar"}
ConEvento == Comando \cup {"v1_crear", "v1_eliminar", "v1_restaurar"}
TipoOp == ConEvento \cup {"v1_sin_evento"}

Foto == [v: 0..MaxEscrituras + 1, eliminado: BOOLEAN]
NoHay == [v |-> 0, eliminado |-> FALSE]
Evento == [foto: Foto, completo: BOOLEAN, op: {SinOp} \cup Operacion]
SinEvento == [foto |-> NoHay, completo |-> TRUE, op |-> SinOp]
Creado == [SinEvento EXCEPT !.foto.v = 1]

VARIABLES
  fila,       \* items: the row of each item
  pet,        \* pet[r]: where request r is
  log,        \* the topic: log[i], the events of item i
  proy,       \* items_lectura: the event each row was written from
  leido,      \* events of each item that the consumer has handled
  confirmado, \* the offsets committed to Kafka
  consumidor, \* what the consumer does, and with which item
  operacion,  \* operation:<id> in Redis
  cache,      \* cqrs:* in Redis
  lector,     \* lector[q]: where query q is
  escrituras, fallos, \* counters of the bounds
  desviado,   \* history: items whose last commit did not reach the log alone and whole
  saltados,   \* history: saltados[i], events whose last projection failed
  perdidas    \* history: operations of which a write of their state was lost

kafka == <<log, leido, confirmado, consumidor>>
lectura == <<cache, lector>>
historia == <<desviado, saltados, perdidas>>
vars == <<fila, pet, kafka, proy, operacion, lectura, escrituras, fallos, historia>>


\* What the three endpoints of the queries ask for: an item, a page of the
\* list, a page of a search.  Each has its key in the cache.
Clave == Item \cup Listado

Libre == [en |-> "libre", tipo |-> "v1_sin_evento", item |-> 0, foto |-> NoHay, op |-> SinOp,
          sola |-> TRUE]
Ociosa == [en |-> "libre", clave |-> 0, valor |-> <<>>]
EnEspera == [en |-> "espera", item |-> 0]
SinCache == [hay |-> FALSE, valor |-> <<>>]

Init ==
  /\ proy = [i \in Item |-> IF i \in Creados THEN Creado ELSE SinEvento]
  /\ fila = [i \in Item |-> proy[i].foto]
  /\ pet = [r \in Peticion |-> Libre]
  /\ log = [i \in Item |-> IF i \in Creados THEN <<Creado>> ELSE <<>>]
  /\ leido = [i \in Item |-> Len(log[i])] /\ confirmado = leido
  /\ consumidor = EnEspera
  /\ operacion = [o \in Operacion |-> "no"]
  /\ cache = [k \in Clave |-> SinCache]
  /\ lector = [q \in Lector |-> Ociosa]
  /\ escrituras = 0 /\ fallos = 0
  /\ desviado = {} /\ saltados = [i \in Item |-> {}] /\ perdidas = {}

Falla == fallos < MaxFallos /\ fallos' = fallos + 1
Fin(r) == pet' = [pet EXCEPT ![r] = Libre]

-----------------------------------------------------------------------------
(* A request that writes.                                                  *)

\* Whether the row lets the request through.  No command looks at eliminado.
Admite(tipo, f) ==
  CASE tipo \in {"crear", "v1_crear"} -> f.v = 0
    [] tipo = "v1_eliminar" -> f.v > 0 /\ ~f.eliminado
    [] tipo = "v1_restaurar" -> f.v > 0 /\ f.eliminado
    [] OTHER -> f.v > 0

Borrado(tipo, f) == IF tipo \in {"eliminar", "v1_eliminar"} THEN TRUE
                    ELSE tipo # "v1_restaurar" /\ f.eliminado

\* The commit; operation_id is drawn now, although it is stored later.
Escribir(r, tipo, i) ==
  /\ pet[r].en = "libre" /\ escrituras < MaxEscrituras
  /\ Admite(tipo, fila[i])
  /\ escrituras' = escrituras + 1
  /\ fila' = [fila EXCEPT ![i] = [v |-> @.v + 1, eliminado |-> Borrado(tipo, @)]]
  /\ pet' = [x \in Peticion |->
       IF x = r THEN IF tipo = "v1_sin_evento" THEN Libre
                     ELSE [Libre EXCEPT !.en = "refrescar", !.tipo = tipo, !.item = i,
                             !.op = IF tipo \in Comando THEN escrituras + 1 ELSE SinOp]
       ELSE IF pet[x].item = i THEN [pet[x] EXCEPT !.sola = FALSE] ELSE pet[x]]
  /\ desviado' = desviado \cup {i}
  /\ UNCHANGED <<kafka, proy, operacion, lectura, fallos, saltados, perdidas>>

\* Mutant: the payload is built from the row as it was before the commit.
SinRefrescar(i) == [fila[i] EXCEPT !.v = @ - 1]

\* db.refresh(item): the row as it is now.
refresh(i) == fila[i]

\* The payload is taken, and a command stores its operation; when Redis fails
\* it goes on with an id that nobody will find.
Refrescar(r) ==
  LET o == pet[r].op IN
  /\ pet[r].en = "refrescar"
  /\ pet' = [pet EXCEPT ![r].en = "publicar", ![r].foto = refresh(pet[r].item)]
  /\ \/ /\ operacion' = [x \in Operacion |-> IF x = o THEN "pending" ELSE operacion[x]]
        /\ UNCHANGED <<fallos, perdidas>>
     \/ /\ o # SinOp /\ Falla
        /\ perdidas' = perdidas \cup {o}
        /\ UNCHANGED operacion
  /\ UNCHANGED <<fila, kafka, proy, lectura, escrituras, desviado, saltados>>

\* publish_domain_event; v1's item.deleted carries five of the fields.
Publicar(r) ==
  LET p == pet[r]
      completo == p.tipo # "v1_eliminar"
  IN /\ p.en = "publicar"
     /\ log' = [log EXCEPT ![p.item] = Append(@, [foto |-> p.foto, completo |-> completo,
                                                  op |-> p.op])]
     /\ desviado' = IF completo /\ p.sola THEN desviado \ {p.item} ELSE desviado \cup {p.item}
     /\ Fin(r)
     /\ UNCHANGED <<fila, leido, confirmado, consumidor, proy, operacion, lectura, escrituras,
                    fallos, saltados, perdidas>>

\* Kafka is not there (swallowed), or the process dies after its commit.
Perder(r) ==
  /\ pet[r].en # "libre" /\ Falla
  /\ Fin(r)
  /\ UNCHANGED <<fila, kafka, proy, operacion, lectura, escrituras, historia>>

-----------------------------------------------------------------------------
(* The projection consumer.                                                *)

Pendiente(i) == leido[i] < Len(log[i])
EventoDe(i) == log[i][leido[i] + 1]

\* The event in hand is done.
Avanzar(i) ==
  /\ leido' = [leido EXCEPT ![i] = @ + 1]
  /\ consumidor' = EnEspera

\* Mutant: the operation is completed first.
CompletaAntes(i) ==
  /\ UNCHANGED proy
  /\ consumidor' = [en |-> "completar", item |-> i]

upsert_item_projection(i) ==
  /\ proy' = [proy EXCEPT ![i] = EventoDe(i)]
  /\ consumidor' = [en |-> "completar", item |-> i]

\* One event of a partition that has some: it is projected, or that fails and
\* the consumer goes on.
Proyectar(i) ==
  /\ consumidor.en = "espera" /\ Pendiente(i)
  /\ \/ /\ upsert_item_projection(i)
        /\ saltados' = [saltados EXCEPT ![i] = @ \ {leido[i] + 1}]
        /\ UNCHANGED fallos
     \/ /\ Falla
        /\ saltados' = [saltados EXCEPT ![i] = @ \cup {leido[i] + 1}]
        /\ consumidor' = [en |-> "fallar", item |-> i]
        /\ UNCHANGED proy
  /\ UNCHANGED <<fila, pet, log, leido, confirmado, operacion, lectura, escrituras, desviado,
                 perdidas>>

\* complete_operation and fail_operation: a missing key is left missing, and
\* an error of Redis is swallowed.
Anotar(estado) ==
  LET o == EventoDe(consumidor.item).op IN
  /\ \/ /\ operacion' = [x \in Operacion |-> IF x = o /\ operacion[x] # "no" THEN estado
                                             ELSE operacion[x]]
        /\ UNCHANGED <<fallos, perdidas>>
     \/ /\ o # SinOp /\ Falla
        /\ perdidas' = perdidas \cup {o}
        /\ UNCHANGED operacion
  /\ Avanzar(consumidor.item)
  /\ UNCHANGED <<fila, pet, log, confirmado, proy, lectura, escrituras, desviado, saltados>>

complete_operation == consumidor.en = "completar" /\ Anotar("completed")
fail_operation == consumidor.en = "fallar" /\ Anotar("failed")

\* Mutant: the offset of the event that comes next is committed as well.
ConfirmaAlRecibir(i) == leido[i] < Len(log[i]) /\ confirmado' = [confirmado EXCEPT ![i] = leido[i] + 1]

CommitDe(i) == confirmado[i] # leido[i] /\ confirmado' = [confirmado EXCEPT ![i] = leido[i]]

\* enable_auto_commit: the offsets of what was handled.
AutoCommit ==
  /\ consumidor.en = "espera"
  /\ \E i \in Item : CommitDe(i)
  /\ UNCHANGED <<fila, pet, log, leido, consumidor, proy, operacion, lectura, escrituras,
                 fallos, historia>>

\* Mutant: a consumer that starts again begins with what comes from now on.
DesdeElFinal(i) == Len(log[i])
\* A new consumer begins after the committed offset, with earliest if none.
Posicion(i) == confirmado[i]

\* The consumer dies, in an event or between two, and starts again.
CaerConsumidor ==
  /\ Falla
  /\ leido' = [i \in Item |-> Posicion(i)]
  /\ consumidor' = EnEspera
  /\ UNCHANGED <<fila, pet, log, confirmado, proy, operacion, lectura, escrituras, historia>>

\* What GET /operaciones/<id> may answer: the stored state, or that there is
\* none; when Redis is not there, not found or pending.
obtener_operacion(o) == {operacion[o], "no", "pending"}

ExpiraOperacion(o) ==
  /\ operacion[o] # "no"
  /\ operacion' = [operacion EXCEPT ![o] = "no"]
  /\ UNCHANGED <<fila, pet, kafka, proy, lectura, escrituras, fallos, historia>>

-----------------------------------------------------------------------------
(* Queries, on a miss: a read of the projection and a setex.  A hit changes *)
(* nothing, and an item that is not there is not cached.                   *)

Contenido(k) ==
  IF k \in Item THEN proy[k]
  ELSE [i \in {j \in Item : proy[j].foto.v > 0 /\ ~proy[j].foto.eliminado} |-> proy[i]]

Consultar(q, k) ==
  /\ lector[q].en = "libre" /\ ~cache[k].hay
  /\ k \in Item => proy[k] # SinEvento
  /\ lector' = [lector EXCEPT ![q] = [en |-> "guardar", clave |-> k, valor |-> Contenido(k)]]
  /\ UNCHANGED <<fila, pet, kafka, proy, operacion, cache, escrituras, fallos, historia>>

\* An error of Redis is swallowed.
Guardar(q) ==
  /\ lector[q].en = "guardar"
  /\ \/ /\ cache' = [cache EXCEPT ![lector[q].clave] = [hay |-> TRUE, valor |-> lector[q].valor]]
        /\ UNCHANGED fallos
     \/ Falla /\ UNCHANGED cache
  /\ lector' = [lector EXCEPT ![q] = Ociosa]
  /\ UNCHANGED <<fila, pet, kafka, proy, operacion, escrituras, historia>>

\* Mutant: the key is stored without a time to live.
SinExpirar(k) == FALSE /\ UNCHANGED vars

Expira(k) ==
  /\ cache[k].hay
  /\ cache' = [cache EXCEPT ![k] = SinCache]
  /\ UNCHANGED <<fila, pet, kafka, proy, operacion, lector, escrituras, fallos, historia>>

-----------------------------------------------------------------------------
Seguir(r) == Refrescar(r) \/ Publicar(r)
Consumir == (\E i \in Item : Proyectar(i)) \/ complete_operation \/ fail_operation

Next ==
  \/ \E r \in Peticion : \/ \E t \in TipoOp, i \in Item : Escribir(r, t, i)
                         \/ Seguir(r) \/ Perder(r)
  \/ Consumir \/ AutoCommit \/ CaerConsumidor
  \/ \E o \in Operacion : ExpiraOperacion(o)
  \/ \E q \in Lector : (\E k \in Clave : Consultar(q, k)) \/ Guardar(q)
  \/ \E k \in Clave : Expira(k)

Spec == Init /\ [][Next]_vars

\* What runs goes on, and what has a time to live expires.
Justicia ==
  /\ \A r \in Peticion : WF_vars(Seguir(r))
  /\ WF_vars(Consumir)
  /\ \A q \in Lector : WF_vars(Guardar(q))
  /\ \A k \in Clave : WF_vars(Expira(k))

SpecJusta == Spec /\ Justicia

-----------------------------------------------------------------------------
\* Types, and that the consumer never commits an event it has not handled.
TypeOK ==
  /\ fila \in [Item -> Foto]
  /\ \A r \in Peticion : pet[r].foto \in Foto /\ pet[r].op \in {SinOp} \cup Operacion
  /\ \A i \in Item : /\ log[i] \in Seq(Evento)
                     /\ 0 <= confirmado[i] /\ confirmado[i] <= leido[i]
                     /\ leido[i] <= Len(log[i])
                     /\ saltados[i] \subseteq 1..Len(log[i])
  /\ consumidor.en \in {"espera", "completar", "fallar"}
  /\ consumidor.en # "espera" => consumidor.item \in Item /\ Pendiente(consumidor.item)
  /\ proy \in [Item -> Evento]
  /\ operacion \in [Operacion -> {"no", "pending", "completed", "failed"}]
  /\ DOMAIN cache = Clave /\ DOMAIN lector = Lector
  /\ escrituras \in 0..MaxEscrituras /\ fallos \in 0..MaxFallos
  /\ desviado \subseteq Item /\ perdidas \subseteq Operacion

\* What the projection of i shows after event n of its log.
Tras(i, n) == IF n = 0 THEN SinEvento ELSE log[i][n]

\* Of an item whose last commit was published whole, and with no other commit
\* of the item in the meantime, the projection shows the row once the consumer
\* has handled its log, unless the last event could not be projected: earlier
\* losses, failures, redeliveries and restarts are made good.
ProyeccionAlDia ==
  \A i \in Item \ desviado :
    (leido[i] = Len(log[i]) /\ Len(log[i]) \notin saltados[i]) => proy[i].foto = fila[i]

\* A restart replays events, so a row of the projection may go back, but to no
\* state older than the committed offset (events that failed aside).
PrefijoAplicado ==
  \A i \in Item : \E n \in 0..Len(log[i]) :
    /\ proy[i] = Tras(i, n)
    /\ (n + 1)..confirmado[i] \subseteq saltados[i]

\* An operation that the client sees completed is visible in the projection:
\* it shows that event or a later one.  While a restarted consumer replays the
\* events before it this may not hold yet; nor when Redis lost a write.
CompletadaVisible ==
  \A i \in Item : \A k \in 1..leido[i] :
    LET o == log[i][k].op IN
    (o # SinOp /\ o \notin perdidas /\ "completed" \in obtener_operacion(o)) =>
      \E n \in k..Len(log[i]) : proy[i] = Tras(i, n)

\* Once writing stops, every item whose last event was published whole and
\* could be projected reads as that event, for good.
Convergencia ==
  <>[](\A i \in Item : Len(log[i]) \notin saltados[i] => proy[i] = Tras(i, Len(log[i])))

\* No query is left with an old answer: nothing invalidates these keys, but
\* they expire, and what is stored in the end is what the projection holds.
LecturaSeRenueva == <>[](\A k \in Clave : cache[k].hay => cache[k].valor = Contenido(k))
=============================================================================
