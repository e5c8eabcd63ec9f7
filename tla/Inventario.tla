----------------------------- MODULE Inventario -----------------------------
(***************************************************************************)
(* The items: the requests that write the table (items_legacy.py, the      *)
(* transfer of v2, the upload of an image), the audit rows that SQLAlchemy *)
(* inserts with them, the listing and its cache (CacheListado).            *)
(*                                                                         *)
(* A request reads the rows it needs, decides from what it read, and       *)
(* flushes: an UPDATE of every changed row, in the order of the ids, takes *)
(* the lock of the row and keeps it until the commit.  Only the columns    *)
(* that the request changed are in the UPDATE, with the values it computed *)
(* from its read; there is no version column and no SELECT FOR UPDATE.     *)
(* After the commit it invalidates pages of the cached listing.  Several   *)
(* replicas and threads run requests: another one may run at every step.   *)
(*                                                                         *)
(* Of a row the module keeps stock, eliminado and imagen_key.  Left out:   *)
(* Elasticsearch, Kafka (see ItemsCqrs), metrics and the wording of        *)
(* answers; the cache of single items, which never stores a row.           *)
(***************************************************************************)
EXTENDS CacheListado, Integers, Functions

CONSTANTS
  Peticion,     \* requests in flight at a time
  Imagen,       \* the keys that uploads may create
  Entradas,     \* the operations that are asked for
  Iniciales,    \* the tables the run starts from
  Limite,       \* limite of the walk with a cursor
  MaxEscrituras,\* bound on the requests that write
  MaxPeticiones,\* bound on those and the listings that miss the cache
  MaxFallos     \* bound on the failures: of the database, of Redis, of a process

Ninguna == "ninguna"
Nadie == "nadie"
TipoOp == {"crear", "bulk_create", "actualizar", "eliminar", "bulk_delete", "restaurar",
           "bulk_update", "transferir", "transferir_v2", "imagen"}
Fila == [estado: {"no", "activo", "eliminado"}, stock: Nat, imagen: Imagen \cup {Ninguna}]

ASSUME InventarioOK ==
  /\ Item # {} /\ IsFiniteSet(Item) /\ Ninguna \notin Imagen /\ Nadie \notin Peticion
  /\ MaxPeticiones \in Nat /\ MaxEscrituras \in Nat /\ MaxFallos \in Nat
  /\ Limite \in Nat \ {0}
  /\ \A op \in Entradas : /\ op.tipo \in TipoOp /\ op.ids \subseteq Item /\ op.n \in Nat
                          /\ op.imagen \in Imagen \cup {Ninguna}
                          /\ op.tipo = "imagen" => op.imagen # Ninguna
                          /\ op.de \in op.ids <=> op.tipo \in {"transferir", "transferir_v2"}
                          /\ op.de \notin op.ids => op.de = 0
                          /\ op.de # 0 => \E otro \in Item : op.ids = {op.de, otro}
  /\ 0 \notin Item
  /\ Iniciales \subseteq [Item -> [estado: {"no", "activo"}, stock: Nat, imagen: {Ninguna}]]

VARIABLES
  fila,       \* items: the committed row of each id
  historial,  \* auditoria_items: the last datos_nuevos of each item
  candado,    \* candado[i]: the request that holds the lock of row i
  s3,         \* keys of the objects in the bucket
  pet,        \* pet[r]: where request r is, what it asks and what it has read
  recorrido,  \* a client that walks the items with a cursor
  escrituras, listados, fallos, \* counters of the bounds
  version,    \* history: committed changes of each row
  pisado,     \* history: items with a commit that had read an older row
  desfasado,  \* history: those whose last commit had, or has no audit row
  total,      \* history: the stock there has to be over all the rows
  sinAviso,   \* history: items whose last change has not invalidated its pages
  retirada    \* history: keys whose object a deletion removed

tablas == <<fila, historial, candado, s3>>
cuentas == <<escrituras, listados, fallos>>
historia == <<version, pisado, desfasado, total, sinAviso, retirada>>
vars == <<redis, tablas, pet, recorrido, cuentas, historia>>

Nada == [i \in {} |-> 0]
SinOp == [tipo |-> "ninguna", ids |-> {}, de |-> 0, n |-> 0, imagen |-> Ninguna]
Libre == [en |-> "libre", op |-> SinOp, leido |-> Nada, vista |-> Nada, nueva |-> Nada,
          pagina |-> 0, paginas |-> {}, meta |-> SinMeta, avisar |-> {}, item |-> 0,
          sola |-> FALSE]

\* dados[i]: times that item i was given; siempre: a history set, the items
\* that have been active since the walk began.
SinRecorrer == [en |-> "no", cursor |-> 0, dados |-> [i \in Item |-> 0], siempre |-> {}]

Suma(f) == FoldFunction(+, 0, [i \in DOMAIN f |-> f[i].stock])
EnCurso(r) == pet[r].en # "libre"
ActivosDe(f) == {i \in Item : f[i].estado = "activo"}
Activos == ActivosDe(fila)

Init ==
  /\ InitCache
  /\ fila \in Iniciales
  /\ historial = fila
  /\ candado = [i \in Item |-> Nadie]
  /\ s3 = {} /\ retirada = {}
  /\ pet = [r \in Peticion |-> Libre] /\ recorrido = SinRecorrer
  /\ escrituras = 0 /\ listados = 0 /\ fallos = 0 /\ total = Suma(fila)
  /\ version = [i \in Item |-> 0]
  /\ pisado = {} /\ desfasado = {} /\ sinAviso = {}

\* The read-through of one item.  A row is not JSON: _serialize fails, the
\* value is returned and neither level stores it, so what is read is the row.
get_or_set(i) == fila[i]
get_by_id(i) == get_or_set(i)

\* The object for which the two endpoints that answer one item sign an URL:
\* the one the row names, whether it is in the bucket or not.
obtener_item_por_id(i) == get_by_id(i).imagen
get_item(i) == fila[i].imagen

-----------------------------------------------------------------------------
(* What each endpoint makes of the rows it read: the rows it assigns, or   *)
(* nothing when it refuses.                                                *)

Existe(f) == f.estado # "no"

crear_item(op, l) ==
  [i \in op.ids |-> [estado |-> "activo", stock |-> op.n, imagen |-> Ninguna]]

bulk_create_items(op, l) == crear_item(op, l)

actualizar_item(op, l) ==
  [i \in {j \in op.ids : Existe(l[j])} |-> [l[i] EXCEPT !.stock = op.n]]

eliminar_item(op, l) ==
  [i \in {j \in op.ids : l[j].estado = "activo"} |-> [l[i] EXCEPT !.estado = "eliminado"]]

bulk_delete_items(op, l) == eliminar_item(op, l)

restaurar_item(op, l) ==
  [i \in {j \in op.ids : l[j].estado = "eliminado"} |-> [l[i] EXCEPT !.estado = "activo"]]

\* disponible is n = 1: it refuses if one of the rows has no stock left, and
\* leaves every other row with a stock of one.
bulk_update_disponible(op, l) ==
  LET hallados == {j \in op.ids : Existe(l[j])} IN
  IF op.n = 1 /\ \E j \in hallados : l[j].stock = 0 THEN Nada
  ELSE [i \in hallados |-> [l[i] EXCEPT !.stock = op.n]]

\* Mutant: the units leave the origin and reach nobody.
SoloDescuenta(op, l) ==
  LET o == op.de IN
  IF (\A i \in op.ids : l[i].estado = "activo") /\ l[o].stock >= op.n
  THEN [i \in {o} |-> [l[i] EXCEPT !.stock = @ - op.n]] ELSE Nada
\* Mutant: a transfer of more units than there are is not refused.
SinComprobar(op, l) ==
  IF \A i \in op.ids : l[i].estado = "activo"
  THEN [i \in op.ids |-> [l[i] EXCEPT !.stock = IF i = op.de THEN @ - op.n ELSE @ + op.n]]
  ELSE Nada

transferir_stock(op, l) ==
  LET o == op.de IN
  IF (\A i \in op.ids : l[i].estado = "activo") /\ l[o].stock >= op.n
  THEN [i \in op.ids |-> [l[i] EXCEPT !.stock = IF i = o THEN @ - op.n ELSE @ + op.n]]
  ELSE Nada

upload_imagen(op, l) ==
  [i \in {j \in op.ids : Existe(l[j])} |-> [l[i] EXCEPT !.imagen = op.imagen]]

Asigna(op, l) ==
  CASE op.tipo = "crear" -> crear_item(op, l)
    [] op.tipo = "bulk_create" -> bulk_create_items(op, l)
    [] op.tipo = "actualizar" -> actualizar_item(op, l)
    [] op.tipo = "eliminar" -> eliminar_item(op, l)
    [] op.tipo = "bulk_delete" -> bulk_delete_items(op, l)
    [] op.tipo = "restaurar" -> restaurar_item(op, l)
    [] op.tipo = "bulk_update" -> bulk_update_disponible(op, l)
    [] op.tipo \in {"transferir", "transferir_v2"} -> transferir_stock(op, l)
    [] op.tipo = "imagen" -> upload_imagen(op, l)

\* The rows SQLAlchemy finds changed at the flush.
Cambiadas(op, l) ==
  LET n == Asigna(op, l) IN [i \in {j \in DOMAIN n : n[j] # l[j]} |-> n[i]]

\* What the endpoint invalidates after its commit: pages that show a row it
\* changed and the first pages, only the first pages, or nothing.
AvisaItems == {"eliminar", "bulk_delete", "restaurar", "bulk_update", "transferir"}
AvisaPrimeras == {"crear", "bulk_create"}

-----------------------------------------------------------------------------
(* Steps of a request that writes.                                         *)

Ir(r, paso) == pet' = [pet EXCEPT ![r] = paso]
Fin(r) == Ir(r, Libre)

\* A request begins: the listings that are running are no longer alone.
Empezar(r, paso) ==
  /\ ~EnCurso(r)
  /\ pet' = [x \in Peticion |-> IF x = r THEN paso ELSE [pet[x] EXCEPT !.sola = FALSE]]

Alta(op) == op.tipo \in {"crear", "bulk_create"}

\* The inputs that can come: the ids of new rows are the next of the
\* sequence, the key of an upload is new, and a transfer within one item is
\* refused at once.
Admisible(op) ==
  LET usados == {i \in Item : Existe(fila[i])}
                \cup UNION {pet[x].op.ids : x \in {y \in Peticion : Alta(pet[y].op)}}
  IN /\ Alta(op) => op.ids = {i \in Item \ usados : \A j \in op.ids : \E k \in op.ids : i <= k}
     /\ op.tipo = "imagen" => op.imagen \notin s3 \cup retirada
                              /\ \A x \in Peticion : pet[x].op.imagen # op.imagen
     /\ op.tipo \in {"transferir", "transferir_v2"} => op.ids # {op.de}

Pedir(r, op) ==
  /\ escrituras < MaxEscrituras /\ escrituras + listados < MaxPeticiones
  /\ Admisible(op)
  /\ Empezar(r, [Libre EXCEPT !.en = "leer", !.op = op])
  /\ escrituras' = escrituras + 1
  /\ UNCHANGED <<recorrido, redis, tablas, listados, fallos, historia>>

\* The rows of the next SELECT: a transfer reads the origin, then the
\* destination; the others read all their rows at once.
PorLeer(p) ==
  IF p.op.de # 0 /\ p.op.de \notin DOMAIN p.leido THEN {p.op.de}
  ELSE p.op.ids \ DOMAIN p.leido

Leer(r) ==
  LET p == pet[r]
      l == [i \in DOMAIN p.leido \cup PorLeer(p) |->
              IF i \in DOMAIN p.leido THEN p.leido[i] ELSE get_by_id(i)]
      v == [i \in DOMAIN l |-> IF i \in DOMAIN p.leido THEN p.vista[i] ELSE version[i]]
      n == Cambiadas(p.op, l)
  IN /\ p.en = "leer"
     /\ IF DOMAIN l # p.op.ids
        THEN Ir(r, [p EXCEPT !.leido = l, !.vista = v])
        ELSE IF DOMAIN n = {} THEN Fin(r)
        ELSE Ir(r, [p EXCEPT !.leido = l, !.vista = v, !.nueva = n,
                      !.en = CASE p.op.tipo = "imagen" -> "subir"
                               [] p.op.tipo = "eliminar" -> "borrar_imagen"
                               [] OTHER -> "flush"])
     /\ UNCHANGED <<recorrido, redis, tablas, cuentas, historia>>

\* Mutant: the row is written although the upload failed.
SubidaIgnorada(r) ==
  /\ pet[r].en = "subir"
  /\ Ir(r, [pet[r] EXCEPT !.en = "flush"])
  /\ UNCHANGED <<recorrido, redis, tablas, cuentas, historia>>

\* The object is stored before the row names it...
SubirImagen(r) ==
  /\ pet[r].en = "subir"
  /\ s3' = s3 \cup {pet[r].op.imagen}
  /\ Ir(r, [pet[r] EXCEPT !.en = "flush"])
  /\ UNCHANGED <<recorrido, redis, fila, historial, candado, cuentas, historia>>

\* ... and eliminar_item removes it before the row is deleted, and keeps the
\* key.  An error of S3 is swallowed.
BorrarImagen(r) ==
  LET k == {f.imagen : f \in {pet[r].leido[i] : i \in pet[r].op.ids}} \ {Ninguna} IN
  /\ pet[r].en = "borrar_imagen"
  /\ \/ s3' = s3 \ k /\ retirada' = retirada \cup k
     \/ k # {} /\ UNCHANGED <<s3, retirada>>
  /\ Ir(r, [pet[r] EXCEPT !.en = "flush"])
  /\ UNCHANGED <<recorrido, redis, fila, historial, candado, cuentas, version, pisado, desfasado,
                 total, sinAviso>>

\* Mutant: the UPDATE of the destination goes out last, whatever its id.
OrigenPrimero(p, faltan) == IF p.op.de \in faltan THEN p.op.de
                            ELSE CHOOSE i \in faltan : \A j \in faltan : i >= j
\* A flush updates its rows in the order of their primary keys.
OrdenDeFlush(p, faltan) == CHOOSE i \in faltan : \A j \in faltan : i <= j

Faltan(r) == {i \in DOMAIN pet[r].nueva : ~Alta(pet[r].op) /\ candado[i] # r}

Actualizar(r) ==
  /\ pet[r].en = "flush" /\ Faltan(r) # {}
  /\ LET i == OrdenDeFlush(pet[r], Faltan(r)) IN
       /\ candado[i] = Nadie
       /\ candado' = [candado EXCEPT ![i] = r]
  /\ UNCHANGED <<recorrido, redis, fila, historial, s3, pet, cuentas, historia>>

Soltar(r) == candado' = [i \in Item |-> IF candado[i] = r THEN Nadie ELSE candado[i]]

\* The columns that differ between two states of a row, put on a third one.
SobreFila(f, antes, despues) ==
  [c \in DOMAIN f |-> IF antes[c] # despues[c] THEN despues[c] ELSE f[c]]

\* The UPDATE statement.
Update(f, antes, despues) == SobreFila(f, antes, despues)

\* Mutant: an audit that misses the images.
SinImagen(h, antes, despues) == IF antes.imagen # despues.imagen THEN h ELSE despues

\* The listener inserts the state before and after as the session knows them,
\* if they differ.
Auditar(h, antes, despues) == IF antes = despues THEN h ELSE despues

\* What its audit says of an item now: the last datos_nuevos.
obtener_estado_item_en_fecha(i) == historial[i]

\* A call to the database or to Redis raises, or a process dies.
Falla == fallos < MaxFallos /\ fallos' = fallos + 1

\* What the endpoint goes on with after its commit.
TrasCommit(r, ids) ==
  LET t == pet[r].op.tipo IN
  Ir(r, CASE t \in AvisaItems -> [Libre EXCEPT !.en = "avisar", !.avisar = ids]
          [] t \in AvisaPrimeras -> [Libre EXCEPT !.en = "primeras"]
          [] OTHER -> Libre)

\* The commit of the rows and of the audit rows of some of them: an insert that
\* raises before it reaches the database is swallowed and leaves no trace.
Confirmar(r) ==
  LET p == pet[r]
      ids == DOMAIN p.nueva
      nuevas == [i \in Item |-> IF i \in ids THEN Update(fila[i], p.leido[i], p.nueva[i])
                                ELSE fila[i]]
  IN /\ p.en = "flush" /\ Faltan(r) = {}
     /\ fila' = nuevas
     /\ \E auditados \in SUBSET ids :
          /\ IF auditados = ids THEN UNCHANGED fallos ELSE Falla
          /\ historial' = [i \in Item |-> IF i \in auditados
                             THEN Auditar(historial[i], p.leido[i], p.nueva[i]) ELSE historial[i]]
          /\ desfasado' = (desfasado \ ids) \cup (ids \ auditados)
                           \cup {i \in ids : p.vista[i] # version[i]}
     /\ Soltar(r)
     /\ version' = [i \in Item |-> IF i \in ids THEN version[i] + 1 ELSE version[i]]
     /\ pisado' = pisado \cup {i \in ids : p.vista[i] # version[i]}
     /\ total' = IF p.op.de # 0 THEN total ELSE total + Suma(nuevas) - Suma(fila)
     /\ sinAviso' = IF p.op.tipo \in AvisaItems THEN sinAviso \ ids
                    ELSE IF Alta(p.op) THEN sinAviso ELSE sinAviso \cup ids
     /\ TrasCommit(r, ids)
     /\ recorrido' = [recorrido EXCEPT !.siempre = @ \cap ActivosDe(nuevas)]
     /\ UNCHANGED <<redis, s3, escrituras, listados, retirada>>

\* An insert of the audit that fails in PostgreSQL is swallowed too, and leaves
\* the transaction aborted: the COMMIT rolls it back without an error, and the
\* request goes on as if it had written.  A creation, which reads its row again,
\* and a transfer, whose next INSERT is refused, notice and fail (Revertir).
CommitSinEfecto(r) ==
  /\ pet[r].en = "flush" /\ Faltan(r) = {}
  /\ ~Alta(pet[r].op) /\ pet[r].op.de = 0
  /\ Falla
  /\ Soltar(r)
  /\ TrasCommit(r, DOMAIN pet[r].nueva)
  /\ UNCHANGED <<recorrido, redis, fila, historial, s3, escrituras, listados, historia>>

\* forzar_error, a duplicate SKU, another error or the death of the process
\* before the commit.
Revertir(r) ==
  /\ pet[r].en = "flush"
  /\ Falla
  /\ Soltar(r)
  /\ Fin(r)
  /\ UNCHANGED <<recorrido, redis, fila, historial, s3, escrituras, listados, historia>>

-----------------------------------------------------------------------------
(* invalidate_list_caches_for_item and invalidate_first_page_list_caches.  *)
(* Each swallows the errors of its own commands: what it had left is       *)
(* skipped and its caller goes on.                                         *)

SiguienteItem(r) ==
  IF pet[r].avisar = {} THEN Fin(r)
  ELSE Ir(r, [pet[r] EXCEPT !.en = "avisar", !.item = 0, !.paginas = {}])

TomarPaginas(r) ==
  /\ pet[r].en = "avisar"
  /\ \E i \in pet[r].avisar :
       Ir(r, [pet[r] EXCEPT !.en = "invalidar", !.item = i, !.avisar = @ \ {i},
                            !.paginas = indice[i]])
  /\ UNCHANGED <<recorrido, redis, tablas, cuentas, historia>>

\* smembers raises: neither the pages of the item nor the first ones.
TomarPaginasFalla(r) ==
  /\ pet[r].en = "avisar"
  /\ Falla
  /\ \E i \in pet[r].avisar :
       /\ sinAviso' = sinAviso \cup {i}
       /\ IF pet[r].avisar = {i} THEN Fin(r) ELSE Ir(r, [pet[r] EXCEPT !.avisar = @ \ {i}])
  /\ UNCHANGED <<recorrido, redis, tablas, escrituras, listados, version, pisado, desfasado,
                 total, retirada>>

TomarPrimeras(r) ==
  /\ pet[r].en = "primeras"
  /\ Ir(r, [pet[r] EXCEPT !.en = "invalidar", !.paginas = primeras])
  /\ UNCHANGED <<recorrido, redis, tablas, cuentas, historia>>

TomarPrimerasFalla(r) ==
  /\ pet[r].en = "primeras"
  /\ Falla
  /\ Fin(r)
  /\ UNCHANGED <<recorrido, redis, tablas, escrituras, listados, historia>>

Borrar(r) ==
  /\ pet[r].en = "invalidar"
  /\ \E p \in pet[r].paginas :
       /\ Ir(r, [pet[r] EXCEPT !.en = "limpiar", !.pagina = p, !.paginas = @ \ {p},
                               !.meta = meta[p]])
       /\ BorrarPagina(p)
  /\ UNCHANGED <<recorrido, tablas, cuentas, historia>>

BorrarFalla(r) ==
  /\ pet[r].en = "invalidar"
  /\ Falla
  /\ \E p \in pet[r].paginas :
       /\ Ir(r, [pet[r] EXCEPT !.paginas = @ \ {p}])
       /\ BorradoFalla(p)
  /\ UNCHANGED <<recorrido, tablas, escrituras, listados, historia>>

Limpiar(r) ==
  /\ pet[r].en = "limpiar"
  /\ LimpiarIndices(pet[r].pagina, pet[r].meta)
  /\ Ir(r, [pet[r] EXCEPT !.en = "invalidar", !.pagina = 0, !.meta = SinMeta])
  /\ UNCHANGED <<recorrido, tablas, cuentas, historia>>

LimpiarFalla(r) ==
  /\ pet[r].en = "limpiar"
  /\ Falla
  /\ LimpiezaFalla(pet[r].pagina, pet[r].meta)
  /\ Ir(r, [pet[r] EXCEPT !.en = "invalidar", !.pagina = 0, !.meta = SinMeta])
  /\ UNCHANGED <<recorrido, tablas, escrituras, listados, historia>>

\* No page is left: after those of an item its index goes and the first
\* pages follow; after the first pages, the next item of the request.
Siguiente(r) ==
  /\ pet[r].en = "invalidar" /\ pet[r].paginas = {}
  /\ IF pet[r].item # 0
     THEN /\ BorrarIndice(pet[r].item)
          /\ Ir(r, [pet[r] EXCEPT !.item = 0, !.paginas = primeras])
     ELSE UNCHANGED redis /\ SiguienteItem(r)
  /\ UNCHANGED <<recorrido, tablas, cuentas, historia>>

\* Either the index is not deleted, or the first pages are not read.
SiguienteFalla(r) ==
  /\ pet[r].en = "invalidar" /\ pet[r].paginas = {} /\ pet[r].item # 0
  /\ Falla
  /\ UNCHANGED redis \/ BorrarIndice(pet[r].item)
  /\ SiguienteItem(r)
  /\ UNCHANGED <<recorrido, tablas, escrituras, listados, historia>>

-----------------------------------------------------------------------------
(* listar_items, on a miss (a hit changes nothing), which a page that       *)
(* cannot be read is too.                                                  *)

Listar(r, p) ==
  /\ IF pagina[p].hay THEN Falla ELSE UNCHANGED fallos
  /\ escrituras + listados < MaxPeticiones
  /\ listados' = listados + 1
  /\ Empezar(r, [Libre EXCEPT !.en = "guardar", !.pagina = p,
                   !.vista = [i \in EnPagina(p, Activos) |-> version[i]],
                   !.sola = \A x \in Peticion : ~EnCurso(x)])
  /\ UNCHANGED <<recorrido, redis, tablas, escrituras, historia>>

Guardar(r) ==
  /\ pet[r].en = "guardar"
  /\ set_cache(pet[r].pagina, pet[r].vista)
  /\ Ir(r, [pet[r] EXCEPT !.en = "registrar"])
  /\ UNCHANGED <<recorrido, tablas, cuentas, historia>>

\* The page is not stored, and registered all the same.
GuardarFalla(r) ==
  /\ pet[r].en = "guardar"
  /\ Falla
  /\ Ir(r, [pet[r] EXCEPT !.en = "registrar", !.sola = FALSE])
  /\ UNCHANGED <<recorrido, redis, tablas, escrituras, listados, historia>>

Registrar(r) ==
  /\ pet[r].en = "registrar"
  /\ register_list_cache(pet[r].pagina, DOMAIN pet[r].vista, pet[r].sola)
  /\ Fin(r)
  /\ UNCHANGED <<recorrido, tablas, cuentas, historia>>

RegistrarFalla(r) ==
  /\ pet[r].en = "registrar"
  /\ Falla
  /\ RegistroFalla(pet[r].pagina, DOMAIN pet[r].vista)
  /\ Fin(r)
  /\ UNCHANGED <<recorrido, tablas, escrituras, listados, historia>>

-----------------------------------------------------------------------------
(* A walk with a cursor: the client asks for pages, from cursor 0, as long *)
(* as has_more; any request may run between two of them.                   *)

\* Mutant: pages by position instead of by the last id that was seen.
PorPosicion(c) ==
  LET puesto(i) == Cardinality({j \in Activos : j <= i})
      items == {i \in Activos : c < puesto(i) /\ puesto(i) <= c + Limite}
  IN [items |-> items, next_cursor |-> c + Limite, has_more |-> Cardinality(Activos) > c + Limite]

listar_items_cursor(c) ==
  LET siguen == {i \in Activos : i > c}
      items == {i \in siguen : Cardinality({j \in siguen : j <= i}) <= Limite}
  IN [items |-> items,
      next_cursor |-> IF items = {} THEN 0 ELSE CHOOSE i \in items : \A j \in items : j <= i,
      has_more |-> Cardinality(siguen) > Limite]

Recorrer ==
  LET inicio == recorrido.en = "no"
      p == listar_items_cursor(recorrido.cursor)
  IN /\ recorrido.en # "fin"
     /\ inicio => escrituras + listados < MaxPeticiones
     /\ listados' = IF inicio THEN listados + 1 ELSE listados
     /\ recorrido' = [en |-> IF p.has_more THEN "sigue" ELSE "fin", cursor |-> p.next_cursor,
                      dados |-> [i \in Item |-> recorrido.dados[i] + IF i \in p.items THEN 1 ELSE 0],
                      siempre |-> IF inicio THEN Activos ELSE recorrido.siempre]
     /\ UNCHANGED <<redis, tablas, pet, escrituras, fallos, historia>>

-----------------------------------------------------------------------------
\* The process dies after its commit, or a listing before its last step, or
\* the row cannot be read back (refresh): no more pages are invalidated.
\* Before the commit, see Revertir.
Cortar(r) ==
  /\ pet[r].en \notin {"libre", "leer", "subir", "borrar_imagen", "flush"}
  /\ Falla
  /\ sinAviso' = sinAviso \cup (Item \cap (pet[r].avisar \cup {pet[r].item}))
  /\ Fin(r)
  /\ UNCHANGED <<recorrido, redis, tablas, escrituras, listados, version, pisado, desfasado,
                 total, retirada>>

Expira(p) ==
  /\ ExpiraPagina(p) \/ ExpiraMeta(p)
  /\ UNCHANGED <<recorrido, tablas, pet, cuentas, historia>>

Paso(r) ==
  \/ Leer(r) \/ SubirImagen(r) \/ BorrarImagen(r) \/ Actualizar(r) \/ Confirmar(r)
  \/ TomarPaginas(r) \/ TomarPrimeras(r) \/ Borrar(r) \/ Limpiar(r) \/ Siguiente(r)
  \/ Guardar(r) \/ Registrar(r)

FallaRedis(r) ==
  \/ TomarPaginasFalla(r) \/ TomarPrimerasFalla(r) \/ BorrarFalla(r) \/ LimpiarFalla(r)
  \/ SiguienteFalla(r) \/ GuardarFalla(r) \/ RegistrarFalla(r)

\* The bound on writers is asked first, so that TLC looks at no input beyond it.
Next ==
  \/ \E r \in Peticion :
       \/ escrituras < MaxEscrituras /\ \E op \in Entradas : Pedir(r, op)
       \/ \E p \in Pagina : Listar(r, p)
       \/ Paso(r) \/ Revertir(r) \/ CommitSinEfecto(r) \/ FallaRedis(r) \/ Cortar(r)
  \/ Recorrer
  \/ \E p \in Pagina : Expira(p)

Spec == Init /\ [][Next]_vars

\* A request that runs goes on.
Justicia == \A r \in Peticion : WF_vars(Paso(r))

SpecJusta == Spec /\ Justicia

-----------------------------------------------------------------------------
\* Types.  A stock is never negative, overlapping transfers included: the
\* value written was computed, and checked, on the row that was read.
TypeOK ==
  /\ CacheTypeOK
  /\ fila \in [Item -> Fila]
  /\ historial \in [Item -> Fila]
  /\ candado \in [Item -> Peticion \cup {Nadie}]
  /\ s3 \subseteq Imagen /\ retirada \subseteq Imagen
  /\ escrituras \in 0..MaxEscrituras /\ listados \in 0..MaxPeticiones /\ fallos \in 0..MaxFallos
  /\ version \in [Item -> Nat]
  /\ pisado \subseteq Item /\ desfasado \subseteq Item /\ sinAviso \subseteq Item
  /\ recorrido.siempre \subseteq Item

\* The audit of an item tells its row, although both are written from what the
\* request read some steps before: what estado_en_fecha answers with is the row,
\* unless the last commit of the item replaced a version it had not read, or
\* its audit row was lost.
HistorialFiel ==
  \A i \in Item \ desfasado : obtener_estado_item_en_fecha(i) = fila[i]

\* Transfers move stock and neither make nor lose any: over all the rows
\* there is what the absolute writes (create, update, bulk) left, whatever
\* was refused, rolled back or cut short, as long as no commit replaced a
\* version it had not read.  Without a lock on the read, a transfer that
\* overlaps another writer of its rows can lose units.
TotalCuadra == pisado = {} => Suma(fila) = total

\* An URL that either endpoint gives leads to an object that is in the bucket,
\* unless a deletion of the item removed it: an upload that fails half way
\* leaves no row that names its object.
ImagenRespaldada ==
  \A i \in Item : \A k \in {obtener_item_por_id(i), get_item(i)} \ ({Ninguna} \cup retirada) : k \in s3

\* When nothing runs, a cached page that was stored while nothing else ran, and
\* of which no deletion has failed, shows the current version of each of its
\* items, except of those whose last change has not invalidated its pages: that
\* of actualizar_item, the transfer of v2 or an upload, or one whose request was
\* cut short or could not read the index of the item.
PaginaSolaAlDia ==
  (\A r \in Peticion : ~EnCurso(r)) =>
    \A p \in Pagina : pagina[p].sola =>
      \A i \in DOMAIN pagina[p].muestra : i \in sinAviso \/ pagina[p].muestra[i] = version[i]

\* A walk with a cursor that ends has given every item that was active all
\* along, and none twice, whatever was created, deleted or restored meanwhile.
RecorridoCompleto ==
  \A i \in Item : /\ recorrido.dados[i] <= 1
                  /\ (recorrido.en = "fin" /\ i \in recorrido.siempre) => recorrido.dados[i] = 1

\* Of the requests that are writing one can always go on, whatever rows they
\* ask for: no two of them, nor more, each wait for a row that the next holds.
PuedeSeguir(r) ==
  /\ pet[r].en = "flush"
  /\ Faltan(r) = {} \/ candado[OrdenDeFlush(pet[r], Faltan(r))] = Nadie
SinAbrazo == (\E r \in Peticion : pet[r].en = "flush") => \E r \in Peticion : PuedeSeguir(r)

\* Every request ends: the row locks never make requests wait for each other.
PeticionTermina == \A r \in Peticion : []<>~EnCurso(r)
=============================================================================
