-------------------------- MODULE InventarioProofs --------------------------
(***************************************************************************)
(* Safety of the items for any tables, requests, operations and bounds:    *)
(* the types (no stock is negative), what the audit tells of a row, the    *)
(* objects that the rows name, the stock that transfers keep, the walk     *)
(* with a cursor, the cached pages and the row locks.                      *)
(***************************************************************************)
EXTENDS Inventario, Sumas

-----------------------------------------------------------------------------
(* The inductive invariant.                                                *)

Filas == UNION {[S -> Fila] : S \in SUBSET Item}
Numeros == UNION {[S -> Nat] : S \in SUBSET Item}
MetaT == [hay: BOOLEAN, ids: SUBSET Item]
PaginaT == [hay: BOOLEAN, muestra: Numeros, sola: BOOLEAN]
En == {"libre", "leer", "subir", "borrar_imagen", "flush", "avisar", "primeras", "invalidar",
       "limpiar", "guardar", "registrar"}
PetT == [en: En, op: Entradas \cup {SinOp}, leido: Filas, vista: Numeros, nueva: Filas,
         pagina: Pagina \cup {0}, paginas: SUBSET Pagina, meta: MetaT, avisar: SUBSET Item,
         item: Item \cup {0}, sola: BOOLEAN]

Hay == s3 \cup retirada \cup {Ninguna}

\* What a request has read is of a version there was, and is the row if the
\* version is the current one; an object it is going to name is there.
Leida(p) ==
  \A i \in DOMAIN p.leido :
    p.vista[i] \in 0..version[i] /\ (p.vista[i] = version[i] => p.leido[i] = fila[i])
Nombra(p) ==
  /\ DOMAIN p.nueva \subseteq DOMAIN p.leido /\ \A i \in DOMAIN p.nueva : p.nueva[i] # p.leido[i]
  /\ p.en = "subir" => p.op.tipo = "imagen" /\ \A i \in DOMAIN p.nueva : p.nueva[i].imagen = p.op.imagen
  /\ p.en \in {"borrar_imagen", "flush"} =>
       \A i \in DOMAIN p.nueva : p.nueva[i].imagen = p.leido[i].imagen \/ p.nueva[i].imagen \in Hay
PetOK(p) ==
  /\ Leida(p) /\ Nombra(p)
  /\ p.en \in {"leer", "subir", "borrar_imagen"} => p.op \in Entradas
  /\ p.en = "borrar_imagen" => p.op.ids \subseteq DOMAIN p.leido
  /\ p.en \in {"limpiar", "guardar", "registrar"} => p.pagina \in Pagina

Cache ==
  /\ pagina \in [Pagina -> PaginaT] /\ meta \in [Pagina -> MetaT]
  /\ indice \in [Item -> SUBSET Pagina] /\ primeras \subseteq Pagina
Tablas ==
  /\ fila \in [Item -> Fila] /\ historial \in [Item -> Fila]
  /\ version \in [Item -> Nat] /\ pisado \subseteq Item /\ desfasado \subseteq Item
Objetos ==
  /\ s3 \subseteq Imagen /\ retirada \subseteq Imagen
  /\ \A i \in Item : fila[i].imagen \in Hay
Resto ==
  /\ candado \in [Item -> Peticion \cup {Nadie}] /\ sinAviso \subseteq Item
  /\ escrituras \in 0..MaxEscrituras /\ listados \in 0..MaxPeticiones /\ fallos \in 0..MaxFallos
  /\ "siempre" \in DOMAIN recorrido /\ recorrido.siempre \subseteq Item
Peticiones == pet \in [Peticion -> PetT] /\ \A r \in Peticion : PetOK(pet[r])

Inv == Cache /\ Tablas /\ Objetos /\ Resto /\ Peticiones /\ HistorialFiel

LEMMA InvDice == Inv => TypeOK /\ HistorialFiel /\ ImagenRespaldada
<1> SUFFICES ASSUME Inv  PROVE TypeOK /\ HistorialFiel /\ ImagenRespaldada
  OBVIOUS
<1>1. CacheTypeOK
  <2>1. ASSUME NEW p \in Pagina
        PROVE  /\ pagina[p].hay \in BOOLEAN /\ pagina[p].sola \in BOOLEAN
               /\ DOMAIN pagina[p].muestra \subseteq Item
               /\ meta[p].hay \in BOOLEAN /\ meta[p].ids \subseteq Item
    <3>1. pagina[p] \in PaginaT /\ meta[p] \in MetaT
      BY DEF Inv, Cache
    <3>2. pagina[p].muestra \in Numeros
      BY <3>1 DEF PaginaT
    <3>3. QED
      BY <3>1, <3>2 DEF PaginaT, MetaT, Numeros
  <2>2. QED
    BY <2>1 DEF CacheTypeOK, Inv, Cache
<1>2. QED
  BY <1>1 DEF Inv, Tablas, Objetos, Resto, TypeOK, ImagenRespaldada, Hay, obtener_item_por_id, get_item,
     get_by_id, get_or_set

-----------------------------------------------------------------------------
(* Rows.                                                                   *)

LEMMA SobreFilaT ==
  ASSUME NEW f \in Fila, NEW a \in Fila, NEW d \in Fila
  PROVE  /\ SobreFila(f, a, d) \in Fila
         /\ SobreFila(f, a, d).imagen = IF a.imagen # d.imagen THEN d.imagen ELSE f.imagen
         /\ SobreFila(a, a, d) = d
<1> DEFINE C == {"estado", "stock", "imagen"}
           Sobre(x) == [c \in C |-> IF a[c] # d[c] THEN d[c] ELSE x[c]]
<1>1. DOMAIN f = C /\ DOMAIN a = C /\ DOMAIN d = C
  BY DEF Fila
<1>2. SobreFila(f, a, d) = Sobre(f) /\ SobreFila(a, a, d) = Sobre(a)
  BY <1>1 DEF SobreFila
<1>3. Sobre(f) = [estado |-> Sobre(f).estado, stock |-> Sobre(f).stock, imagen |-> Sobre(f).imagen]
  OBVIOUS
<1>4. /\ Sobre(f).estado \in {f.estado, d.estado} /\ Sobre(f).stock \in {f.stock, d.stock}
      /\ Sobre(f).imagen \in {f.imagen, d.imagen}
      /\ Sobre(f).imagen = IF a.imagen # d.imagen THEN d.imagen ELSE f.imagen
  OBVIOUS
<1>5. Sobre(a) = d
  <2>1. \A c \in C : Sobre(a)[c] = d[c]
    OBVIOUS
  <2>2. DOMAIN Sobre(a) = C /\ d = [c \in C |-> d[c]]
    BY <1>1 DEF Fila
  <2>3. QED
    BY <2>1, <2>2
<1> HIDE DEF Sobre
<1>6. QED
  BY <1>2, <1>3, <1>4, <1>5 DEF Fila

\* What may be asked for.
LEMMA OpT ==
  ASSUME NEW op \in Entradas
  PROVE  /\ op.tipo \in TipoOp /\ op.n \in Nat /\ op.ids \subseteq Item
         /\ op.tipo = "imagen" => op.imagen \in Imagen
         /\ op.tipo \in {"transferir", "transferir_v2"} => op.de \in op.ids
         /\ op.de \in op.ids \/ op.de = 0
<1>1. /\ op.tipo \in TipoOp /\ op.ids \subseteq Item /\ op.n \in Nat
      /\ op.imagen \in Imagen \cup {Ninguna} /\ (op.tipo = "imagen" => op.imagen # Ninguna)
      /\ op.de \in op.ids <=> op.tipo \in {"transferir", "transferir_v2"}
      /\ op.de \notin op.ids => op.de = 0
  BY InventarioOK
<1>2. op.tipo = "imagen" => op.imagen \in Imagen
  BY <1>1
<1>3. QED
  BY <1>1, <1>2

\* The rows an operation assigns are among those it asks for, and are rows; a
\* transfer leaves no negative stock; only an upload names an object.
LEMMA AsignaT ==
  ASSUME NEW op \in Entradas, NEW l \in [op.ids -> Fila]
  PROVE  /\ DOMAIN Asigna(op, l) \subseteq op.ids
         /\ \A i \in DOMAIN Asigna(op, l) :
              /\ Asigna(op, l)[i] \in Fila
              /\ Asigna(op, l)[i].imagen = IF op.tipo = "imagen" THEN op.imagen
                                           ELSE IF Alta(op) THEN Ninguna ELSE l[i].imagen
         /\ Asigna(op, l) = [i \in DOMAIN Asigna(op, l) |-> Asigna(op, l)[i]]
<1>1. op.tipo \in TipoOp /\ op.n \in Nat /\ (op.tipo = "imagen" => op.imagen \in Imagen)
  BY OpT
<1>2. \A i \in op.ids : l[i] \in Fila
  OBVIOUS
<1>3. DOMAIN Nada = {} /\ Nada = [i \in {} |-> Nada[i]]
  BY DEF Nada
<1>4. CASE op.tipo \in {"crear", "bulk_create"}
  <2>1. Asigna(op, l) = [i \in op.ids |-> [estado |-> "activo", stock |-> op.n, imagen |-> Ninguna]]
    BY <1>4 DEF Asigna, crear_item, bulk_create_items
  <2>2. [estado |-> "activo", stock |-> op.n, imagen |-> Ninguna] \in Fila
    BY <1>1 DEF Fila
  <2>3. QED
    BY <1>4, <2>1, <2>2 DEF Alta
<1>5. CASE op.tipo = "actualizar"
  <2> DEFINE S == {j \in op.ids : Existe(l[j])}
             h(i) == [l[i] EXCEPT !.stock = op.n]
  <2>1. Asigna(op, l) = [i \in S |-> h(i)]
    BY <1>5 DEF Asigna, actualizar_item
  <2>2. S \subseteq op.ids /\ \A i \in op.ids : h(i) \in Fila /\ h(i).imagen = l[i].imagen
    BY <1>1, <1>2, <1>5 DEF Fila
  <2> HIDE DEF S, h
  <2>3. QED
    BY <1>3, <1>5, <2>1, <2>2 DEF Alta
<1>6. CASE op.tipo \in {"eliminar", "bulk_delete"}
  <2> DEFINE S == {j \in op.ids : l[j].estado = "activo"}
             h(i) == [l[i] EXCEPT !.estado = "eliminado"]
  <2>1. Asigna(op, l) = [i \in S |-> h(i)]
    BY <1>6 DEF Asigna, eliminar_item, bulk_delete_items
  <2>2. S \subseteq op.ids /\ \A i \in op.ids : h(i) \in Fila /\ h(i).imagen = l[i].imagen
    BY <1>1, <1>2, <1>6 DEF Fila
  <2> HIDE DEF S, h
  <2>3. QED
    BY <1>3, <1>6, <2>1, <2>2 DEF Alta
<1>7. CASE op.tipo = "restaurar"
  <2> DEFINE S == {j \in op.ids : l[j].estado = "eliminado"}
             h(i) == [l[i] EXCEPT !.estado = "activo"]
  <2>1. Asigna(op, l) = [i \in S |-> h(i)]
    BY <1>7 DEF Asigna, restaurar_item
  <2>2. S \subseteq op.ids /\ \A i \in op.ids : h(i) \in Fila /\ h(i).imagen = l[i].imagen
    BY <1>1, <1>2, <1>7 DEF Fila
  <2> HIDE DEF S, h
  <2>3. QED
    BY <1>3, <1>7, <2>1, <2>2 DEF Alta
<1>8. CASE op.tipo = "bulk_update"
  <2> DEFINE S == {j \in op.ids : Existe(l[j])}
             h(i) == [l[i] EXCEPT !.stock = op.n]
  <2>1. Asigna(op, l) = Nada \/ Asigna(op, l) = [i \in S |-> h(i)]
    BY <1>8 DEF Asigna, bulk_update_disponible
  <2>2. S \subseteq op.ids /\ \A i \in op.ids : h(i) \in Fila /\ h(i).imagen = l[i].imagen
    BY <1>1, <1>2, <1>8 DEF Fila
  <2> HIDE DEF S, h
  <2>3. QED
    BY <1>3, <1>8, <2>1, <2>2, ZenonT(40) DEF Alta
<1>9. CASE op.tipo \in {"transferir", "transferir_v2"}
  <2> DEFINE h(i) == [l[i] EXCEPT !.stock = IF i = op.de THEN @ - op.n ELSE @ + op.n]
  <2>1. Asigna(op, l) = Nada \/ (Asigna(op, l) = [i \in op.ids |-> h(i)] /\ l[op.de].stock >= op.n)
    BY <1>9 DEF Asigna, transferir_stock
  <2>2. ASSUME l[op.de].stock >= op.n, NEW i \in op.ids  PROVE h(i) \in Fila /\ h(i).imagen = l[i].imagen
    <3> DEFINE m == IF i = op.de THEN l[i].stock - op.n ELSE l[i].stock + op.n
    <3>1. l[i].stock \in Nat
      BY <1>2 DEF Fila
    <3>2. m \in Nat
      BY <1>1, <2>2, <3>1
    <3>3. h(i) = [l[i] EXCEPT !.stock = m]
      BY <1>2 DEF Fila
    <3> HIDE DEF m, h
    <3>4. QED
      BY <1>2, <3>2, <3>3 DEF Fila
  <2> HIDE DEF h
  <2>3. QED
    BY <1>3, <1>9, <2>1, <2>2 DEF Alta
<1>10. CASE op.tipo = "imagen"
  <2> DEFINE S == {j \in op.ids : Existe(l[j])}
             h(i) == [l[i] EXCEPT !.imagen = op.imagen]
  <2>1. Asigna(op, l) = [i \in S |-> h(i)]
    BY <1>10 DEF Asigna, upload_imagen
  <2>2. S \subseteq op.ids /\ \A i \in op.ids : h(i) \in Fila /\ h(i).imagen = op.imagen
    BY <1>1, <1>2, <1>10 DEF Fila
  <2> HIDE DEF S, h
  <2>3. QED
    BY <1>3, <1>10, <2>1, <2>2 DEF Alta
<1>11. QED
  BY <1>1, <1>4, <1>5, <1>6, <1>7, <1>8, <1>9, <1>10 DEF TipoOp

LEMMA CambiadasT ==
  ASSUME NEW op \in Entradas, NEW l \in [op.ids -> Fila]
  PROVE  /\ Cambiadas(op, l) \in Filas /\ DOMAIN Cambiadas(op, l) \subseteq op.ids
         /\ \A i \in DOMAIN Cambiadas(op, l) :
              /\ Cambiadas(op, l)[i].imagen = IF op.tipo = "imagen" THEN op.imagen
                                              ELSE IF Alta(op) THEN Ninguna ELSE l[i].imagen
              /\ Cambiadas(op, l)[i] # l[i]
<1> DEFINE n == Asigna(op, l)
           S == {j \in DOMAIN n : n[j] # l[j]}
<1>1. /\ DOMAIN n \subseteq op.ids
      /\ \A i \in DOMAIN n : n[i] \in Fila /\ n[i].imagen = IF op.tipo = "imagen" THEN op.imagen
                                             ELSE IF Alta(op) THEN Ninguna ELSE l[i].imagen
  BY AsignaT
<1>2. Cambiadas(op, l) = [i \in S |-> n[i]]
  BY DEF Cambiadas
<1> HIDE DEF n
<1>3. op.ids \subseteq Item
  BY InventarioOK
<1>4. S \in SUBSET Item /\ [i \in S |-> n[i]] \in [S -> Fila]
  BY <1>1, <1>3
<1>5. [i \in S |-> n[i]] \in Filas
  BY <1>4 DEF Filas
<1>6. QED
  BY <1>1, <1>2, <1>5
-----------------------------------------------------------------------------
(* The states of a request.                                                *)

LEMMA LibreT ==
  /\ Libre \in PetT /\ SinOp \in Entradas \cup {SinOp} /\ SinMeta \in MetaT
  /\ Libre.en = "libre" /\ Libre.leido = Nada /\ Libre.nueva = Nada
  /\ DOMAIN Nada = {} /\ Nada \in Filas /\ Nada \in Numeros
<1>1. DOMAIN Nada = {} /\ Nada \in [{} -> Fila] /\ Nada \in [{} -> Nat]
  BY DEF Nada
<1>2. Nada \in Filas /\ Nada \in Numeros
  BY <1>1 DEF Filas, Numeros
<1>3. SinMeta \in MetaT
  BY DEF SinMeta, MetaT
<1> HIDE DEF Nada
<1>4. QED
  BY <1>1, <1>2, <1>3 DEF Libre, PetT, En

\* A request that has read nothing has read nothing old.
LEMMA VacioOK ==
  ASSUME NEW q, q.leido = Nada, q.nueva = Nada, q.en = "leer" => q.op \in Entradas,
         q.en \notin {"subir", "borrar_imagen"},
         q.en \in {"limpiar", "guardar", "registrar"} => q.pagina \in Pagina
  PROVE  PetOK(q) /\ PetOK(q)'
BY LibreT DEF PetOK, Leida, Nombra

\* What holds of a request goes on holding while no row changes and no object
\* is lost.
LEMMA OkSigue ==
  ASSUME UNCHANGED <<fila, version>>, Hay \subseteq Hay', NEW q, PetOK(q)
  PROVE  PetOK(q)'
BY DEF PetOK, Leida, Nombra

\* After its commit a request goes from place to place, and keeps what it read.
Sigue(p, q) ==
  /\ q \in PetT /\ q.leido = p.leido /\ q.nueva = p.nueva /\ q.vista = p.vista
  /\ q.en \notin {"leer", "subir", "borrar_imagen", "flush"}
  /\ q.en \in {"limpiar", "guardar", "registrar"} => q.pagina \in Pagina

LEMMA SigueOK ==
  ASSUME NEW p, NEW q, PetOK(p), Sigue(p, q)
  PROVE  PetOK(q)
BY DEF PetOK, Leida, Nombra, Sigue

\* What a step of a request is that leaves the rows alone.
Cambia(r) ==
  /\ UNCHANGED <<fila, historial, version, pisado, desfasado>> /\ Hay \subseteq Hay'
  /\ \E q : /\ pet' = [pet EXCEPT ![r] = q]
            /\ q \in PetT /\ (PetOK(q) \/ PetOK(q)')

LEMMA PeticionesSiguen ==
  ASSUME Inv, NEW r \in Peticion, Cambia(r)
  PROVE  Peticiones'
<1>1. PICK q : /\ pet' = [pet EXCEPT ![r] = q]
               /\ q \in PetT /\ (PetOK(q) \/ PetOK(q)')
  BY DEF Cambia
<1>2. pet' \in [Peticion -> PetT] /\ pet'[r] = q /\ \A x \in Peticion \ {r} : pet'[x] = pet[x]
  BY <1>1 DEF Inv, Peticiones
<1>3. ASSUME NEW x \in Peticion, NEW z, z = pet'[x]  PROVE PetOK(z)'
  <2>1. CASE x = r
    BY <1>1, <1>2, <1>3, <2>1, OkSigue DEF Cambia
  <2>2. CASE x # r
    <3>1. PetOK(z)
      BY <1>2, <1>3, <2>2 DEF Inv, Peticiones
    <3>2. QED
      BY <3>1, OkSigue DEF Cambia
  <2>3. QED
    BY <2>1, <2>2
<1>4. QED
  BY <1>2, <1>3 DEF Peticiones, PetOK, Leida, Nombra

\* The rows, what is said of them, and the objects they name.
LEMMA TablasSiguen ==
  ASSUME Inv, UNCHANGED <<fila, historial, version, pisado, desfasado>>
  PROVE  /\ Tablas' /\ HistorialFiel'
         /\ s3' \subseteq Imagen /\ retirada' \subseteq Imagen /\ Hay \subseteq Hay' => Objetos'
         /\ UNCHANGED <<s3, retirada>> => Objetos' /\ Hay \subseteq Hay'
BY DEF Inv, Tablas, Objetos, Hay, HistorialFiel, obtener_estado_item_en_fecha
-----------------------------------------------------------------------------
(* The cache.                                                              *)

LEMMA VaciaT == Vacia \in PaginaT /\ SinMeta \in MetaT
<1>1. SinMuestra \in [{} -> Nat]
  BY DEF SinMuestra
<1>2. SinMuestra \in Numeros
  BY <1>1 DEF Numeros
<1>3. QED
  BY <1>2 DEF Vacia, PaginaT, SinMeta, MetaT

LEMMA CacheBorrar ==
  ASSUME Cache, NEW p \in Pagina, BorrarPagina(p) \/ ExpiraPagina(p) \/ ExpiraMeta(p)
  PROVE  Cache'
BY VaciaT DEF BorrarPagina, ExpiraPagina, ExpiraMeta, Cache

LEMMA CacheBorradoFalla ==
  ASSUME Cache, NEW p \in Pagina, BorradoFalla(p)
  PROVE  Cache'
<1> DEFINE g == [pagina[p] EXCEPT !.sola = FALSE]
<1>1. pagina[p] \in PaginaT
  BY DEF Cache
<1>2. g \in PaginaT
  BY <1>1 DEF PaginaT
<1>3. pagina' = [pagina EXCEPT ![p] = g] \/ pagina' = [pagina EXCEPT ![p] = Vacia]
  BY DEF BorradoFalla
<1> HIDE DEF g
<1>4. QED
  BY <1>2, <1>3, VaciaT DEF BorradoFalla, Cache

LEMMA CacheLimpiar ==
  ASSUME Cache, NEW p \in Pagina, NEW leida \in MetaT, LimpiarIndices(p, leida)
  PROVE  Cache'
BY DEF LimpiarIndices, Cache

LEMMA CacheLimpiezaFalla ==
  ASSUME Cache, NEW p \in Pagina, NEW leida \in MetaT, LimpiezaFalla(p, leida)
  PROVE  Cache'
<1>1. CASE UNCHANGED redis
  BY <1>1 DEF redis, Cache
<1>2. CASE \E i \in leida.ids : LimpiarIndices(p, [leida EXCEPT !.ids = {j \in @ : j < i}])
  <2>1. PICK i \in leida.ids : LimpiarIndices(p, [leida EXCEPT !.ids = {j \in @ : j < i}])
    BY <1>2
  <2>2. [leida EXCEPT !.ids = {j \in @ : j < i}] \in MetaT
    BY DEF MetaT
  <2>3. QED
    BY <2>1, <2>2, CacheLimpiar
<1>3. QED
  BY <1>1, <1>2 DEF LimpiezaFalla

LEMMA CacheIndice ==
  ASSUME Cache, NEW i \in Item, BorrarIndice(i)
  PROVE  Cache'
BY DEF BorrarIndice, Cache

LEMMA CacheGuardar ==
  ASSUME Cache, NEW p \in Pagina, NEW m \in Numeros, set_cache(p, m)
  PROVE  Cache'
<1>1. [hay |-> TRUE, muestra |-> m, sola |-> FALSE] \in PaginaT
  BY DEF PaginaT
<1>2. QED
  BY <1>1 DEF set_cache, Cache

LEMMA CacheRegistrar ==
  ASSUME Cache, NEW p \in Pagina, NEW ids \in SUBSET Item, NEW b \in BOOLEAN,
         register_list_cache(p, ids, b)
  PROVE  Cache'
<1>1. [hay |-> TRUE, ids |-> ids] \in MetaT
  BY DEF MetaT
<1>2. meta' \in [Pagina -> MetaT] /\ indice' \in [Item -> SUBSET Pagina] /\ primeras' \subseteq Pagina
  BY <1>1 DEF register_list_cache, ConPrimera, IndexaItems, Cache
<1> DEFINE c == b /\ pagina[p].hay
           g == [pagina[p] EXCEPT !.sola = c]
<1>3. pagina[p] \in PaginaT /\ c \in BOOLEAN
  BY DEF Cache
<1>4. pagina' = [pagina EXCEPT ![p] = g]
  BY DEF register_list_cache
<1> HIDE DEF c
<1>5. g \in PaginaT
  BY <1>3 DEF PaginaT
<1> HIDE DEF g
<1>6. QED
  BY <1>2, <1>4, <1>5 DEF Cache

LEMMA CacheRegistroFalla ==
  ASSUME Cache, NEW p \in Pagina, NEW ids \in SUBSET Item, RegistroFalla(p, ids)
  PROVE  Cache'
<1>1. [hay |-> TRUE, ids |-> ids] \in MetaT
  BY DEF MetaT
<1>2. UNCHANGED pagina /\ ConPrimera(p) \subseteq Pagina
  BY DEF RegistroFalla, ConPrimera, Cache
<1>3. CASE UNCHANGED <<meta, indice>> /\ (UNCHANGED primeras \/ primeras' = ConPrimera(p))
  BY <1>2, <1>3 DEF Cache
<1>4. CASE \E i \in ids : /\ primeras' = ConPrimera(p)
                          /\ meta' = [meta EXCEPT ![p] = [hay |-> TRUE, ids |-> ids]]
                          /\ IndexaItems(p, {j \in ids : j < i})
  BY <1>1, <1>2, <1>4 DEF IndexaItems, Cache
<1>5. QED
  BY <1>3, <1>4 DEF RegistroFalla

-----------------------------------------------------------------------------
(* The steps.                                                              *)

LEMMA InvInicio == Init => Inv
<1> SUFFICES ASSUME Init  PROVE Inv
  OBVIOUS
<1>1. fila \in [Item -> [estado: {"no", "activo"}, stock: Nat, imagen: {Ninguna}]]
  BY InventarioOK DEF Init
<1>2. \A i \in Item : fila[i] \in Fila /\ fila[i].imagen = Ninguna
  BY <1>1 DEF Fila
<1>3. Tablas /\ Objetos /\ HistorialFiel
  BY <1>1, <1>2 DEF Init, Tablas, Objetos, Hay, HistorialFiel, obtener_estado_item_en_fecha
<1>4. Cache
  BY VaciaT DEF Init, InitCache, Cache
<1>5. Resto
  BY InventarioOK DEF Init, Resto, SinRecorrer
<1>6. Peticiones
  BY LibreT, VacioOK DEF Init, Peticiones
<1>7. QED
  BY <1>3, <1>4, <1>5, <1>6 DEF Inv

\* The next rows are read; when all are, the request knows what to write.
LEMMA LeerPaso ==
  ASSUME Inv, NEW r \in Peticion, Leer(r)
  PROVE  Inv'
<1> DEFINE p == pet[r]
           S == DOMAIN p.leido \cup PorLeer(p)
           l == [i \in S |-> IF i \in DOMAIN p.leido THEN p.leido[i] ELSE get_by_id(i)]
           v == [i \in DOMAIN l |-> IF i \in DOMAIN p.leido THEN p.vista[i] ELSE version[i]]
           n == Cambiadas(p.op, l)
           e == CASE p.op.tipo = "imagen" -> "subir" [] p.op.tipo = "eliminar" -> "borrar_imagen"
                  [] OTHER -> "flush"
<1>1. /\ p \in PetT /\ PetOK(p) /\ p.en = "leer" /\ p.op \in Entradas
      /\ fila \in [Item -> Fila] /\ version \in [Item -> Nat]
  BY DEF Leer, Inv, Peticiones, PetOK, Tablas
<1>2. /\ UNCHANGED <<recorrido, redis, tablas, cuentas, historia>>
      /\ \/ pet' = [pet EXCEPT ![r] = [p EXCEPT !.leido = l, !.vista = v]]
         \/ pet' = [pet EXCEPT ![r] = Libre]
         \/ DOMAIN l = p.op.ids
            /\ pet' = [pet EXCEPT ![r] = [p EXCEPT !.leido = l, !.vista = v, !.nueva = n, !.en = e]]
  BY DEF Leer, Ir, Fin
<1>3. S \in SUBSET Item
  <2>1. p.leido \in Filas
    BY <1>1 DEF PetT
  <2>2. DOMAIN p.leido \subseteq Item
    BY <2>1 DEF Filas
  <2>3. PorLeer(p) \subseteq Item
    BY <1>1, OpT DEF PorLeer
  <2>4. QED
    BY <2>2, <2>3
<1>4. /\ DOMAIN l = S /\ DOMAIN v = S /\ DOMAIN p.leido \subseteq S
      /\ \A i \in DOMAIN p.leido : l[i] = p.leido[i]
  OBVIOUS
<1>5. ASSUME NEW i \in S
      PROVE  l[i] \in Fila /\ v[i] \in 0..version[i] /\ (v[i] = version[i] => l[i] = fila[i])
  <2>1. CASE i \in DOMAIN p.leido
    <3>1. p.leido[i] \in Fila
      <4>1. p.leido \in Filas
        BY <1>1 DEF PetT
      <4>2. QED
        BY <2>1, <4>1 DEF Filas
    <3>2. p.vista[i] \in 0..version[i] /\ (p.vista[i] = version[i] => p.leido[i] = fila[i])
      BY <1>1, <2>1 DEF PetOK, Leida
    <3>3. QED
      BY <2>1, <3>1, <3>2
  <2>2. CASE i \notin DOMAIN p.leido
    <3>1. i \in Item
      BY <1>3
    <3>2. l[i] = fila[i] /\ v[i] = version[i] /\ version[i] \in Nat /\ fila[i] \in Fila
      BY <1>1, <2>2, <3>1 DEF get_by_id, get_or_set
    <3>3. QED
      BY <3>2
  <2>3. QED
    BY <2>1, <2>2
<1>6. DOMAIN l = p.op.ids => /\ n \in Filas /\ DOMAIN n \subseteq p.op.ids
                             /\ \A i \in DOMAIN n :
                                  /\ n[i].imagen = IF p.op.tipo = "imagen" THEN p.op.imagen
                                                   ELSE IF Alta(p.op) THEN Ninguna ELSE l[i].imagen
                                  /\ n[i] # l[i]
  <2>1. SUFFICES ASSUME DOMAIN l = p.op.ids
                 PROVE  /\ n \in Filas /\ DOMAIN n \subseteq p.op.ids
                        /\ \A i \in DOMAIN n :
                             /\ n[i].imagen = IF p.op.tipo = "imagen" THEN p.op.imagen
                                              ELSE IF Alta(p.op) THEN Ninguna ELSE l[i].imagen
                             /\ n[i] # l[i]
    OBVIOUS
  <2>2. l \in [p.op.ids -> Fila]
    BY <1>4, <1>5, <2>1
  <2> HIDE DEF l
  <2>3. QED
    BY <1>1, <2>2, CambiadasT
<1>7. l \in Filas /\ v \in Numeros
  <2>1. l \in [S -> Fila]
    BY <1>5
  <2>2. v \in [S -> Nat]
    <3>1. ASSUME NEW i \in S  PROVE v[i] \in Nat
      <4>1. v[i] \in 0..version[i] /\ version[i] \in Nat
        BY <1>1, <1>3, <1>5
      <4>2. QED
        BY <4>1
    <3> HIDE DEF S
    <3>2. QED
      BY <1>4, <3>1
  <2> HIDE DEF S, l, v
  <2>3. QED
    BY <1>3, <2>1, <2>2 DEF Filas, Numeros
<1> HIDE DEF S, l, v, n
<1>8. e \in {"subir", "borrar_imagen", "flush"} /\ e \in En /\ (e = "subir" <=> p.op.tipo = "imagen")
  BY DEF En
<1>9. \E q : pet' = [pet EXCEPT ![r] = q] /\ q \in PetT /\ PetOK(q)
  <2>1. CASE pet' = [pet EXCEPT ![r] = [p EXCEPT !.leido = l, !.vista = v]]
    <3> DEFINE q == [p EXCEPT !.leido = l, !.vista = v]
    <3>1. q \in PetT /\ q.leido = l /\ q.vista = v /\ q.nueva = p.nueva /\ q.en = p.en /\ q.op = p.op
      BY <1>1, <1>7 DEF PetT
    <3>2. pet' = [pet EXCEPT ![r] = q]
      BY <2>1
    <3> HIDE DEF q
    <3>3. PetOK(q)
      BY <1>1, <1>4, <1>5, <3>1 DEF PetOK, Leida, Nombra
    <3>4. QED
      BY <3>1, <3>2, <3>3
  <2>2. CASE pet' = [pet EXCEPT ![r] = Libre]
    BY <2>2, LibreT, VacioOK
  <2>3. CASE /\ DOMAIN l = p.op.ids
             /\ pet' = [pet EXCEPT ![r] = [p EXCEPT !.leido = l, !.vista = v, !.nueva = n, !.en = e]]
    <3> DEFINE q == [p EXCEPT !.leido = l, !.vista = v, !.nueva = n, !.en = e]
    <3> HIDE DEF e
    <3>1. q \in PetT /\ q.leido = l /\ q.vista = v /\ q.nueva = n /\ q.en = e /\ q.op = p.op
      BY <1>1, <1>6, <1>7, <1>8, <2>3 DEF PetT
    <3>2. pet' = [pet EXCEPT ![r] = q]
      BY <2>3
    <3> HIDE DEF q
    <3>3. Leida(q)
      BY <1>4, <1>5, <3>1 DEF Leida
    <3>4. Nombra(q)
      <4>1. /\ DOMAIN q.nueva \subseteq DOMAIN q.leido
            /\ \A i \in DOMAIN q.nueva : q.nueva[i] # q.leido[i]
        BY <1>6, <2>3, <3>1
      <4>2. CASE e = "subir"
        BY <1>6, <1>8, <2>3, <3>1, <4>1, <4>2 DEF Nombra
      <4>3. CASE e # "subir"
        <5>1. \A i \in DOMAIN n : n[i].imagen = l[i].imagen \/ n[i].imagen = Ninguna
          BY <1>6, <1>8, <2>3, <4>3
        <5>2. QED
          BY <3>1, <4>1, <4>3, <5>1 DEF Nombra, Hay
      <4>4. QED
        BY <4>2, <4>3
    <3>5. PetOK(q)
      BY <1>1, <1>8, <2>3, <3>1, <3>3, <3>4 DEF PetOK
    <3>6. QED
      BY <3>1, <3>2, <3>5
  <2>4. QED
    BY <1>2, <2>1, <2>2, <2>3
<1>10. Cambia(r) /\ UNCHANGED <<fila, historial, version, pisado, desfasado, s3, retirada>>
  BY <1>2, <1>9 DEF tablas, historia, Cambia, Hay
<1>11. QED
  BY <1>2, <1>10, PeticionesSiguen, TablasSiguen DEF Inv, Cache, Resto, redis, tablas, cuentas, historia
\* The steps on the image of an item.
LEMMA ImagenPaso ==
  ASSUME Inv, NEW r \in Peticion, SubirImagen(r) \/ BorrarImagen(r)
  PROVE  Inv'
<1> DEFINE p == pet[r]
           k == {f.imagen : f \in {p.leido[i] : i \in p.op.ids}} \ {Ninguna}
<1>1. /\ p \in PetT /\ PetOK(p) /\ p.en \in {"subir", "borrar_imagen"} /\ p.op \in Entradas
      /\ pet' = [pet EXCEPT ![r] = [p EXCEPT !.en = "flush"]]
      /\ UNCHANGED <<recorrido, redis, fila, historial, candado, cuentas, version, pisado,
                     desfasado, total, sinAviso>>
  BY DEF SubirImagen, BorrarImagen, Ir, Inv, Peticiones, PetOK, historia
<1>2. /\ s3' \subseteq Imagen /\ retirada' \subseteq Imagen /\ Hay \subseteq Hay'
      /\ \A i \in DOMAIN p.nueva : p.nueva[i].imagen = p.leido[i].imagen \/ p.nueva[i].imagen \in Hay'
      /\ DOMAIN p.nueva \subseteq DOMAIN p.leido
      /\ \A i \in DOMAIN p.nueva : p.nueva[i] # p.leido[i]
  <2>1. s3 \subseteq Imagen /\ retirada \subseteq Imagen
    BY DEF Inv, Objetos
  <2>2. CASE SubirImagen(r)
    <3>1. s3' = s3 \cup {p.op.imagen} /\ retirada' = retirada /\ p.en = "subir"
      BY <2>2 DEF SubirImagen, historia
    <3>2. /\ p.op.tipo = "imagen" /\ \A i \in DOMAIN p.nueva : p.nueva[i].imagen = p.op.imagen
          /\ DOMAIN p.nueva \subseteq DOMAIN p.leido
          /\ \A i \in DOMAIN p.nueva : p.nueva[i] # p.leido[i]
      BY <1>1, <3>1 DEF PetOK, Nombra
    <3>3. p.op.imagen \in Imagen
      BY <1>1, <3>2, OpT
    <3>4. QED
      BY <2>1, <3>1, <3>2, <3>3 DEF Hay
  <2>3. CASE BorrarImagen(r)
    <3>1. /\ p.en = "borrar_imagen"
          /\ (s3' = s3 \ k /\ retirada' = retirada \cup k) \/ (s3' = s3 /\ retirada' = retirada)
      BY <2>3 DEF BorrarImagen
    <3>2. k \subseteq Imagen
      <4>1. p.op.ids \subseteq DOMAIN p.leido /\ p.leido \in Filas
        BY <1>1, <3>1 DEF PetOK, PetT
      <4>2. \A i \in p.op.ids : p.leido[i] \in Fila
        BY <4>1 DEF Filas
      <4>3. QED
        BY <4>2 DEF Fila
    <3>3. /\ \A i \in DOMAIN p.nueva : p.nueva[i].imagen = p.leido[i].imagen \/ p.nueva[i].imagen \in Hay
          /\ DOMAIN p.nueva \subseteq DOMAIN p.leido
          /\ \A i \in DOMAIN p.nueva : p.nueva[i] # p.leido[i]
      BY <1>1, <3>1 DEF PetOK, Nombra
    <3> HIDE DEF k
    <3>4. Hay \subseteq Hay'
      BY <3>1 DEF Hay
    <3>5. QED
      BY <2>1, <3>1, <3>2, <3>3, <3>4
  <2>4. QED
    BY <2>2, <2>3
<1>3. PICK q : pet' = [pet EXCEPT ![r] = q] /\ q = [p EXCEPT !.en = "flush"]
  BY <1>1
<1>4. /\ q \in PetT /\ q.leido = p.leido /\ q.vista = p.vista /\ q.nueva = p.nueva /\ q.en = "flush"
  BY <1>1, <1>3 DEF PetT, En
<1>5. PetOK(q)'
  <2>1. Leida(q)'
    BY <1>1, <1>4 DEF PetOK, Leida
  <2>2. Nombra(q)'
    BY <1>2, <1>4 DEF Nombra
  <2>3. QED
    BY <1>4, <2>1, <2>2 DEF PetOK
<1>6. Cambia(r)
  BY <1>1, <1>2, <1>3, <1>4, <1>5 DEF Cambia
<1>7. QED
  BY <1>1, <1>2, <1>6, PeticionesSiguen, TablasSiguen DEF Inv, Cache, Resto, redis, cuentas

\* The invalidation of the cache after a commit, and the listing.
LEMMA AvisoPaso ==
  ASSUME Inv, NEW r \in Peticion,
         \/ TomarPaginas(r) \/ TomarPrimeras(r) \/ Borrar(r) \/ Limpiar(r) \/ Siguiente(r)
         \/ Guardar(r) \/ Registrar(r)
  PROVE  Inv'
<1> DEFINE p == pet[r]
<1>1. p \in PetT /\ PetOK(p) /\ Cache
  BY DEF Inv, Peticiones
<1>2. UNCHANGED <<recorrido, tablas, cuentas, historia>>
  BY DEF TomarPaginas, TomarPrimeras, Borrar, Limpiar, Siguiente, Guardar, Registrar
<1>3. \/ p.en = "avisar" \/ p.en = "primeras" \/ p.en = "invalidar" \/ p.en = "limpiar"
      \/ p.en = "guardar" \/ p.en = "registrar"
  BY DEF TomarPaginas, TomarPrimeras, Borrar, Limpiar, Siguiente, Guardar, Registrar
<1>4. Fin(r) => \E q : pet' = [pet EXCEPT ![r] = q] /\ q \in PetT /\ PetOK(q)
  BY LibreT, VacioOK DEF Fin, Ir
<1>5. ASSUME NEW q, pet' = [pet EXCEPT ![r] = q], Sigue(p, q)
      PROVE  \E z : pet' = [pet EXCEPT ![r] = z] /\ z \in PetT /\ PetOK(z)
  BY <1>1, <1>5, SigueOK DEF Sigue
<1>6. p.avisar \subseteq Item /\ p.paginas \subseteq Pagina /\ p.meta \in MetaT /\ p.vista \in Numeros
      /\ p.item \in Item \cup {0} /\ p.sola \in BOOLEAN
  BY <1>1 DEF PetT
<1>7. \E q : pet' = [pet EXCEPT ![r] = q] /\ q \in PetT /\ PetOK(q)
  <2>1. CASE TomarPaginas(r)
    <3>1. PICK i \in p.avisar : pet' = [pet EXCEPT ![r] =
            [p EXCEPT !.en = "invalidar", !.item = i, !.avisar = @ \ {i}, !.paginas = indice[i]]]
      BY <2>1 DEF TomarPaginas, Ir
    <3> DEFINE q == [p EXCEPT !.en = "invalidar", !.item = i, !.avisar = @ \ {i}, !.paginas = indice[i]]
    <3>2. indice[i] \subseteq Pagina
      BY <1>1, <1>6 DEF Cache
    <3>3. Sigue(p, q)
      BY <1>1, <1>6, <3>2 DEF PetT, En, Sigue
    <3> HIDE DEF q
    <3>4. QED
      BY <1>5, <3>1, <3>3 DEF q
  <2>2. CASE TomarPrimeras(r)
    <3> DEFINE q == [p EXCEPT !.en = "invalidar", !.paginas = primeras]
    <3>1. pet' = [pet EXCEPT ![r] = q] /\ primeras \subseteq Pagina
      BY <1>1, <2>2 DEF TomarPrimeras, Ir, Cache
    <3>2. Sigue(p, q)
      BY <1>1, <3>1 DEF PetT, En, Sigue
    <3>3. QED
      BY <1>5, <3>1, <3>2
  <2>3. CASE Borrar(r)
    <3>1. PICK g \in p.paginas : pet' = [pet EXCEPT ![r] =
            [p EXCEPT !.en = "limpiar", !.pagina = g, !.paginas = @ \ {g}, !.meta = meta[g]]]
      BY <2>3 DEF Borrar, Ir
    <3> DEFINE q == [p EXCEPT !.en = "limpiar", !.pagina = g, !.paginas = @ \ {g}, !.meta = meta[g]]
    <3>2. meta[g] \in MetaT /\ g \in Pagina
      BY <1>1, <1>6 DEF Cache
    <3>3. Sigue(p, q)
      BY <1>1, <1>6, <3>2 DEF PetT, En, Sigue
    <3> HIDE DEF q
    <3>4. QED
      BY <1>5, <3>1, <3>3 DEF q
  <2>4. CASE Limpiar(r)
    <3> DEFINE q == [p EXCEPT !.en = "invalidar", !.pagina = 0, !.meta = SinMeta]
    <3>1. pet' = [pet EXCEPT ![r] = q]
      BY <2>4 DEF Limpiar, Ir
    <3>2. Sigue(p, q)
      BY <1>1, LibreT DEF PetT, En, Sigue
    <3>3. QED
      BY <1>5, <3>1, <3>2
  <2>5. CASE Siguiente(r)
    <3> DEFINE q == [p EXCEPT !.item = 0, !.paginas = primeras]
               z == [p EXCEPT !.en = "avisar", !.item = 0, !.paginas = {}]
    <3>1. pet' = [pet EXCEPT ![r] = q] \/ Fin(r) \/ pet' = [pet EXCEPT ![r] = z]
      BY <2>5 DEF Siguiente, SiguienteItem, Ir
    <3>2. primeras \subseteq Pagina /\ p.en = "invalidar"
      BY <1>1, <2>5 DEF Siguiente, Cache
    <3>3. Sigue(p, q)
      BY <1>1, <3>2 DEF PetT, En, Sigue
    <3>4. Sigue(p, z)
      BY <1>1 DEF PetT, En, Sigue
    <3> HIDE DEF q, z
    <3>5. QED
      BY <1>4, <1>5, <3>1, <3>3, <3>4
  <2>6. CASE Guardar(r)
    <3> DEFINE q == [p EXCEPT !.en = "registrar"]
    <3>1. pet' = [pet EXCEPT ![r] = q] /\ p.en = "guardar"
      BY <2>6 DEF Guardar, Ir
    <3>2. p.pagina \in Pagina
      BY <1>1, <3>1 DEF PetOK
    <3>3. Sigue(p, q)
      BY <1>1, <3>2 DEF PetT, En, Sigue
    <3>4. QED
      BY <1>5, <3>1, <3>3
  <2>7. CASE Registrar(r)
    BY <1>4, <2>7 DEF Registrar
  <2>8. QED
    BY <2>1, <2>2, <2>3, <2>4, <2>5, <2>6, <2>7
<1>8. Cache'
  <2>1. UNCHANGED redis => Cache'
    BY <1>1 DEF redis, Cache
  <2>2. CASE TomarPaginas(r) \/ TomarPrimeras(r)
    BY <2>1, <2>2 DEF TomarPaginas, TomarPrimeras
  <2>3. CASE Borrar(r)
    <3>1. PICK g \in p.paginas : BorrarPagina(g)
      BY <2>3 DEF Borrar
    <3>2. QED
      BY <1>1, <1>6, <3>1, CacheBorrar
  <2>4. CASE Limpiar(r)
    <3>1. p.pagina \in Pagina /\ LimpiarIndices(p.pagina, p.meta)
      BY <1>1, <2>4 DEF Limpiar, PetOK
    <3>2. QED
      BY <1>1, <1>6, <3>1, CacheLimpiar
  <2>5. CASE Siguiente(r)
    <3>1. UNCHANGED redis \/ (p.item \in Item /\ BorrarIndice(p.item))
      BY <1>6, <2>5 DEF Siguiente
    <3>2. QED
      BY <1>1, <2>1, <3>1, CacheIndice
  <2>6. CASE Guardar(r)
    <3>1. p.pagina \in Pagina /\ set_cache(p.pagina, p.vista)
      BY <1>1, <2>6 DEF Guardar, PetOK
    <3>2. QED
      BY <1>1, <1>6, <3>1, CacheGuardar
  <2>7. CASE Registrar(r)
    <3>1. p.pagina \in Pagina /\ register_list_cache(p.pagina, DOMAIN p.vista, p.sola)
      BY <1>1, <2>7 DEF Registrar, PetOK
    <3>2. DOMAIN p.vista \in SUBSET Item
      BY <1>6 DEF Numeros
    <3>3. QED
      BY <1>1, <1>6, <3>1, <3>2, CacheRegistrar
  <2>8. QED
    BY <2>2, <2>3, <2>4, <2>5, <2>6, <2>7
<1>9. Cambia(r) /\ UNCHANGED <<fila, historial, version, pisado, desfasado, s3, retirada>>
  BY <1>2, <1>7 DEF tablas, historia, Cambia, Hay
<1>10. QED
  BY <1>2, <1>8, <1>9, PeticionesSiguen, TablasSiguen DEF Inv, Resto, tablas, cuentas, historia

LEMMA FallaT == ASSUME Inv, Falla PROVE fallos' \in 0..MaxFallos
BY InventarioOK DEF Falla, Inv, Resto

\* An error of Redis in any of those steps.
LEMMA FallaRedisPaso ==
  ASSUME Inv, NEW r \in Peticion, FallaRedis(r)
  PROVE  Inv'
<1> DEFINE p == pet[r]
           z == [p EXCEPT !.en = "avisar", !.item = 0, !.paginas = {}]
<1>1. p \in PetT /\ PetOK(p) /\ Cache
  BY DEF Inv, Peticiones
<1>2. /\ UNCHANGED <<recorrido, tablas, escrituras, listados, version, pisado, desfasado, total, retirada>>
      /\ Falla
  BY DEF FallaRedis, TomarPaginasFalla, TomarPrimerasFalla, BorrarFalla, LimpiarFalla, SiguienteFalla,
     GuardarFalla, RegistrarFalla, historia
<1>3. p.avisar \subseteq Item /\ p.paginas \subseteq Pagina /\ p.meta \in MetaT /\ p.vista \in Numeros
      /\ p.item \in Item \cup {0}
  BY <1>1 DEF PetT
<1>4. Fin(r) => \E q : pet' = [pet EXCEPT ![r] = q] /\ q \in PetT /\ PetOK(q)
  BY LibreT, VacioOK DEF Fin, Ir
<1>5. ASSUME NEW q, pet' = [pet EXCEPT ![r] = q], Sigue(p, q)
      PROVE  \E x : pet' = [pet EXCEPT ![r] = x] /\ x \in PetT /\ PetOK(x)
  BY <1>1, <1>5, SigueOK DEF Sigue
<1>6. SiguienteItem(r) => \E q : pet' = [pet EXCEPT ![r] = q] /\ q \in PetT /\ PetOK(q)
  <2>1. Sigue(p, z)
    BY <1>1 DEF PetT, En, Sigue
  <2>2. SiguienteItem(r) => Fin(r) \/ pet' = [pet EXCEPT ![r] = z]
    BY DEF SiguienteItem, Ir
  <2> HIDE DEF z
  <2>3. QED
    BY <1>4, <1>5, <2>1, <2>2
<1>7. \E q : pet' = [pet EXCEPT ![r] = q] /\ q \in PetT /\ PetOK(q)
  <2>1. CASE TomarPaginasFalla(r)
    <3>1. PICK i \in p.avisar : Fin(r) \/ pet' = [pet EXCEPT ![r] = [p EXCEPT !.avisar = @ \ {i}]]
      BY <2>1 DEF TomarPaginasFalla, Ir
    <3> DEFINE q == [p EXCEPT !.avisar = @ \ {i}]
    <3>2. p.en = "avisar"
      BY <2>1 DEF TomarPaginasFalla
    <3>3. Sigue(p, q)
      BY <1>1, <1>3, <3>2 DEF PetT, En, Sigue
    <3> HIDE DEF q
    <3>4. QED
      BY <1>4, <1>5, <3>1, <3>3 DEF q
  <2>2. CASE TomarPrimerasFalla(r) \/ RegistrarFalla(r)
    BY <1>4, <2>2 DEF TomarPrimerasFalla, RegistrarFalla
  <2>3. CASE BorrarFalla(r)
    <3>1. PICK g \in p.paginas : pet' = [pet EXCEPT ![r] = [p EXCEPT !.paginas = @ \ {g}]]
      BY <2>3 DEF BorrarFalla, Ir
    <3> DEFINE q == [p EXCEPT !.paginas = @ \ {g}]
    <3>2. p.en = "invalidar"
      BY <2>3 DEF BorrarFalla
    <3>3. Sigue(p, q)
      BY <1>1, <1>3, <3>2 DEF PetT, En, Sigue
    <3> HIDE DEF q
    <3>4. QED
      BY <1>5, <3>1, <3>3 DEF q
  <2>4. CASE LimpiarFalla(r)
    <3> DEFINE q == [p EXCEPT !.en = "invalidar", !.pagina = 0, !.meta = SinMeta]
    <3>1. pet' = [pet EXCEPT ![r] = q]
      BY <2>4 DEF LimpiarFalla, Ir
    <3>2. Sigue(p, q)
      BY <1>1, LibreT DEF PetT, En, Sigue
    <3>3. QED
      BY <1>5, <3>1, <3>2
  <2>5. CASE SiguienteFalla(r)
    BY <1>6, <2>5 DEF SiguienteFalla
  <2>6. CASE GuardarFalla(r)
    <3> DEFINE q == [p EXCEPT !.en = "registrar", !.sola = FALSE]
    <3>1. pet' = [pet EXCEPT ![r] = q] /\ p.en = "guardar"
      BY <2>6 DEF GuardarFalla, Ir
    <3>2. p.pagina \in Pagina
      BY <1>1, <3>1 DEF PetOK
    <3>3. Sigue(p, q)
      BY <1>1, <3>2 DEF PetT, En, Sigue
    <3>4. QED
      BY <1>5, <3>1, <3>3
  <2>7. QED
    BY <2>1, <2>2, <2>3, <2>4, <2>5, <2>6 DEF FallaRedis
<1>8. Cache'
  <2>1. UNCHANGED redis => Cache'
    BY <1>1 DEF redis, Cache
  <2>2. CASE TomarPaginasFalla(r) \/ TomarPrimerasFalla(r) \/ GuardarFalla(r)
    BY <2>1, <2>2 DEF TomarPaginasFalla, TomarPrimerasFalla, GuardarFalla
  <2>3. CASE BorrarFalla(r)
    <3>1. PICK g \in p.paginas : BorradoFalla(g)
      BY <2>3 DEF BorrarFalla
    <3>2. QED
      BY <1>1, <1>3, <3>1, CacheBorradoFalla
  <2>4. CASE LimpiarFalla(r)
    <3>1. p.pagina \in Pagina /\ LimpiezaFalla(p.pagina, p.meta)
      BY <1>1, <2>4 DEF LimpiarFalla, PetOK
    <3>2. QED
      BY <1>1, <1>3, <3>1, CacheLimpiezaFalla
  <2>5. CASE SiguienteFalla(r)
    <3>1. UNCHANGED redis \/ (p.item \in Item /\ BorrarIndice(p.item))
      BY <1>3, <2>5 DEF SiguienteFalla
    <3>2. QED
      BY <1>1, <2>1, <3>1, CacheIndice
  <2>6. CASE RegistrarFalla(r)
    <3>1. p.pagina \in Pagina /\ RegistroFalla(p.pagina, DOMAIN p.vista)
      BY <1>1, <2>6 DEF RegistrarFalla, PetOK
    <3>2. DOMAIN p.vista \in SUBSET Item
      BY <1>3 DEF Numeros
    <3>3. QED
      BY <1>1, <3>1, <3>2, CacheRegistroFalla
  <2>7. QED
    BY <2>2, <2>3, <2>4, <2>5, <2>6 DEF FallaRedis
<1>9. sinAviso' \subseteq Item
  <2>1. CASE TomarPaginasFalla(r)
    BY <1>3, <2>1 DEF TomarPaginasFalla, Inv, Resto
  <2>2. CASE ~TomarPaginasFalla(r)
    BY <2>2 DEF FallaRedis, TomarPrimerasFalla, BorrarFalla, LimpiarFalla, SiguienteFalla,
       GuardarFalla, RegistrarFalla, historia, Inv, Resto
  <2>3. QED
    BY <2>1, <2>2
<1>10. Cambia(r) /\ UNCHANGED <<fila, historial, version, pisado, desfasado, s3, retirada>>
  BY <1>2, <1>7 DEF tablas, Cambia, Hay
<1>11. QED
  BY <1>2, <1>8, <1>9, <1>10, FallaT, PeticionesSiguen, TablasSiguen DEF Inv, Resto, tablas

\* What a request goes on with after its commit.
LEMMA TrasCommitT ==
  ASSUME NEW r \in Peticion, NEW ids \in SUBSET Item, TrasCommit(r, ids)
  PROVE  \E q : /\ q \in PetT /\ q.leido = Nada /\ q.nueva = Nada
                /\ q.en \in {"libre", "avisar", "primeras"} /\ pet' = [pet EXCEPT ![r] = q]
<1> DEFINE t == pet[r].op.tipo
           q == [Libre EXCEPT !.en = "avisar", !.avisar = ids]
           z == [Libre EXCEPT !.en = "primeras"]
<1>1. q \in PetT /\ q.leido = Nada /\ q.nueva = Nada /\ q.en = "avisar"
  BY LibreT DEF PetT, En
<1>2. z \in PetT /\ z.leido = Nada /\ z.nueva = Nada /\ z.en = "primeras"
  BY LibreT DEF PetT, En
<1>3. \/ pet' = [pet EXCEPT ![r] = q] \/ pet' = [pet EXCEPT ![r] = z]
      \/ pet' = [pet EXCEPT ![r] = Libre]
  <2> DEFINE s == CASE t \in AvisaItems -> q [] t \in AvisaPrimeras -> z [] OTHER -> Libre
  <2>1. pet' = [pet EXCEPT ![r] = s]
    BY DEF TrasCommit, Ir
  <2>2. AvisaItems \cap AvisaPrimeras = {}
    BY DEF AvisaItems, AvisaPrimeras
  <2> HIDE DEF t, q, z
  <2>3. s = q \/ s = z \/ s = Libre
    <3>1. CASE t \in AvisaItems
      BY <2>2, <3>1
    <3>2. CASE t \in AvisaPrimeras
      BY <2>2, <3>2
    <3>3. CASE t \notin AvisaItems \cup AvisaPrimeras
      BY <3>3
    <3>4. QED
      BY <3>1, <3>2, <3>3
  <2> HIDE DEF s
  <2>4. QED
    BY <2>1, <2>3
<1> HIDE DEF q, z
<1>4. QED
  BY <1>1, <1>2, <1>3, LibreT

\* The locks, a rollback, and a request that is cut short.
LEMMA CandadoPaso ==
  ASSUME Inv, NEW r \in Peticion, Actualizar(r) \/ Revertir(r) \/ Cortar(r) \/ CommitSinEfecto(r)
  PROVE  Inv'
<1>1. /\ UNCHANGED <<recorrido, redis, fila, historial, s3, escrituras, listados, version, pisado,
                     desfasado, total, retirada>>
      /\ candado' \in [Item -> Peticion \cup {Nadie}] /\ sinAviso' \subseteq Item
      /\ fallos' \in 0..MaxFallos
      /\ \/ pet' = pet \/ pet' = [pet EXCEPT ![r] = Libre]
         \/ TrasCommit(r, DOMAIN pet[r].nueva)
  <2>1. candado \in [Item -> Peticion \cup {Nadie}] /\ fallos \in 0..MaxFallos /\ sinAviso \subseteq Item
    BY DEF Inv, Resto
  <2>2. CASE Actualizar(r)
    BY <2>1, <2>2 DEF Actualizar, cuentas, historia
  <2>3. CASE Revertir(r)
    BY <2>1, <2>3, FallaT DEF Revertir, Soltar, Fin, Ir, historia
  <2>4. CASE Cortar(r)
    BY <2>1, <2>4, FallaT DEF Cortar, Fin, Ir, tablas
  <2>5. CASE CommitSinEfecto(r)
    BY <2>1, <2>5, FallaT DEF CommitSinEfecto, Soltar, historia
  <2>6. QED
    BY <2>2, <2>3, <2>4, <2>5
<1>2. pet \in [Peticion -> PetT] /\ PetOK(pet[r])
  BY DEF Inv, Peticiones
<1>3. \E q : pet' = [pet EXCEPT ![r] = q] /\ q \in PetT /\ PetOK(q)
  <2>1. CASE pet' = pet
    <3>1. pet' = [pet EXCEPT ![r] = pet[r]]
      BY <1>2, <2>1
    <3>2. QED
      BY <1>2, <3>1
  <2>2. CASE pet' = [pet EXCEPT ![r] = Libre]
    BY <2>2, LibreT, VacioOK
  <2>3. CASE TrasCommit(r, DOMAIN pet[r].nueva)
    <3>1. pet[r].nueva \in Filas
      BY <1>2 DEF PetT
    <3>2. DOMAIN pet[r].nueva \in SUBSET Item
      BY <3>1 DEF Filas
    <3>3. QED
      BY <2>3, <3>2, TrasCommitT, VacioOK
  <2>4. QED
    BY <1>1, <2>1, <2>2, <2>3
<1>4. Cambia(r)
  BY <1>1, <1>3 DEF Cambia, Hay
<1>5. QED
  BY <1>1, <1>4, PeticionesSiguen, TablasSiguen DEF Inv, Cache, Resto, redis

\* A request begins, and the listings that run are no longer alone.
LEMMA EmpezarPaso ==
  ASSUME Inv, NEW r \in Peticion,
         (\E op \in Entradas : Pedir(r, op)) \/ (\E g \in Pagina : Listar(r, g))
  PROVE  Inv'
<1>1. PICK q : /\ q \in PetT /\ q.leido = Nada /\ q.nueva = Nada /\ q.en \in {"leer", "guardar"}
               /\ q.en = "leer" => q.op \in Entradas
               /\ q.en = "guardar" => q.pagina \in Pagina
               /\ Empezar(r, q)
  <2>1. ASSUME NEW op \in Entradas, Pedir(r, op)
        PROVE  \E q : /\ q \in PetT /\ q.leido = Nada /\ q.nueva = Nada /\ q.en \in {"leer", "guardar"}
                      /\ q.en = "leer" => q.op \in Entradas
                      /\ q.en = "guardar" => q.pagina \in Pagina
                      /\ Empezar(r, q)
    <3> DEFINE q == [Libre EXCEPT !.en = "leer", !.op = op]
    <3>1. q \in PetT /\ q.leido = Nada /\ q.nueva = Nada /\ q.en = "leer" /\ q.op = op
      BY LibreT DEF PetT, En
    <3>2. Empezar(r, q)
      BY <2>1 DEF Pedir
    <3> HIDE DEF q
    <3>3. QED
      BY <3>1, <3>2
  <2>2. ASSUME NEW g \in Pagina, Listar(r, g)
        PROVE  \E q : /\ q \in PetT /\ q.leido = Nada /\ q.nueva = Nada /\ q.en \in {"leer", "guardar"}
                      /\ q.en = "leer" => q.op \in Entradas
                      /\ q.en = "guardar" => q.pagina \in Pagina
                      /\ Empezar(r, q)
    <3> DEFINE S == EnPagina(g, Activos)
               v == [i \in S |-> version[i]]
               b == \A x \in Peticion : ~EnCurso(x)
               q == [Libre EXCEPT !.en = "guardar", !.pagina = g, !.vista = v, !.sola = b]
    <3>1. v \in Numeros /\ b \in BOOLEAN
      <4>1. S \in SUBSET Item
        BY DEF EnPagina, Activos, ActivosDe
      <4>2. v \in [S -> Nat]
        BY <4>1 DEF Inv, Tablas
      <4> HIDE DEF S, v
      <4>3. QED
        BY <4>1, <4>2 DEF Numeros
    <3>2. Empezar(r, q)
      BY <2>2 DEF Listar
    <3> HIDE DEF v, b
    <3>3. q \in PetT /\ q.leido = Nada /\ q.nueva = Nada /\ q.en = "guardar" /\ q.pagina = g
      BY <3>1, LibreT DEF PetT, En
    <3> HIDE DEF q
    <3>4. QED
      BY <3>2, <3>3
  <2>3. QED
    BY <2>1, <2>2
<1>2. /\ UNCHANGED <<recorrido, redis, tablas, historia>> /\ fallos' \in 0..MaxFallos
      /\ escrituras' \in 0..MaxEscrituras /\ listados' \in 0..MaxPeticiones
  <2>1. escrituras \in 0..MaxEscrituras /\ listados \in 0..MaxPeticiones
    BY DEF Inv, Resto
  <2>2. ASSUME NEW op, Pedir(r, op)
        PROVE  escrituras' \in 0..MaxEscrituras /\ listados' = listados
    <3>1. escrituras < MaxEscrituras /\ escrituras' = escrituras + 1 /\ listados' = listados
      BY <2>2 DEF Pedir
    <3>2. MaxEscrituras \in Nat
      BY InventarioOK
    <3>3. QED
      BY <2>1, <3>1, <3>2
  <2>3. ASSUME NEW g, Listar(r, g)
        PROVE  escrituras' = escrituras /\ listados' \in 0..MaxPeticiones
    <3>1. escrituras + listados < MaxPeticiones /\ listados' = listados + 1 /\ escrituras' = escrituras
      BY <2>3 DEF Listar
    <3>2. MaxPeticiones \in Nat
      BY InventarioOK
    <3>3. QED
      BY <2>1, <3>1, <3>2
  <2>4. UNCHANGED <<recorrido, redis, tablas, historia>> /\ (UNCHANGED fallos \/ Falla)
    BY DEF Pedir, Listar
  <2>5. fallos' \in 0..MaxFallos
    BY <2>4, FallaT DEF Inv, Resto
  <2>6. QED
    BY <2>1, <2>2, <2>3, <2>4, <2>5
<1>3. pet' \in [Peticion -> PetT] /\ \A x \in Peticion : PetOK(pet'[x])
  <2>1. pet' = [x \in Peticion |-> IF x = r THEN q ELSE [pet[x] EXCEPT !.sola = FALSE]]
    BY <1>1 DEF Empezar
  <2>2. ASSUME NEW x \in Peticion  PROVE pet'[x] \in PetT /\ PetOK(pet'[x])
    <3>1. CASE x = r
      BY <1>1, <2>1, <3>1, VacioOK
    <3>2. CASE x # r
      <4> DEFINE p == pet[x]
                 z == [p EXCEPT !.sola = FALSE]
      <4>1. p \in PetT /\ PetOK(p)
        BY DEF Inv, Peticiones
      <4>2. /\ z \in PetT /\ z.leido = p.leido /\ z.nueva = p.nueva /\ z.vista = p.vista
            /\ z.en = p.en /\ z.op = p.op /\ z.pagina = p.pagina
        BY <4>1 DEF PetT
      <4>3. pet'[x] = z
        BY <2>1, <3>2
      <4> HIDE DEF z
      <4>4. PetOK(z)
        BY <4>1, <4>2 DEF PetOK, Leida, Nombra
      <4>5. QED
        BY <4>2, <4>3, <4>4
    <3>3. QED
      BY <3>1, <3>2
  <2>3. QED
    BY <2>1, <2>2
<1>4. Peticiones'
  <2>1. UNCHANGED <<fila, version, s3, retirada>> /\ Hay \subseteq Hay'
    BY <1>2 DEF tablas, historia, Hay
  <2>2. ASSUME NEW x \in Peticion, NEW z, z = pet'[x]  PROVE PetOK(z)'
    BY <1>3, <2>1, <2>2, OkSigue
  <2>3. QED
    BY <1>3, <2>2 DEF Peticiones, PetOK, Leida, Nombra
<1>5. QED
  BY <1>2, <1>4, TablasSiguen DEF Inv, Cache, Resto, redis, tablas, historia

LEMMA RecorrerPaso ==
  ASSUME Inv, Recorrer \/ (\E g \in Pagina : Expira(g)) \/ UNCHANGED vars
  PROVE  Inv'
<1>1. /\ UNCHANGED <<tablas, pet, escrituras, fallos, historia>>
      /\ "siempre" \in DOMAIN recorrido' /\ recorrido'.siempre \subseteq Item
      /\ listados' \in 0..MaxPeticiones
  <2>1. /\ "siempre" \in DOMAIN recorrido /\ recorrido.siempre \subseteq Item
        /\ listados \in 0..MaxPeticiones /\ escrituras \in 0..MaxEscrituras
    BY DEF Inv, Resto
  <2>2. CASE Recorrer
    <3>1. listados' \in 0..MaxPeticiones
      BY <2>1, <2>2, InventarioOK DEF Recorrer
    <3>2. "siempre" \in DOMAIN recorrido' /\ recorrido'.siempre \subseteq Item
      BY <2>1, <2>2 DEF Recorrer, Activos, ActivosDe
    <3>3. QED
      BY <2>2, <3>1, <3>2 DEF Recorrer
  <2>3. CASE (\E g \in Pagina : Expira(g)) \/ UNCHANGED vars
    BY <2>1, <2>3 DEF Expira, vars, cuentas
  <2>4. QED
    BY <2>2, <2>3
<1>2. Cache'
  <2>1. UNCHANGED redis => Cache'
    BY DEF redis, Inv, Cache
  <2>2. (\E g \in Pagina : ExpiraPagina(g) \/ ExpiraMeta(g)) => Cache'
    BY CacheBorrar DEF Inv
  <2>3. QED
    BY <2>1, <2>2 DEF Recorrer, Expira, vars
<1>3. Peticiones'
  BY <1>1 DEF Inv, Peticiones, PetOK, Leida, Nombra, Hay, tablas, historia
<1>4. QED
  BY <1>1, <1>2, <1>3, TablasSiguen DEF Inv, Resto, tablas, historia

\* The commit: the row, and the last state that is audited, are the one that
\* was computed if the row was the one that was read.
LEMMA ConfirmarPaso ==
  ASSUME Inv, NEW r \in Peticion, Confirmar(r)
  PROVE  Inv'
<1> DEFINE p == pet[r]
           ids == DOMAIN p.nueva
           l == p.leido
           n == p.nueva
<1>1. /\ p \in PetT /\ PetOK(p) /\ p.en = "flush" /\ Tablas
      /\ UNCHANGED <<redis, s3, escrituras, listados, retirada>>
  BY DEF Confirmar, Inv, Peticiones
<1>2. ids \subseteq Item /\ \A i \in ids : l[i] \in Fila /\ n[i] \in Fila
  <2>1. l \in Filas /\ n \in Filas /\ ids \subseteq DOMAIN l
    BY <1>1 DEF PetT, PetOK, Nombra
  <2>2. QED
    BY <2>1 DEF Filas
<1>3. ASSUME NEW i \in Item
      PROVE  /\ fila'[i] = IF i \in ids THEN SobreFila(fila[i], l[i], n[i]) ELSE fila[i]
             /\ version'[i] = IF i \in ids THEN version[i] + 1 ELSE version[i]
  BY DEF Confirmar, Update
<1>4. PICK auditados \in SUBSET ids :
        /\ UNCHANGED fallos \/ Falla
        /\ historial' = [i \in Item |-> IF i \in auditados
                           THEN Auditar(historial[i], l[i], n[i]) ELSE historial[i]]
        /\ desfasado' = (desfasado \ ids) \cup (ids \ auditados)
                         \cup {i \in ids : p.vista[i] # version[i]}
  BY DEF Confirmar
<1>5. ASSUME NEW i \in Item
      PROVE  /\ fila[i] \in Fila /\ version[i] \in Nat /\ historial[i] \in Fila
             /\ i \notin desfasado => historial[i] = fila[i]
  BY DEF Inv, Tablas, HistorialFiel, obtener_estado_item_en_fecha
<1>6. ASSUME NEW i \in Item
      PROVE  /\ fila'[i] \in Fila /\ version'[i] \in Nat /\ historial'[i] \in Fila
             /\ i \notin desfasado' => historial'[i] = fila'[i]
             /\ fila'[i].imagen \in Hay
  <2>1. CASE i \in ids
    <3>1. l[i] \in Fila /\ n[i] \in Fila /\ fila[i] \in Fila /\ version[i] \in Nat
      BY <1>2, <1>5, <2>1
    <3>2. fila'[i] = SobreFila(fila[i], l[i], n[i]) /\ version'[i] = version[i] + 1
      BY <1>3, <2>1
    <3>3. /\ SobreFila(fila[i], l[i], n[i]) \in Fila
          /\ SobreFila(fila[i], l[i], n[i]).imagen = IF l[i].imagen # n[i].imagen THEN n[i].imagen
                                                     ELSE fila[i].imagen
          /\ SobreFila(l[i], l[i], n[i]) = n[i]
      <4>1. \A f, a, d \in Fila :
              /\ SobreFila(f, a, d) \in Fila /\ SobreFila(a, a, d) = d
              /\ SobreFila(f, a, d).imagen = IF a.imagen # d.imagen THEN d.imagen ELSE f.imagen
        BY SobreFilaT
      <4> HIDE DEF l, n
      <4>2. QED
        BY <3>1, <4>1
    <3>4. historial'[i] = IF i \in auditados THEN n[i] ELSE historial[i]
      <4>1. n[i] # l[i]
        BY <1>1, <2>1 DEF PetOK, Nombra
      <4>2. QED
        BY <1>4, <4>1 DEF Auditar
    <3>5. i \notin desfasado' => historial'[i] = fila'[i]
      <4>1. SUFFICES ASSUME i \notin desfasado'  PROVE historial'[i] = fila'[i]
        OBVIOUS
      <4>2. p.vista[i] = version[i] /\ i \in DOMAIN l /\ i \in auditados
        BY <1>1, <1>4, <2>1, <4>1 DEF PetOK, Nombra
      <4>3. l[i] = fila[i]
        BY <1>1, <4>2 DEF PetOK, Leida
      <4>4. QED
        BY <3>2, <3>3, <3>4, <4>2, <4>3
    <3>6. fila'[i].imagen \in Hay
      <4>1. n[i].imagen = l[i].imagen \/ n[i].imagen \in Hay
        BY <1>1, <2>1 DEF PetOK, Nombra
      <4>2. fila[i].imagen \in Hay
        BY DEF Inv, Objetos
      <4>3. QED
        BY <3>2, <3>3, <4>1, <4>2
    <3>7. QED
      BY <1>5, <3>1, <3>2, <3>3, <3>4, <3>5, <3>6
  <2>2. CASE i \notin ids
    <3>1. fila'[i] = fila[i] /\ historial'[i] = historial[i] /\ version'[i] = version[i]
      BY <1>3, <1>4, <2>2
    <3>2. fila[i].imagen \in Hay
      BY DEF Inv, Objetos
    <3>3. i \notin desfasado' => i \notin desfasado
      BY <1>4, <2>2
    <3>4. QED
      BY <1>5, <3>1, <3>2, <3>3
  <2>3. QED
    BY <2>1, <2>2
<1>7. Tablas' /\ HistorialFiel' /\ Objetos'
  <2>1. fila' \in [Item -> Fila]
    <3>1. fila' = [i \in Item |-> fila'[i]]
      BY DEF Confirmar
    <3>2. QED
      BY <1>6, <3>1
  <2>2. historial' \in [Item -> Fila]
    <3>1. historial' = [i \in Item |-> historial'[i]]
      BY <1>4
    <3>2. QED
      BY <1>6, <3>1
  <2>3. version' \in [Item -> Nat]
    <3>1. version' = [i \in Item |-> version'[i]]
      BY DEF Confirmar
    <3>2. QED
      BY <1>6, <3>1
  <2>4. pisado' \subseteq Item /\ desfasado' \subseteq Item
    <3>1. pisado' = pisado \cup {i \in ids : p.vista[i] # version[i]}
      BY DEF Confirmar
    <3>2. QED
      BY <1>2, <1>4, <3>1 DEF Inv, Tablas
  <2>5. QED
    BY <1>1, <1>6, <2>1, <2>2, <2>3, <2>4 DEF Tablas, HistorialFiel, Objetos, Hay, Inv,
       obtener_estado_item_en_fecha
<1>8. PICK q : /\ q \in PetT /\ q.leido = Nada /\ q.nueva = Nada
               /\ q.en \in {"libre", "avisar", "primeras"} /\ pet' = [pet EXCEPT ![r] = q]
  <2>1. TrasCommit(r, ids)
    BY DEF Confirmar
  <2> HIDE DEF ids
  <2>2. QED
    BY <1>2, <2>1, TrasCommitT
<1>9. Peticiones'
  <2>1. pet' \in [Peticion -> PetT] /\ pet'[r] = q /\ \A x \in Peticion \ {r} : pet'[x] = pet[x]
    BY <1>8 DEF Inv, Peticiones
  <2>2. ASSUME NEW x \in Peticion, NEW z, z = pet'[x]  PROVE PetOK(z)'
    <3>1. CASE x = r
      BY <1>8, <2>1, <2>2, <3>1, VacioOK
    <3>2. CASE x # r
      <4>1. z \in PetT /\ PetOK(z)
        BY <2>1, <2>2, <3>2 DEF Inv, Peticiones
      <4>2. ASSUME NEW i \in DOMAIN z.leido
            PROVE  z.vista[i] \in 0..version'[i] /\ (z.vista[i] = version'[i] => z.leido[i] = fila'[i])
        <5>1. i \in Item
          <6>1. z.leido \in Filas
            BY <4>1 DEF PetT
          <6>2. QED
            BY <6>1 DEF Filas
        <5>2. /\ z.vista[i] \in 0..version[i] /\ (z.vista[i] = version[i] => z.leido[i] = fila[i])
              /\ version[i] \in Nat
          BY <1>5, <4>1, <5>1 DEF PetOK, Leida
        <5>3. CASE i \in ids
          <6>1. version'[i] = version[i] + 1
            BY <1>3, <5>1, <5>3
          <6>2. QED
            BY <5>2, <6>1
        <5>4. CASE i \notin ids
          <6>1. version'[i] = version[i] /\ fila'[i] = fila[i]
            BY <1>3, <5>1, <5>4
          <6>2. QED
            BY <5>2, <6>1
        <5>5. QED
          BY <5>3, <5>4
      <4>3. Leida(z)'
        BY <4>2 DEF Leida
      <4>4. Nombra(z)'
        BY <1>1, <4>1 DEF PetOK, Nombra, Hay
      <4>5. QED
        BY <4>1, <4>3, <4>4 DEF PetOK
    <3>3. QED
      BY <3>1, <3>2
  <2>3. QED
    BY <2>1, <2>2 DEF Peticiones, PetOK, Leida, Nombra
<1>10. Resto'
  <2>1. candado' \in [Item -> Peticion \cup {Nadie}]
    BY DEF Confirmar, Soltar, Inv, Resto
  <2>2. sinAviso' \subseteq Item
    <3> HIDE DEF ids
    <3>1. sinAviso' \in {sinAviso \ ids, sinAviso, sinAviso \cup ids}
      BY DEF Confirmar, ids
    <3>2. QED
      BY <1>2, <3>1 DEF Inv, Resto
  <2>3. "siempre" \in DOMAIN recorrido' /\ recorrido'.siempre \subseteq Item
    <3>1. \E S : recorrido' = [recorrido EXCEPT !.siempre = @ \cap S]
      BY DEF Confirmar
    <3>2. QED
      BY <3>1 DEF Inv, Resto
  <2>4. QED
    BY <1>1, <1>4, <2>1, <2>2, <2>3, FallaT DEF Inv, Resto
<1>11. QED
  BY <1>1, <1>7, <1>9, <1>10 DEF Inv, Cache, redis

LEMMA InvPaso == Inv /\ [Next]_vars => Inv'
BY LeerPaso, ImagenPaso, AvisoPaso, FallaRedisPaso, CandadoPaso, ConfirmarPaso, EmpezarPaso,
   RecorrerPaso DEF Next, Paso

LEMMA InvSiempre == Spec => []Inv
BY InvInicio, InvPaso, PTL DEF Spec

-----------------------------------------------------------------------------
(* What each step makes of the record of its request.                      *)

Mismos(p, q) ==
  q.op = p.op /\ q.leido = p.leido /\ q.nueva = p.nueva /\ q.vista = p.vista /\ q.sola = p.sola
SoloDe(r) == \A x \in Peticion \ {r} : pet'[x] = pet[x]

LEMMA IrDice ==
  ASSUME Inv, NEW r \in Peticion, NEW q, Ir(r, q)
  PROVE  pet'[r] = q /\ SoloDe(r)
BY DEF Ir, SoloDe, Inv, Peticiones

LEMMA FinDice ==
  ASSUME Inv, NEW r \in Peticion, Fin(r)
  PROVE  pet'[r] = Libre /\ SoloDe(r)
BY IrDice DEF Fin

LEMMA TomarDice ==
  ASSUME Inv, NEW r \in Peticion, TomarPaginas(r)
  PROVE  /\ SoloDe(r) /\ Mismos(pet[r], pet'[r]) /\ pet[r].en = "avisar"
         /\ pet'[r].en = "invalidar" /\ pet'[r].item \in pet[r].avisar
         /\ pet'[r].avisar = pet[r].avisar \ {pet'[r].item}
         /\ pet'[r].paginas = indice[pet'[r].item] /\ pet'[r].pagina = pet[r].pagina
<1> DEFINE p == pet[r]
           q(i) == [p EXCEPT !.en = "invalidar", !.item = i, !.avisar = @ \ {i}, !.paginas = indice[i]]
<1>1. PICK i \in p.avisar : Ir(r, q(i))
  BY DEF TomarPaginas
<1>2. p \in PetT /\ p.en = "avisar"
  BY DEF Inv, Peticiones, TomarPaginas
<1>3. /\ q(i).en = "invalidar" /\ q(i).item = i /\ q(i).avisar = p.avisar \ {i}
      /\ q(i).paginas = indice[i] /\ q(i).pagina = p.pagina /\ Mismos(p, q(i))
  BY <1>2 DEF PetT, Mismos
<1> HIDE DEF q
<1>4. QED
  BY <1>1, <1>2, <1>3, IrDice

LEMMA TomarFallaDice ==
  ASSUME Inv, NEW r \in Peticion, TomarPaginasFalla(r)
  PROVE  /\ SoloDe(r) /\ pet[r].en = "avisar"
         /\ \E i \in pet[r].avisar :
              /\ sinAviso' = sinAviso \cup {i}
              /\ \/ pet[r].avisar = {i} /\ pet'[r] = Libre
                 \/ /\ Mismos(pet[r], pet'[r]) /\ pet'[r].en = "avisar"
                    /\ pet'[r].avisar = pet[r].avisar \ {i}
<1> DEFINE p == pet[r]
           q(i) == [p EXCEPT !.avisar = @ \ {i}]
<1>1. PICK i \in p.avisar : /\ sinAviso' = sinAviso \cup {i}
                            /\ (p.avisar = {i} /\ Fin(r)) \/ Ir(r, q(i))
  BY DEF TomarPaginasFalla
<1>2. p \in PetT /\ p.en = "avisar"
  BY DEF Inv, Peticiones, TomarPaginasFalla
<1>3. q(i).en = "avisar" /\ q(i).avisar = p.avisar \ {i} /\ Mismos(p, q(i))
  BY <1>2 DEF PetT, Mismos
<1> HIDE DEF q
<1>4. QED
  BY <1>1, <1>2, <1>3, IrDice, FinDice

LEMMA PrimerasDice ==
  ASSUME Inv, NEW r \in Peticion, TomarPrimeras(r)
  PROVE  /\ SoloDe(r) /\ Mismos(pet[r], pet'[r]) /\ pet[r].en = "primeras"
         /\ pet'[r].en = "invalidar" /\ pet'[r].item = pet[r].item
         /\ pet'[r].avisar = pet[r].avisar /\ pet'[r].pagina = pet[r].pagina
<1> DEFINE p == pet[r]
           q == [p EXCEPT !.en = "invalidar", !.paginas = primeras]
<1>1. p \in PetT /\ p.en = "primeras" /\ Ir(r, q)
  BY DEF Inv, Peticiones, TomarPrimeras
<1>2. /\ q.en = "invalidar" /\ q.item = p.item /\ q.avisar = p.avisar
      /\ q.pagina = p.pagina /\ Mismos(p, q)
  BY <1>1 DEF PetT, Mismos
<1> HIDE DEF q
<1>3. QED
  BY <1>1, <1>2, IrDice

LEMMA BorrarDice ==
  ASSUME Inv, NEW r \in Peticion, Borrar(r)
  PROVE  \E g \in pet[r].paginas :
            /\ SoloDe(r) /\ Mismos(pet[r], pet'[r]) /\ pet[r].en = "invalidar" /\ BorrarPagina(g)
            /\ pet'[r].en = "limpiar" /\ pet'[r].item = pet[r].item /\ pet'[r].pagina = g
            /\ pet'[r].avisar = pet[r].avisar /\ pet'[r].paginas = pet[r].paginas \ {g}
<1> DEFINE p == pet[r]
           q(g) == [p EXCEPT !.en = "limpiar", !.pagina = g, !.paginas = @ \ {g}, !.meta = meta[g]]
<1>1. PICK g \in p.paginas : Ir(r, q(g)) /\ BorrarPagina(g)
  BY DEF Borrar
<1>2. p \in PetT /\ p.en = "invalidar"
  BY DEF Inv, Peticiones, Borrar
<1>3. /\ q(g).en = "limpiar" /\ q(g).item = p.item /\ q(g).avisar = p.avisar
      /\ q(g).paginas = p.paginas \ {g} /\ q(g).pagina = g /\ Mismos(p, q(g))
  BY <1>2 DEF PetT, Mismos
<1> HIDE DEF q
<1>4. QED
  BY <1>1, <1>2, <1>3, IrDice

LEMMA BorrarFallaDice ==
  ASSUME Inv, NEW r \in Peticion, BorrarFalla(r)
  PROVE  \E g \in pet[r].paginas :
            /\ SoloDe(r) /\ Mismos(pet[r], pet'[r]) /\ pet[r].en = "invalidar" /\ BorradoFalla(g)
            /\ pet'[r].en = "invalidar" /\ pet'[r].item = pet[r].item
            /\ pet'[r].avisar = pet[r].avisar /\ pet'[r].paginas = pet[r].paginas \ {g}
<1> DEFINE p == pet[r]
           q(g) == [p EXCEPT !.paginas = @ \ {g}]
<1>1. PICK g \in p.paginas : Ir(r, q(g)) /\ BorradoFalla(g)
  BY DEF BorrarFalla
<1>2. p \in PetT /\ p.en = "invalidar"
  BY DEF Inv, Peticiones, BorrarFalla
<1>3. /\ q(g).en = "invalidar" /\ q(g).item = p.item /\ q(g).avisar = p.avisar
      /\ q(g).paginas = p.paginas \ {g} /\ Mismos(p, q(g))
  BY <1>2 DEF PetT, Mismos
<1> HIDE DEF q
<1>4. QED
  BY <1>1, <1>2, <1>3, IrDice

LEMMA LimpiarDice ==
  ASSUME Inv, NEW r \in Peticion, Limpiar(r) \/ LimpiarFalla(r)
  PROVE  /\ SoloDe(r) /\ Mismos(pet[r], pet'[r]) /\ pet[r].en = "limpiar"
         /\ pet'[r].en = "invalidar" /\ pet'[r].item = pet[r].item
         /\ pet'[r].avisar = pet[r].avisar /\ pet'[r].paginas = pet[r].paginas
<1> DEFINE p == pet[r]
           q == [p EXCEPT !.en = "invalidar", !.pagina = 0, !.meta = SinMeta]
<1>1. p \in PetT /\ p.en = "limpiar" /\ Ir(r, q)
  BY DEF Inv, Peticiones, Limpiar, LimpiarFalla
<1>2. /\ q.en = "invalidar" /\ q.item = p.item /\ q.avisar = p.avisar
      /\ q.paginas = p.paginas /\ Mismos(p, q)
  BY <1>1 DEF PetT, Mismos
<1> HIDE DEF q
<1>3. QED
  BY <1>1, <1>2, IrDice

LEMMA SiguienteDice ==
  ASSUME Inv, NEW r \in Peticion, Siguiente(r)
  PROVE  /\ SoloDe(r) /\ pet[r].en = "invalidar" /\ pet[r].paginas = {}
         /\ \/ /\ pet[r].item # 0 /\ BorrarIndice(pet[r].item) /\ Mismos(pet[r], pet'[r])
               /\ pet'[r].en = "invalidar" /\ pet'[r].item = 0 /\ pet'[r].avisar = pet[r].avisar
            \/ /\ pet[r].item = 0 /\ pet[r].avisar # {} /\ Mismos(pet[r], pet'[r]) /\ UNCHANGED redis
               /\ pet'[r].en = "avisar" /\ pet'[r].avisar = pet[r].avisar
            \/ pet[r].item = 0 /\ pet[r].avisar = {} /\ pet'[r] = Libre /\ UNCHANGED redis
<1> DEFINE p == pet[r]
           q == [p EXCEPT !.item = 0, !.paginas = primeras]
           z == [p EXCEPT !.en = "avisar", !.item = 0, !.paginas = {}]
<1>1. /\ p \in PetT /\ p.en = "invalidar" /\ p.paginas = {}
      /\ \/ p.item # 0 /\ BorrarIndice(p.item) /\ Ir(r, q)
         \/ p.item = 0 /\ UNCHANGED redis /\ p.avisar = {} /\ Fin(r)
         \/ p.item = 0 /\ UNCHANGED redis /\ p.avisar # {} /\ Ir(r, z)
  BY DEF Inv, Peticiones, Siguiente, SiguienteItem
<1>2. q.en = p.en /\ q.item = 0 /\ q.avisar = p.avisar /\ Mismos(p, q)
  BY <1>1 DEF PetT, Mismos
<1>3. z.en = "avisar" /\ z.avisar = p.avisar /\ Mismos(p, z)
  BY <1>1 DEF PetT, Mismos
<1> HIDE DEF q, z
<1>4. QED
  BY <1>1, <1>2, <1>3, IrDice, FinDice

LEMMA SiguienteFallaDice ==
  ASSUME Inv, NEW r \in Peticion, SiguienteFalla(r)
  PROVE  /\ SoloDe(r) /\ pet[r].en = "invalidar" /\ pet[r].paginas = {}
         /\ UNCHANGED redis \/ BorrarIndice(pet[r].item)
         /\ \/ pet[r].avisar = {} /\ pet'[r] = Libre
            \/ /\ Mismos(pet[r], pet'[r]) /\ pet'[r].en = "avisar"
               /\ pet'[r].avisar = pet[r].avisar
<1> DEFINE p == pet[r]
           z == [p EXCEPT !.en = "avisar", !.item = 0, !.paginas = {}]
<1>1. /\ p \in PetT /\ p.en = "invalidar" /\ p.paginas = {}
      /\ UNCHANGED redis \/ BorrarIndice(p.item)
      /\ (p.avisar = {} /\ Fin(r)) \/ Ir(r, z)
  BY DEF Inv, Peticiones, SiguienteFalla, SiguienteItem
<1>2. z.en = "avisar" /\ z.avisar = p.avisar /\ Mismos(p, z)
  BY <1>1 DEF PetT, Mismos
<1> HIDE DEF z
<1>3. QED
  BY <1>1, <1>2, IrDice, FinDice

LEMMA GuardarDice ==
  ASSUME Inv, NEW r \in Peticion, Guardar(r)
  PROVE  /\ SoloDe(r) /\ Mismos(pet[r], pet'[r]) /\ pet[r].en = "guardar"
         /\ pet'[r].en = "registrar" /\ pet'[r].pagina = pet[r].pagina /\ pet[r].pagina \in Pagina
<1> DEFINE p == pet[r]
           q == [p EXCEPT !.en = "registrar"]
<1>1. p \in PetT /\ PetOK(p) /\ p.en = "guardar" /\ Ir(r, q)
  BY DEF Inv, Peticiones, Guardar
<1>2. q.en = "registrar" /\ q.pagina = p.pagina /\ Mismos(p, q)
  BY <1>1 DEF PetT, Mismos
<1> HIDE DEF q
<1>3. QED
  BY <1>1, <1>2, IrDice DEF PetOK

LEMMA GuardarFallaDice ==
  ASSUME Inv, NEW r \in Peticion, GuardarFalla(r)
  PROVE  /\ SoloDe(r) /\ pet[r].en = "guardar" /\ pet'[r].en = "registrar" /\ ~pet'[r].sola
         /\ pet'[r].op = pet[r].op /\ pet'[r].leido = pet[r].leido
         /\ pet'[r].nueva = pet[r].nueva /\ pet'[r].vista = pet[r].vista
<1> DEFINE p == pet[r]
           q == [p EXCEPT !.en = "registrar", !.sola = FALSE]
<1>1. p \in PetT /\ p.en = "guardar" /\ Ir(r, q)
  BY DEF Inv, Peticiones, GuardarFalla
<1>2. /\ q.en = "registrar" /\ ~q.sola /\ q.op = p.op /\ q.leido = p.leido
      /\ q.nueva = p.nueva /\ q.vista = p.vista
  BY <1>1 DEF PetT
<1> HIDE DEF q
<1>3. QED
  BY <1>1, <1>2, IrDice

LEMMA LeerDice ==
  ASSUME Inv, NEW r \in Peticion, Leer(r)
  PROVE  LET p == pet[r]
             q == pet'[r]
         IN /\ SoloDe(r) /\ p.en = "leer" /\ p.op \in Entradas
            /\ \/ q = Libre
               \/ /\ q.op = p.op /\ q.sola = p.sola
                  /\ DOMAIN q.leido = DOMAIN p.leido \cup PorLeer(p)
                  /\ \A i \in DOMAIN q.leido :
                       q.leido[i] = IF i \in DOMAIN p.leido THEN p.leido[i] ELSE fila[i]
                  /\ \/ q.en = "leer" /\ q.nueva = p.nueva
                     \/ /\ q.en = IF p.op.tipo = "imagen" THEN "subir"
                                  ELSE IF p.op.tipo = "eliminar" THEN "borrar_imagen" ELSE "flush"
                        /\ DOMAIN q.leido = p.op.ids /\ q.leido \in [p.op.ids -> Fila]
                        /\ q.nueva = Cambiadas(p.op, q.leido)
<1> DEFINE p == pet[r]
           S == DOMAIN p.leido \cup PorLeer(p)
           l == [i \in S |-> IF i \in DOMAIN p.leido THEN p.leido[i] ELSE get_by_id(i)]
           v == [i \in DOMAIN l |-> IF i \in DOMAIN p.leido THEN p.vista[i] ELSE version[i]]
           n == Cambiadas(p.op, l)
           e == CASE p.op.tipo = "imagen" -> "subir" [] p.op.tipo = "eliminar" -> "borrar_imagen"
                  [] OTHER -> "flush"
           q == [p EXCEPT !.leido = l, !.vista = v]
           z == [p EXCEPT !.leido = l, !.vista = v, !.nueva = n, !.en = e]
<1>1. /\ p \in PetT /\ PetOK(p) /\ p.en = "leer" /\ p.op \in Entradas
      /\ fila \in [Item -> Fila]
  BY DEF Leer, Inv, Peticiones, PetOK, Tablas
<1>2. Ir(r, q) \/ Fin(r) \/ (DOMAIN l = p.op.ids /\ Ir(r, z))
  BY DEF Leer
<1>3. /\ DOMAIN l = S
      /\ \A i \in S : l[i] = IF i \in DOMAIN p.leido THEN p.leido[i] ELSE fila[i]
  BY DEF get_by_id, get_or_set
<1>4. DOMAIN l = p.op.ids => l \in [p.op.ids -> Fila]
  <2>1. p.leido \in Filas /\ p.op.ids \subseteq Item
    BY <1>1, OpT DEF PetT
  <2>2. \A i \in p.op.ids : (i \in DOMAIN p.leido => p.leido[i] \in Fila) /\ fila[i] \in Fila
    BY <1>1, <2>1 DEF Filas
  <2>3. ASSUME DOMAIN l = p.op.ids  PROVE \A i \in p.op.ids : l[i] \in Fila
    BY <1>3, <2>2, <2>3
  <2>4. l = [i \in DOMAIN l |-> l[i]]
    OBVIOUS
  <2> HIDE DEF l
  <2>5. QED
    BY <2>3, <2>4
<1>5. e = IF p.op.tipo = "imagen" THEN "subir" ELSE IF p.op.tipo = "eliminar" THEN "borrar_imagen" ELSE "flush"
  OBVIOUS
<1> HIDE DEF l, v, n, e
<1>6. q.op = p.op /\ q.sola = p.sola /\ q.leido = l /\ q.nueva = p.nueva /\ q.en = "leer"
  BY <1>1 DEF PetT
<1>7. z.op = p.op /\ z.sola = p.sola /\ z.leido = l /\ z.nueva = n /\ z.en = e
  BY <1>1 DEF PetT
<1> HIDE DEF q, z
<1>8. CASE Ir(r, q)
  BY <1>1, <1>3, <1>6, <1>8, IrDice
<1>9. CASE Fin(r)
  BY <1>1, <1>9, FinDice
<1>10. CASE DOMAIN l = p.op.ids /\ Ir(r, z)
  BY <1>1, <1>3, <1>4, <1>5, <1>7, <1>10, IrDice DEF n
<1>11. QED
  BY <1>2, <1>8, <1>9, <1>10

LEMMA ImagenDice ==
  ASSUME Inv, NEW r \in Peticion, SubirImagen(r) \/ BorrarImagen(r)
  PROVE  /\ SoloDe(r) /\ Mismos(pet[r], pet'[r]) /\ pet'[r].en = "flush"
         /\ pet[r].en \in {"subir", "borrar_imagen"}
<1> DEFINE p == pet[r]
           q == [p EXCEPT !.en = "flush"]
<1>1. p \in PetT /\ p.en \in {"subir", "borrar_imagen"} /\ Ir(r, q)
  BY DEF Inv, Peticiones, SubirImagen, BorrarImagen
<1>2. q.en = "flush" /\ Mismos(p, q)
  BY <1>1 DEF PetT, Mismos
<1> HIDE DEF q
<1>3. QED
  BY <1>1, <1>2, IrDice

LEMMA ConfirmarDice ==
  ASSUME Inv, NEW r \in Peticion, Confirmar(r) \/ CommitSinEfecto(r)
  PROVE  /\ SoloDe(r) /\ pet[r].en = "flush"
         /\ pet'[r].op = SinOp /\ pet'[r].leido = Nada /\ pet'[r].nueva = Nada /\ ~pet'[r].sola
         /\ pet'[r].en \in {"libre", "avisar", "primeras"}
         /\ pet[r].op.tipo \in AvisaItems => pet'[r].en = "avisar" /\ pet'[r].avisar = DOMAIN pet[r].nueva
         /\ pet'[r].item = 0
<1> DEFINE p == pet[r]
           q == [Libre EXCEPT !.en = "avisar", !.avisar = DOMAIN p.nueva]
           z == [Libre EXCEPT !.en = "primeras"]
<1>1. /\ p.en = "flush"
      /\ Ir(r, CASE p.op.tipo \in AvisaItems -> q [] p.op.tipo \in AvisaPrimeras -> z [] OTHER -> Libre)
  BY DEF Confirmar, CommitSinEfecto, TrasCommit
<1>2. AvisaItems \cap AvisaPrimeras = {}
  BY DEF AvisaItems, AvisaPrimeras
<1>3. /\ q.en = "avisar" /\ q.avisar = DOMAIN p.nueva /\ q.op = SinOp /\ q.leido = Nada
      /\ q.nueva = Nada /\ ~q.sola /\ q.item = 0 /\ z.item = 0 /\ Libre.item = 0
      /\ z.en = "primeras" /\ z.op = SinOp /\ z.leido = Nada /\ z.nueva = Nada /\ ~z.sola
      /\ Libre.en = "libre" /\ Libre.op = SinOp /\ Libre.leido = Nada /\ Libre.nueva = Nada
      /\ ~Libre.sola
  BY DEF Libre
<1> HIDE DEF q, z
<1>4. CASE p.op.tipo \in AvisaItems
  BY <1>1, <1>2, <1>3, <1>4, IrDice
<1>5. CASE p.op.tipo \in AvisaPrimeras
  BY <1>1, <1>2, <1>3, <1>5, IrDice
<1>6. CASE p.op.tipo \notin AvisaItems \cup AvisaPrimeras
  BY <1>1, <1>2, <1>3, <1>6, IrDice
<1>7. QED
  BY <1>4, <1>5, <1>6

\* What a request that begins changes of another one: it is no longer alone.
Desolado(p, q) ==
  /\ q.en = p.en /\ q.op = p.op /\ q.leido = p.leido /\ q.vista = p.vista /\ q.nueva = p.nueva
  /\ q.pagina = p.pagina /\ q.paginas = p.paginas /\ q.avisar = p.avisar /\ q.item = p.item
  /\ ~q.sola

LEMMA EmpezarDice ==
  ASSUME Inv, NEW r \in Peticion, NEW q, Empezar(r, q)
  PROVE  pet[r].en = "libre" /\ pet'[r] = q /\ \A x \in Peticion \ {r} : Desolado(pet[x], pet'[x])
<1>1. ASSUME NEW x \in Peticion \ {r}  PROVE Desolado(pet[x], pet'[x])
  <2>1. pet[x] \in PetT
    BY DEF Inv, Peticiones
  <2>2. pet'[x] = [pet[x] EXCEPT !.sola = FALSE]
    BY DEF Empezar
  <2>3. QED
    BY <2>1, <2>2 DEF PetT, Desolado
<1>2. QED
  BY <1>1 DEF Empezar, EnCurso

LEMMA PedirDice ==
  ASSUME Inv, NEW r \in Peticion, NEW op \in Entradas, Pedir(r, op)
  PROVE  /\ pet[r].en = "libre" /\ Admisible(op) /\ pet'[r].en = "leer" /\ pet'[r].op = op
         /\ pet'[r].leido = Nada /\ pet'[r].nueva = Nada /\ ~pet'[r].sola
         /\ \A x \in Peticion \ {r} : Desolado(pet[x], pet'[x])
         /\ UNCHANGED <<recorrido, redis, tablas, historia>>
<1> DEFINE q == [Libre EXCEPT !.en = "leer", !.op = op]
<1>1. q.en = "leer" /\ q.op = op /\ q.leido = Nada /\ q.nueva = Nada /\ ~q.sola
  BY DEF Libre
<1>2. /\ Empezar(r, q) /\ Admisible(op)
      /\ UNCHANGED <<recorrido, redis, tablas, historia>>
  BY DEF Pedir
<1> HIDE DEF q
<1>3. QED
  BY <1>1, <1>2, EmpezarDice

LEMMA ListarDice ==
  ASSUME Inv, NEW r \in Peticion, NEW g \in Pagina, Listar(r, g)
  PROVE  /\ pet[r].en = "libre" /\ pet'[r].en = "guardar" /\ pet'[r].op = SinOp
         /\ pet'[r].leido = Nada /\ pet'[r].nueva = Nada /\ pet'[r].pagina = g
         /\ pet'[r].vista = [i \in EnPagina(g, Activos) |-> version[i]]
         /\ pet'[r].sola = \A x \in Peticion : ~EnCurso(x)
         /\ \A x \in Peticion \ {r} : Desolado(pet[x], pet'[x])
         /\ UNCHANGED <<recorrido, redis, tablas, historia>>
<1> DEFINE v == [i \in EnPagina(g, Activos) |-> version[i]]
           b == \A x \in Peticion : ~EnCurso(x)
           q == [Libre EXCEPT !.en = "guardar", !.pagina = g, !.vista = v, !.sola = b]
<1>1. Empezar(r, q) /\ UNCHANGED <<recorrido, redis, tablas, historia>>
  BY DEF Listar
<1> HIDE DEF v, b
<1>2. q.en = "guardar" /\ q.op = SinOp /\ q.leido = Nada /\ q.nueva = Nada /\ q.pagina = g
      /\ q.vista = v /\ q.sola = b
  BY DEF Libre
<1> HIDE DEF q
<1>3. QED
  BY <1>1, <1>2, EmpezarDice DEF v, b

\* The steps that free the request, whatever it was doing.
LEMMA AcabaDice ==
  ASSUME Inv, NEW r \in Peticion,
         Registrar(r) \/ RegistrarFalla(r) \/ TomarPrimerasFalla(r) \/ Revertir(r) \/ Cortar(r)
  PROVE  pet'[r] = Libre /\ SoloDe(r)
BY FinDice DEF Registrar, RegistrarFalla, TomarPrimerasFalla, Revertir, Cortar

-----------------------------------------------------------------------------
(* The stock there is: a transfer that writes has read both rows.          *)

Traslado(p) ==
  p.en \in {"leer", "subir", "borrar_imagen", "flush"} /\ p.op.de # 0 =>
    /\ p.en \in {"leer", "flush"} /\ p.op \in Entradas /\ p.op.ids # {p.op.de}
    /\ p.en = "flush" => p.leido \in [p.op.ids -> Fila] /\ p.nueva = Cambiadas(p.op, p.leido)
Traslados == \A r \in Peticion : Traslado(pet[r])
Cuadre == Traslados /\ TotalCuadra

LEMMA TrasladoDe ==
  ASSUME NEW op \in Entradas
  PROVE  op.de # 0 <=> op.tipo \in {"transferir", "transferir_v2"}
<1>1. /\ op.de \in op.ids <=> op.tipo \in {"transferir", "transferir_v2"}
      /\ op.de \notin op.ids => op.de = 0
      /\ op.ids \subseteq Item /\ 0 \notin Item
  BY InventarioOK
<1>2. QED
  BY <1>1

LEMMA TrasladosInicio == Init => Traslados
BY DEF Init, Traslados, Traslado, Libre, SinOp

LEMMA TrasladosPaso ==
  ASSUME Inv, Traslados, [Next]_vars
  PROVE  Traslados'
<1>1. SUFFICES ASSUME NEW x \in Peticion  PROVE Traslado(pet'[x])
  BY DEF Traslados, Traslado
<1>2. Traslado(pet[x]) /\ pet[x] \in PetT /\ PetOK(pet[x])
  BY DEF Traslados, Inv, Peticiones
<1>3. Traslado(Libre)
  BY DEF Traslado, Libre
<1>4. ASSUME NEW r \in Peticion, NEW op \in Entradas, Pedir(r, op)  PROVE Traslado(pet'[x])
  <2>1. CASE x = r
    BY <1>4, <2>1, PedirDice, TrasladoDe DEF Traslado, Admisible
  <2>2. CASE x # r
    <3>1. pet'[x].en = pet[x].en /\ pet'[x].op = pet[x].op /\ pet'[x].leido = pet[x].leido
          /\ pet'[x].nueva = pet[x].nueva
      <4>1. Desolado(pet[x], pet'[x])
        BY <1>4, <2>2, PedirDice
      <4>2. QED
        BY <4>1 DEF Desolado
    <3>2. QED
      BY <1>2, <3>1 DEF Traslado
  <2>3. QED
    BY <2>1, <2>2
<1>5. ASSUME NEW r \in Peticion, NEW g \in Pagina, Listar(r, g)  PROVE Traslado(pet'[x])
  <2>1. CASE x = r
    BY <1>5, <2>1, ListarDice DEF Traslado
  <2>2. CASE x # r
    <3>1. pet'[x].en = pet[x].en /\ pet'[x].op = pet[x].op /\ pet'[x].leido = pet[x].leido
          /\ pet'[x].nueva = pet[x].nueva
      <4>1. Desolado(pet[x], pet'[x])
        BY <1>5, <2>2, ListarDice
      <4>2. QED
        BY <4>1 DEF Desolado
    <3>2. QED
      BY <1>2, <3>1 DEF Traslado
  <2>3. QED
    BY <2>1, <2>2
<1>6. ASSUME NEW r \in Peticion,
             Paso(r) \/ Revertir(r) \/ CommitSinEfecto(r) \/ FallaRedis(r) \/ Cortar(r)
      PROVE  Traslado(pet'[x])
  <2>1. CASE Leer(r) /\ x = r
    <3>1. /\ pet[r].en = "leer" /\ pet[r].op \in Entradas
          /\ \/ pet'[r] = Libre
             \/ pet'[r].op = pet[r].op /\ pet'[r].en = "leer"
             \/ /\ pet'[r].op = pet[r].op /\ pet'[r].leido \in [pet[r].op.ids -> Fila]
                /\ pet'[r].nueva = Cambiadas(pet[r].op, pet'[r].leido)
                /\ pet[r].op.tipo \in {"imagen", "eliminar"} \/ pet'[r].en = "flush"
      BY <2>1, LeerDice
    <3>2. pet[r].op.tipo \in {"imagen", "eliminar"} => pet[r].op.de = 0
      BY <3>1, TrasladoDe
    <3>3. pet[r].op.de # 0 => pet[r].op.ids # {pet[r].op.de}
      BY <1>2, <2>1, <3>1 DEF Traslado
    <3>4. QED
      BY <1>3, <2>1, <3>1, <3>2, <3>3 DEF Traslado
  <2>2. CASE (SubirImagen(r) \/ BorrarImagen(r)) /\ x = r
    BY <1>2, <2>2, ImagenDice DEF Mismos, Traslado
  <2>3. CASE (Confirmar(r) \/ CommitSinEfecto(r)) /\ x = r
    BY <2>3, ConfirmarDice DEF Traslado
  <2>4. CASE /\ x = r
             /\ Registrar(r) \/ RegistrarFalla(r) \/ TomarPrimerasFalla(r) \/ Revertir(r) \/ Cortar(r)
    BY <1>3, <2>4, AcabaDice
  <2>5. CASE /\ x = r
             /\ \/ TomarPaginas(r) \/ TomarPrimeras(r) \/ Borrar(r) \/ BorrarFalla(r)
                \/ Limpiar(r) \/ LimpiarFalla(r) \/ Guardar(r) \/ GuardarFalla(r)
    <3>1. pet'[r].en \notin {"leer", "subir", "borrar_imagen", "flush"}
      BY <2>5, TomarDice, PrimerasDice, BorrarDice, BorrarFallaDice, LimpiarDice, GuardarDice, GuardarFallaDice
    <3>2. QED
      BY <2>5, <3>1 DEF Traslado
  <2>6. CASE (Siguiente(r) \/ SiguienteFalla(r) \/ TomarPaginasFalla(r)) /\ x = r
    <3>1. pet'[r] = Libre \/ pet'[r].en \in {"invalidar", "avisar"}
      BY <2>6, SiguienteDice, SiguienteFallaDice, TomarFallaDice
    <3>2. QED
      BY <1>3, <2>6, <3>1 DEF Traslado
  <2>7. CASE Actualizar(r) \/ x # r
    <3>1. Actualizar(r) \/ SoloDe(r)
      BY <1>6, LeerDice, ImagenDice, ConfirmarDice, AcabaDice, TomarDice, PrimerasDice, BorrarDice,
         LimpiarDice, GuardarDice, SiguienteDice, TomarFallaDice, BorrarFallaDice, SiguienteFallaDice,
         GuardarFallaDice DEF Paso, FallaRedis
    <3>2. pet'[x] = pet[x]
      BY <2>7, <3>1 DEF Actualizar, SoloDe
    <3>3. QED
      BY <1>2, <3>2
  <2>8. QED
    BY <1>6, <2>1, <2>2, <2>3, <2>4, <2>5, <2>6, <2>7 DEF Paso, FallaRedis
<1>7. Recorrer \/ (\E g \in Pagina : Expira(g)) \/ UNCHANGED vars => pet' = pet
  BY DEF Recorrer, Expira, vars
<1>8. QED
  BY <1>2, <1>4, <1>5, <1>6, <1>7 DEF Next

LEMMA SumaEsInt ==
  ASSUME NEW f \in [Item -> Fila]
  PROVE  /\ Suma(f) = SumaDe([i \in Item |-> f[i].stock]) /\ Suma(f) \in Int
         /\ [i \in Item |-> f[i].stock] \in [Item -> Int]
<1>1. Suma(f) = SumaDe([i \in Item |-> f[i].stock])
  BY DEF Suma, SumaDe
<1>2. [i \in Item |-> f[i].stock] \in [Item -> Int]
  BY DEF Fila
<1>3. IsFiniteSet(Item)
  BY InventarioOK
<1>4. QED
  BY <1>1, <1>2, <1>3, SumaT

\* A transfer that writes moves its units from one row to the other.
LEMMA TransferirMueve ==
  ASSUME NEW op \in Entradas, op.de # 0, op.ids # {op.de}, NEW l \in [op.ids -> Fila],
         DOMAIN Cambiadas(op, l) # {}
  PROVE  \E a \in Item \ {op.de} :
           /\ op.ids = {op.de, a} /\ DOMAIN Cambiadas(op, l) = op.ids /\ op.de \in Item
           /\ Cambiadas(op, l)[op.de].stock = l[op.de].stock - op.n
           /\ Cambiadas(op, l)[a].stock = l[a].stock + op.n
<1> DEFINE h == [i \in op.ids |-> [l[i] EXCEPT !.stock = IF i = op.de THEN @ - op.n ELSE @ + op.n]]
<1>1. op.n \in Nat /\ op.ids \subseteq Item /\ op.de \in op.ids
  BY OpT
<1>2. op.tipo \in {"transferir", "transferir_v2"} /\ \E a \in Item : op.ids = {op.de, a}
  BY TrasladoDe, InventarioOK
<1>3. PICK a \in Item \ {op.de} : op.ids = {op.de, a}
  BY <1>2
<1>4. Asigna(op, l) = Nada \/ Asigna(op, l) = h
  BY <1>2 DEF Asigna, transferir_stock
<1>5. Asigna(op, l) = h
  BY <1>4 DEF Cambiadas, Nada
<1>6. \A i \in op.ids : /\ l[i] \in Fila /\ l[i].stock \in Nat
                        /\ h[i].stock = IF i = op.de THEN l[i].stock - op.n ELSE l[i].stock + op.n
                        /\ op.n = 0 => h[i] = l[i]
  <2> SUFFICES ASSUME NEW i \in op.ids
               PROVE  /\ l[i] \in Fila /\ l[i].stock \in Nat
                      /\ h[i].stock = IF i = op.de THEN l[i].stock - op.n ELSE l[i].stock + op.n
                      /\ op.n = 0 => h[i] = l[i]
    OBVIOUS
  <2>1. l[i] \in Fila /\ l[i].stock \in Nat
    BY DEF Fila
  <2>2. h[i].stock = IF i = op.de THEN l[i].stock - op.n ELSE l[i].stock + op.n
    BY <2>1 DEF Fila
  <2>3. op.n = 0 => h[i] = [l[i] EXCEPT !.stock = l[i].stock]
    BY <2>1
  <2>4. [l[i] EXCEPT !.stock = l[i].stock] = l[i]
    BY <2>1 DEF Fila
  <2>5. QED
    BY <2>1, <2>2, <2>3, <2>4
<1>7. DOMAIN h = op.ids
  OBVIOUS
<1> HIDE DEF h
<1>8. Cambiadas(op, l) = [i \in {j \in op.ids : h[j] # l[j]} |-> h[i]]
  BY <1>5, <1>7 DEF Cambiadas
<1>9. op.n # 0
  BY <1>6, <1>8
<1>10. \A i \in op.ids : h[i] # l[i]
  BY <1>1, <1>6, <1>9
<1>11. {j \in op.ids : h[j] # l[j]} = op.ids
  BY <1>10
<1>12. QED
  BY <1>1, <1>3, <1>6, <1>8, <1>11

\* The commit of a transfer whose rows were current leaves the sum as it was.
LEMMA TrasladoCuadra ==
  ASSUME Inv, NEW r \in Peticion, Confirmar(r), Traslado(pet[r]), pet[r].op.de # 0, pisado' = {}
  PROVE  Suma(fila') = Suma(fila)
<1> DEFINE p == pet[r]
           o == p.op.de
           ids == DOMAIN p.nueva
<1>1. /\ p \in PetT /\ PetOK(p) /\ p.en = "flush" /\ p.op \in Entradas /\ p.op.ids # {o}
      /\ p.leido \in [p.op.ids -> Fila] /\ p.nueva = Cambiadas(p.op, p.leido)
      /\ fila \in [Item -> Fila] /\ fila' \in [Item -> Fila]
  <2>1. Inv'
    BY ConfirmarPaso
  <2>2. QED
    BY <2>1 DEF Confirmar, Inv, Peticiones, Tablas, Traslado
<1>2. /\ fila' = [i \in Item |-> IF i \in ids THEN SobreFila(fila[i], p.leido[i], p.nueva[i]) ELSE fila[i]]
      /\ pisado' = pisado \cup {i \in ids : p.vista[i] # version[i]}
  BY DEF Confirmar, Update
<1>3. ids = {} => fila' = fila
  BY <1>1, <1>2
<1>4. SUFFICES ASSUME ids # {}  PROVE Suma(fila') = Suma(fila)
  BY <1>3
<1>5. PICK a \in Item \ {o} :
        /\ p.op.ids = {o, a} /\ ids = p.op.ids /\ o \in Item
        /\ p.nueva[o].stock = p.leido[o].stock - p.op.n
        /\ p.nueva[a].stock = p.leido[a].stock + p.op.n
  BY <1>1, <1>4, TransferirMueve
<1>6. ASSUME NEW i \in {o, a}  PROVE fila'[i] = p.nueva[i] /\ fila[i] = p.leido[i]
  <2>1. i \in ids /\ p.vista[i] = version[i] /\ i \in DOMAIN p.leido /\ i \in Item
    BY <1>1, <1>2, <1>5
  <2>2. p.leido[i] = fila[i]
    BY <1>1, <2>1 DEF PetOK, Leida
  <2>3. p.nueva[i] \in Fila
    <3>1. p.nueva \in Filas
      BY <1>1 DEF PetT
    <3>2. QED
      BY <2>1, <3>1 DEF Filas
  <2>4. SobreFila(fila[i], fila[i], p.nueva[i]) = p.nueva[i]
    BY <1>1, <2>1, <2>3, SobreFilaT
  <2>5. QED
    BY <1>2, <2>1, <2>2, <2>4
<1> DEFINE w == [i \in Item |-> fila[i].stock]
           v == [i \in Item |-> fila'[i].stock]
<1>7. w \in [Item -> Int] /\ v \in [Item -> Int] /\ Suma(fila) = SumaDe(w) /\ Suma(fila') = SumaDe(v)
  BY <1>1, SumaEsInt
<1>8. \A y \in Item \ {o, a} : w[y] = v[y]
  BY <1>2, <1>5
<1>9. v[o] = w[o] - p.op.n /\ v[a] = w[a] + p.op.n
  BY <1>5, <1>6
<1>10. IsFiniteSet(Item) /\ p.op.n \in Nat
  BY <1>1, OpT, InventarioOK
<1> HIDE DEF w, v, p, o, ids
<1>11. SumaDe(v) - v[o] - v[a] = SumaDe(w) - w[o] - w[a]
  BY <1>5, <1>7, <1>8, <1>10, SumaCambiaDos
<1>12. SumaDe(v) \in Int /\ SumaDe(w) \in Int /\ w[o] \in Int /\ w[a] \in Int
  BY <1>5, <1>7, <1>10, SumaT
<1> HIDE InventarioOK
<1>13. SumaDe(v) = SumaDe(w)
  BY <1>9, <1>10, <1>11, <1>12
<1>14. QED
  BY <1>7, <1>13

\* Only a commit changes rows, and only a commit or the client moves the walk.
LEMMA Aparte ==
  ASSUME [Next]_vars
  PROVE  \/ \E r \in Peticion : Confirmar(r)
         \/ Recorrer
         \/ UNCHANGED <<fila, total, pisado, version, recorrido>>
<1>1. ASSUME NEW r \in Peticion, (\E op \in Entradas : Pedir(r, op)) \/ (\E p \in Pagina : Listar(r, p))
      PROVE  UNCHANGED <<fila, total, pisado, version, recorrido>>
  BY <1>1 DEF Pedir, Listar, tablas, historia
<1>2. ASSUME NEW r \in Peticion, Leer(r) \/ SubirImagen(r) \/ BorrarImagen(r) \/ Actualizar(r)
      PROVE  UNCHANGED <<fila, total, pisado, version, recorrido>>
  BY <1>2 DEF Leer, SubirImagen, BorrarImagen, Actualizar, tablas, historia
<1>3. ASSUME NEW r \in Peticion, TomarPaginas(r) \/ TomarPrimeras(r) \/ Borrar(r) \/ Limpiar(r)
      PROVE  UNCHANGED <<fila, total, pisado, version, recorrido>>
  BY <1>3 DEF TomarPaginas, TomarPrimeras, Borrar, Limpiar, tablas, historia
<1>4. ASSUME NEW r \in Peticion, Siguiente(r) \/ Guardar(r) \/ Registrar(r) \/ Revertir(r) \/ Cortar(r)
      PROVE  UNCHANGED <<fila, total, pisado, version, recorrido>>
  BY <1>4 DEF Siguiente, Guardar, Registrar, Revertir, Cortar, tablas, historia
<1>5. (\E p \in Pagina : Expira(p)) \/ UNCHANGED vars => UNCHANGED <<fila, total, pisado, version, recorrido>>
  BY DEF Expira, vars, tablas, historia
<1>6. ASSUME NEW r \in Peticion, CommitSinEfecto(r) \/ FallaRedis(r)
      PROVE  UNCHANGED <<fila, total, pisado, version, recorrido>>
  BY <1>6 DEF CommitSinEfecto, FallaRedis, TomarPaginasFalla, TomarPrimerasFalla, BorrarFalla, LimpiarFalla,
     SiguienteFalla, GuardarFalla, RegistrarFalla, tablas, historia
<1>7. QED
  BY <1>1, <1>2, <1>3, <1>4, <1>5, <1>6 DEF Next, Paso

LEMMA CuadraPaso ==
  ASSUME Inv, Cuadre, [Next]_vars
  PROVE  TotalCuadra'
<1>1. CASE UNCHANGED <<fila, total, pisado>>
  BY <1>1 DEF Cuadre, TotalCuadra
<1>2. ASSUME NEW r \in Peticion, Confirmar(r)  PROVE TotalCuadra'
  <2>1. SUFFICES ASSUME pisado' = {}  PROVE Suma(fila') = total'
    BY DEF TotalCuadra
  <2>2. pisado = {}
    BY <1>2, <2>1 DEF Confirmar
  <2>3. total = Suma(fila)
    BY <2>2 DEF Cuadre, TotalCuadra
  <2>4. CASE pet[r].op.de # 0
    BY <1>2, <2>1, <2>3, <2>4, TrasladoCuadra DEF Confirmar, Cuadre, Traslados
  <2>5. CASE pet[r].op.de = 0
    <3>1. total' = total + Suma(fila') - Suma(fila)
      BY <1>2, <2>5 DEF Confirmar
    <3>2. Suma(fila) \in Int /\ Suma(fila') \in Int
      <4>1. Inv'
        BY <1>2, ConfirmarPaso
      <4>2. fila \in [Item -> Fila] /\ fila' \in [Item -> Fila]
        BY <4>1 DEF Inv, Tablas
      <4>3. QED
        BY <4>2, SumaEsInt
    <3>3. QED
      BY <2>3, <3>1, <3>2
  <2>6. QED
    BY <2>4, <2>5
<1>3. Recorrer => UNCHANGED <<fila, total, pisado>>
  BY DEF Recorrer, tablas, historia
<1>4. QED
  BY <1>1, <1>2, <1>3, Aparte

LEMMA CuadreSiempre == Spec => [](Inv /\ Cuadre)
<1>1. Init => Inv /\ Cuadre
  BY InvInicio, TrasladosInicio DEF Init, Cuadre, TotalCuadra
<1>2. Inv /\ Cuadre /\ [Next]_vars => (Inv /\ Cuadre)'
  BY InvPaso, TrasladosPaso, CuadraPaso DEF Cuadre
<1>3. QED
  BY <1>1, <1>2, PTL DEF Spec

-----------------------------------------------------------------------------
(* The walk with a cursor.                                                 *)

Camino ==
  /\ recorrido \in [en: {"no", "sigue", "fin"}, cursor: Nat, dados: [Item -> {0, 1}], siempre: SUBSET Activos]
  /\ recorrido.en = "no" => recorrido.cursor = 0
  /\ recorrido.en # "fin" =>
       \A i \in Item : /\ recorrido.dados[i] # 0 => i <= recorrido.cursor
                       /\ i \in recorrido.siempre /\ i <= recorrido.cursor => recorrido.dados[i] = 1
  /\ recorrido.en = "fin" => \A i \in recorrido.siempre : recorrido.dados[i] = 1

Puesto(S, i) == Cardinality({j \in S : j <= i})

\* The place of a member of a finite set of numbers.
LEMMA PuestoT ==
  ASSUME NEW S \in SUBSET Nat, IsFiniteSet(S)
  PROVE  /\ \A i \in S : Puesto(S, i) \in Nat /\ Puesto(S, i) <= Cardinality(S)
         /\ \A i, k \in S : i < k => Puesto(S, i) < Puesto(S, k)
         /\ \A i \in S : (\A j \in S : i <= j) => Puesto(S, i) = 1
         /\ Cardinality(S) \in Nat /\ (S = {} => Cardinality(S) = 0)
<1>0. \A j \in S : j \in Nat
  OBVIOUS
<1>1. Cardinality(S) \in Nat /\ (S = {} => Cardinality(S) = 0)
  BY FS_CardinalityType, FS_EmptySet
<1>2. ASSUME NEW i \in S
      PROVE  IsFiniteSet({j \in S : j <= i}) /\ Puesto(S, i) \in Nat /\ Puesto(S, i) <= Cardinality(S)
  <2> DEFINE T == {j \in S : j <= i}
  <2>1. T \in SUBSET S
    OBVIOUS
  <2> HIDE DEF T
  <2>2. IsFiniteSet(T) /\ Cardinality(T) <= Cardinality(S)
    BY <2>1, FS_Subset
  <2>3. Cardinality(T) \in Nat
    BY <2>2, FS_CardinalityType
  <2>4. QED
    BY <2>2, <2>3 DEF Puesto, T
<1>3. ASSUME NEW i \in S, NEW k \in S, i < k  PROVE Puesto(S, i) < Puesto(S, k)
  <2> DEFINE T == {j \in S : j <= i}
             U == {j \in S : j <= k}
  <2>0. k \in Nat /\ ~(k <= i) /\ k <= k /\ \A j \in S : j <= i => j <= k
    BY <1>0, <1>3
  <2>1. T \in SUBSET U /\ k \in U /\ k \notin T
    BY <2>0
  <2>2. IsFiniteSet(U)
    BY <1>2
  <2> HIDE DEF T, U
  <2>3. Cardinality(T) < Cardinality(U)
    <3>1. IsFiniteSet(T) /\ Cardinality(T) <= Cardinality(U) /\ (Cardinality(T) = Cardinality(U) => T = U)
      BY <2>1, <2>2, FS_Subset
    <3>2. Cardinality(T) \in Nat /\ Cardinality(U) \in Nat
      BY <2>2, <3>1, FS_CardinalityType
    <3>3. QED
      BY <2>1, <3>1, <3>2
  <2>4. QED
    BY <2>3 DEF Puesto, T, U
<1>4. ASSUME NEW i \in S, \A j \in S : i <= j  PROVE Puesto(S, i) = 1
  <2>0. i <= i /\ \A j \in S : j <= i => j = i
    BY <1>0, <1>4
  <2>1. {j \in S : j <= i} = {i}
    BY <2>0
  <2>2. QED
    BY <2>1, FS_Singleton DEF Puesto
<1>5. QED
  BY <1>1, <1>2, <1>3, <1>4

\* The items of a page are the first that follow the cursor, all of them when
\* there are no more, and its next cursor is the last one.
LEMMA PaginaConCursor ==
  ASSUME fila \in [Item -> Fila], NEW c \in Nat, NEW p, p = listar_items_cursor(c)
  PROVE  /\ p.items \subseteq {i \in Activos : i > c} /\ p.has_more \in BOOLEAN /\ p.next_cursor \in Nat
         /\ \A i \in p.items : i <= p.next_cursor \/ ~p.has_more
         /\ ~p.has_more => p.items = {i \in Activos : i > c}
         /\ p.has_more => /\ p.next_cursor > c
                          /\ \A i \in Activos : c < i /\ i <= p.next_cursor => i \in p.items
<1> DEFINE S == {i \in Activos : i > c}
           T == {i \in S : Puesto(S, i) <= Limite}
<1>1. /\ S \in SUBSET Nat /\ IsFiniteSet(S) /\ Limite \in Nat \ {0} /\ S \in SUBSET Item
      /\ S \subseteq Activos
  <2>1. IsFiniteSet(Item) /\ Item \subseteq Nat /\ Limite \in Nat \ {0}
    BY InventarioOK, CacheOK
  <2>2. S \in SUBSET Item
    BY DEF Activos, ActivosDe
  <2>3. QED
    BY <2>1, <2>2, FS_Subset
<1>2. /\ p.items = T /\ p.has_more \in BOOLEAN /\ (p.has_more <=> Cardinality(S) > Limite)
      /\ p.next_cursor = IF T = {} THEN 0 ELSE CHOOSE i \in T : \A j \in T : j <= i
  <2> DEFINE sig == IF T = {} THEN 0 ELSE CHOOSE i \in T : \A j \in T : j <= i
             mas == Cardinality(S) > Limite
  <2>1. p = [items |-> T, next_cursor |-> sig, has_more |-> mas]
    BY DEF listar_items_cursor, Puesto
  <2>2. mas \in BOOLEAN
    OBVIOUS
  <2> HIDE DEF T, sig, mas
  <2>3. p.items = T /\ p.has_more = mas /\ p.next_cursor = sig
    BY <2>1
  <2>4. QED
    BY <2>2, <2>3, Zenon DEF sig, mas
<1>3. \A i \in Activos : i > c <=> i \in S
  OBVIOUS
<1>4. \A i \in S : i > c /\ i \in Nat
  BY <1>1
<1> HIDE DEF S
<1>5. /\ \A i \in S : Puesto(S, i) \in Nat /\ Puesto(S, i) <= Cardinality(S)
      /\ \A i, k \in S : i < k => Puesto(S, i) < Puesto(S, k)
      /\ \A i \in S : (\A j \in S : i <= j) => Puesto(S, i) = 1
      /\ Cardinality(S) \in Nat /\ (S = {} => Cardinality(S) = 0)
  BY <1>1, PuestoT
<1>6. \A i, k \in S : i <= k /\ k \in T => i \in T
  BY <1>1, <1>4, <1>5
<1>7. S # {} => T # {}
  <2>1. ASSUME S # {}  PROVE \E i \in S : \A j \in S : i <= j
    BY <1>1, <2>1, Minimo
  <2>2. ASSUME NEW i \in S, \A j \in S : i <= j  PROVE i \in T
    BY <1>1, <1>5, <2>2
  <2>3. QED
    BY <2>1, <2>2
<1>8. T # {} => \E i \in T : \A j \in T : j <= i
  <2> DEFINE R == {Limite - Puesto(S, i) : i \in T}
  <2>1. SUFFICES ASSUME T # {}  PROVE \E i \in T : \A j \in T : j <= i
    OBVIOUS
  <2>2. R \in SUBSET Nat /\ R # {}
    <3>1. ASSUME NEW i \in T  PROVE Limite - Puesto(S, i) \in Nat
      <4>1. i \in S /\ Puesto(S, i) <= Limite /\ Puesto(S, i) \in Nat
        BY <1>5
      <4>2. QED
        BY <1>1, <4>1
    <3> HIDE DEF T
    <3>2. QED
      BY <2>1, <3>1
  <2>3. PICK n \in R : \A m \in R : n <= m
    BY <2>2, Minimo
  <2>4. PICK i \in T : n = Limite - Puesto(S, i)
    BY <2>3
  <2>5. ASSUME NEW j \in T  PROVE j <= i
    <3>1. Limite - Puesto(S, i) <= Limite - Puesto(S, j)
      BY <2>3, <2>4
    <3>2. ~(i < j)
      BY <1>1, <1>5, <3>1
    <3>3. QED
      BY <1>4, <3>2
  <2>6. QED
    BY <2>5
<1>9. T # {} => p.next_cursor \in T /\ \A j \in T : j <= p.next_cursor
  BY <1>2, <1>8
<1>10. ~p.has_more => T = S
  <2>1. SUFFICES ASSUME ~p.has_more  PROVE \A i \in S : i \in T
    OBVIOUS
  <2>2. Cardinality(S) <= Limite
    BY <1>1, <1>2, <1>5, <2>1
  <2>3. \A i \in S : Puesto(S, i) <= Limite
    BY <1>1, <1>5, <2>2
  <2>4. QED
    BY <2>3
<1>11. p.has_more => S # {}
  BY <1>1, <1>2, <1>5
<1>12. p.next_cursor \in Nat
  BY <1>2, <1>4, <1>9
<1>13. QED
  <2> HIDE DEF T
  <2>1. T \subseteq S
    BY DEF T
  <2>2. QED
    BY <1>1, <1>2, <1>3, <1>4, <1>6, <1>7, <1>9, <1>10, <1>11, <1>12, <2>1 DEF S

LEMMA CaminoInicio == Init => Camino
<1> SUFFICES ASSUME Init  PROVE Camino
  OBVIOUS
<1>1. /\ SinRecorrer.en = "no" /\ SinRecorrer.cursor = 0 /\ SinRecorrer.siempre = {}
      /\ \A i \in Item : SinRecorrer.dados[i] = 0
      /\ SinRecorrer \in [en: {"no", "sigue", "fin"}, cursor: Nat, dados: [Item -> {0, 1}], siempre: SUBSET Activos]
  BY DEF SinRecorrer
<1>2. recorrido = SinRecorrer
  BY DEF Init
<1> HIDE DEF SinRecorrer
<1>3. QED
  BY <1>1, <1>2 DEF Camino

\* The next page: what was given is up to the cursor, what the page gives is
\* after it, and nothing active between the two cursors is left out.
LEMMA CaminoAvanza ==
  ASSUME Inv, Camino, Recorrer
  PROVE  Camino'
<1> DEFINE p == listar_items_cursor(recorrido.cursor)
           c == recorrido.cursor
           inicio == recorrido.en = "no"
           D(i) == recorrido.dados[i] + IF i \in p.items THEN 1 ELSE 0
           s == IF inicio THEN Activos ELSE recorrido.siempre
           e == IF p.has_more THEN "sigue" ELSE "fin"
<1>1. /\ recorrido.en \in {"no", "sigue"} /\ c \in Nat /\ (inicio => c = 0)
      /\ \A i \in Item : /\ recorrido.dados[i] \in {0, 1}
                         /\ recorrido.dados[i] # 0 => i <= c
                         /\ i \in recorrido.siempre /\ i <= c => recorrido.dados[i] = 1
      /\ recorrido.siempre \subseteq Activos
  BY DEF Camino, Recorrer
<1>2. /\ recorrido' = [en |-> e, cursor |-> p.next_cursor, dados |-> [i \in Item |-> D(i)], siempre |-> s]
      /\ fila' = fila
  BY DEF Recorrer, tablas
<1>3. /\ p.items \subseteq {i \in Activos : i > c} /\ p.has_more \in BOOLEAN /\ p.next_cursor \in Nat
      /\ \A i \in p.items : i <= p.next_cursor \/ ~p.has_more
      /\ ~p.has_more => p.items = {i \in Activos : i > c}
      /\ p.has_more => /\ p.next_cursor > c
                       /\ \A i \in Activos : c < i /\ i <= p.next_cursor => i \in p.items
  BY <1>1, PaginaConCursor DEF Inv, Tablas
<1>4. Activos \subseteq Item /\ Item \subseteq Nat /\ 0 \notin Item /\ Activos' = Activos
  BY <1>2, CacheOK, InventarioOK DEF Activos, ActivosDe
<1>5. s \subseteq Activos
  BY <1>1
<1> HIDE DEF p
<1>6. ASSUME NEW i \in Item
      PROVE  /\ D(i) \in {0, 1}
             /\ p.has_more => /\ D(i) # 0 => i <= p.next_cursor
                              /\ i \in s /\ i <= p.next_cursor => D(i) = 1
             /\ ~p.has_more => (i \in s => D(i) = 1)
  <2>1. i \in Nat /\ i # 0 /\ recorrido.dados[i] \in {0, 1}
    BY <1>1, <1>4
  <2>2. i \in p.items => i > c /\ D(i) = 1
    BY <1>1, <1>3, <2>1
  <2>3. i \notin p.items => D(i) = recorrido.dados[i]
    BY <2>1
  <2>4. i \in s /\ i <= c => recorrido.dados[i] = 1
    BY <1>1, <2>1
  <2>5. i \in s /\ i <= c => i \notin p.items
    BY <1>1, <2>1, <2>2
  <2> HIDE DEF D, s
  <2>6. D(i) \in {0, 1}
    BY <2>1, <2>2, <2>3
  <2>7. p.has_more /\ D(i) # 0 => i <= p.next_cursor
    BY <1>1, <1>3, <2>1, <2>2, <2>3
  <2>8. p.has_more /\ i \in s /\ i <= p.next_cursor => D(i) = 1
    BY <1>1, <1>3, <1>5, <2>1, <2>2, <2>3, <2>4
  <2>9. ~p.has_more /\ i \in s => D(i) = 1
    BY <1>1, <1>3, <1>5, <2>1, <2>2, <2>3, <2>4
  <2>10. QED
    BY <2>6, <2>7, <2>8, <2>9
<1> DEFINE d == [i \in Item |-> D(i)]
<1>7. d \in [Item -> {0, 1}] /\ \A i \in Item : d[i] = D(i)
  BY <1>6
<1>8. e \in {"sigue", "fin"} /\ (e = "fin" <=> ~p.has_more)
  BY <1>3
<1>9. recorrido'.en = e /\ recorrido'.cursor = p.next_cursor /\ recorrido'.dados = d /\ recorrido'.siempre = s
      /\ recorrido' = [en |-> e, cursor |-> p.next_cursor, dados |-> d, siempre |-> s]
  BY <1>2
<1> HIDE DEF d, D, s, e
<1>10. recorrido' \in [en: {"no", "sigue", "fin"}, cursor: Nat, dados: [Item -> {0, 1}], siempre: SUBSET Activos']
  BY <1>3, <1>4, <1>5, <1>7, <1>8, <1>9
<1>11. QED
  BY <1>4, <1>5, <1>6, <1>7, <1>8, <1>9, <1>10 DEF Camino

LEMMA CaminoPaso ==
  ASSUME Inv, Camino, [Next]_vars
  PROVE  Camino'
<1>1. CASE UNCHANGED <<fila, recorrido>>
  BY <1>1 DEF Camino, Activos, ActivosDe
<1>2. ASSUME NEW r \in Peticion, Confirmar(r)  PROVE Camino'
  <2>1. recorrido' = [recorrido EXCEPT !.siempre = @ \cap Activos']
    BY <1>2 DEF Confirmar, Activos
  <2>2. recorrido \in [en: {"no", "sigue", "fin"}, cursor: Nat, dados: [Item -> {0, 1}], siempre: SUBSET Activos]
    BY DEF Camino
  <2>3. /\ recorrido'.en = recorrido.en /\ recorrido'.cursor = recorrido.cursor
        /\ recorrido'.dados = recorrido.dados /\ recorrido'.siempre = recorrido.siempre \cap Activos'
        /\ recorrido' \in [en: {"no", "sigue", "fin"}, cursor: Nat, dados: [Item -> {0, 1}], siempre: SUBSET Activos']
    BY <2>1, <2>2
  <2>4. QED
    BY <2>3 DEF Camino
<1>3. QED
  BY <1>1, <1>2, CaminoAvanza, Aparte

LEMMA CaminoSiempre == Spec => [](Inv /\ Camino)
<1>1. Init => Inv /\ Camino
  BY InvInicio, CaminoInicio
<1>2. Inv /\ Camino /\ [Next]_vars => (Inv /\ Camino)'
  BY InvPaso, CaminoPaso
<1>3. QED
  BY <1>1, <1>2, PTL DEF Spec

LEMMA CaminoDice == Camino => RecorridoCompleto
BY DEF Camino, RecorridoCompleto, Activos, ActivosDe

-----------------------------------------------------------------------------
(* The rows there are.  A row that exists goes on existing, and the ids of *)
(* the rows that requests are creating are nobody else's.                  *)

Nacida(p, f) ==
  /\ Alta(p.op) => \A i \in p.op.ids : ~Existe(f[i])
  /\ p.en = "leer" => \A i \in DOMAIN p.leido : Existe(p.leido[i]) => Existe(f[i])
  /\ \A i \in DOMAIN p.nueva : /\ Existe(p.nueva[i])
                               /\ IF Alta(p.op) THEN i \in p.op.ids ELSE Existe(f[i])
  /\ p.en \in {"guardar", "registrar"} => \A i \in DOMAIN p.vista : Existe(f[i])
Ajenos(p, q) == Alta(p.op) /\ Alta(q.op) => p.op.ids \cap q.op.ids = {}
Nacen ==
  /\ \A r \in Peticion : Nacida(pet[r], fila)
  /\ \A r, x \in Peticion : r # x => Ajenos(pet[r], pet[x])
  /\ \A g \in Pagina : \A i \in DOMAIN pagina[g].muestra : Existe(fila[i])

LEMMA AsignaExiste ==
  ASSUME NEW op \in Entradas, NEW l \in [op.ids -> Fila], NEW i \in DOMAIN Asigna(op, l)
  PROVE  Existe(Asigna(op, l)[i]) /\ (Alta(op) \/ Existe(l[i]))
<1>1. op.tipo \in TipoOp /\ DOMAIN Asigna(op, l) \subseteq op.ids
  BY OpT, AsignaT
<1>2. l[i] \in Fila
  BY <1>1
<1>3. i \notin DOMAIN Nada
  BY DEF Nada
<1>4. CASE op.tipo \in {"crear", "bulk_create"}
  BY <1>4 DEF Asigna, crear_item, bulk_create_items, Existe, Alta
<1>5. CASE op.tipo = "actualizar"
  <2>1. Asigna(op, l) = [j \in {k \in op.ids : Existe(l[k])} |-> [l[j] EXCEPT !.stock = op.n]]
    BY <1>5 DEF Asigna, actualizar_item
  <2>2. QED
    BY <1>2, <2>1 DEF Existe, Fila
<1>6. CASE op.tipo \in {"eliminar", "bulk_delete"}
  <2>1. Asigna(op, l) = [j \in {k \in op.ids : l[k].estado = "activo"} |-> [l[j] EXCEPT !.estado = "eliminado"]]
    BY <1>6 DEF Asigna, eliminar_item, bulk_delete_items
  <2>2. QED
    BY <1>2, <2>1 DEF Existe, Fila
<1>7. CASE op.tipo = "restaurar"
  <2>1. Asigna(op, l) = [j \in {k \in op.ids : l[k].estado = "eliminado"} |-> [l[j] EXCEPT !.estado = "activo"]]
    BY <1>7 DEF Asigna, restaurar_item
  <2>2. QED
    BY <1>2, <2>1 DEF Existe, Fila
<1>8. CASE op.tipo = "bulk_update"
  <2>1. \/ Asigna(op, l) = Nada
        \/ Asigna(op, l) = [j \in {k \in op.ids : Existe(l[k])} |-> [l[j] EXCEPT !.stock = op.n]]
    BY <1>8 DEF Asigna, bulk_update_disponible
  <2>2. Asigna(op, l) = [j \in {k \in op.ids : Existe(l[k])} |-> [l[j] EXCEPT !.stock = op.n]]
    BY <1>3, <2>1
  <2>3. QED
    BY <1>2, <2>2 DEF Existe, Fila
<1>9. CASE op.tipo \in {"transferir", "transferir_v2"}
  <2> DEFINE h == [j \in op.ids |-> [l[j] EXCEPT !.stock = IF j = op.de THEN @ - op.n ELSE @ + op.n]]
  <2>1. Asigna(op, l) = Nada \/ (Asigna(op, l) = h /\ \A j \in op.ids : l[j].estado = "activo")
    BY <1>9 DEF Asigna, transferir_stock
  <2>2. h[i].estado = l[i].estado
    BY <1>1, <1>2 DEF Fila
  <2> HIDE DEF h
  <2>3. QED
    BY <1>1, <1>3, <2>1, <2>2 DEF Existe
<1>10. CASE op.tipo = "imagen"
  <2>1. Asigna(op, l) = [j \in {k \in op.ids : Existe(l[k])} |-> [l[j] EXCEPT !.imagen = op.imagen]]
    BY <1>10 DEF Asigna, upload_imagen
  <2>2. QED
    BY <1>2, <2>1 DEF Existe, Fila
<1>11. QED
  BY <1>1, <1>4, <1>5, <1>6, <1>7, <1>8, <1>9, <1>10 DEF TipoOp

LEMMA CambiadasExiste ==
  ASSUME NEW op \in Entradas, NEW l \in [op.ids -> Fila], NEW i \in DOMAIN Cambiadas(op, l)
  PROVE  Existe(Cambiadas(op, l)[i]) /\ (Alta(op) \/ Existe(l[i])) /\ i \in op.ids
<1>1. i \in DOMAIN Asigna(op, l) /\ Cambiadas(op, l)[i] = Asigna(op, l)[i]
  BY DEF Cambiadas
<1>2. QED
  BY <1>1, AsignaExiste, CambiadasT

\* A table in which no row ceases to exist, and no row that p creates appears.
LEMMA NacidaSigue ==
  ASSUME NEW p \in PetT, NEW f, NEW g, Nacida(p, f),
         \A i \in Item : Existe(f[i]) => Existe(g[i]),
         Alta(p.op) => \A i \in p.op.ids : ~Existe(g[i])
  PROVE  Nacida(p, g)
<1>1. p.leido \in Filas /\ p.nueva \in Filas /\ p.vista \in Numeros
  BY DEF PetT
<1>2. DOMAIN p.leido \subseteq Item /\ DOMAIN p.nueva \subseteq Item /\ DOMAIN p.vista \subseteq Item
  BY <1>1 DEF Filas, Numeros
<1>3. QED
  BY <1>2 DEF Nacida

LEMMA NacidaLibre ==
  ASSUME NEW q, NEW f, q.op = SinOp, q.leido = Nada, q.nueva = Nada, q.en \notin {"guardar", "registrar"}
  PROVE  Nacida(q, f) /\ \A p : Ajenos(p, q) /\ Ajenos(q, p)
<1>1. ~Alta(SinOp) /\ DOMAIN Nada = {}
  BY DEF Alta, SinOp, Nada
<1>2. QED
  BY <1>1 DEF Nacida, Ajenos

\* The commit: what it writes exists, and it creates what only it asked for.
LEMMA ConfirmarNacen ==
  ASSUME Inv, Nacen, NEW r \in Peticion, Confirmar(r)
  PROVE  /\ \A i \in Item : Existe(fila[i]) => Existe(fila'[i])
         /\ \A x \in Peticion \ {r} : Alta(pet[x].op) => \A i \in pet[x].op.ids : ~Existe(fila'[i])
<1> DEFINE p == pet[r]
           ids == DOMAIN p.nueva
<1>1. fila' = [i \in Item |-> IF i \in ids THEN SobreFila(fila[i], p.leido[i], p.nueva[i]) ELSE fila[i]]
  BY DEF Confirmar, Update
<1>2. Nacida(p, fila) /\ p \in PetT /\ PetOK(p) /\ fila \in [Item -> Fila]
  BY DEF Nacen, Inv, Peticiones, Tablas
<1>3. ASSUME NEW i \in Item, Existe(fila[i]), i \in ids  PROVE Existe(fila'[i])
  <2>1. /\ p.leido \in Filas /\ p.nueva \in Filas /\ i \in DOMAIN p.leido /\ Existe(p.nueva[i])
    BY <1>2, <1>3 DEF PetT, PetOK, Nombra, Nacida
  <2>2. /\ p.leido[i] \in Fila /\ p.nueva[i] \in Fila /\ fila[i] \in Fila
    BY <1>2, <1>3, <2>1 DEF Filas
  <2>3. fila'[i] = SobreFila(fila[i], p.leido[i], p.nueva[i])
    BY <1>1, <1>3
  <2>4. SobreFila(fila[i], p.leido[i], p.nueva[i]).estado \in {p.nueva[i].estado, fila[i].estado}
    BY <2>2 DEF SobreFila, Fila
  <2>5. QED
    BY <1>3, <2>1, <2>3, <2>4 DEF Existe
<1>4. ASSUME NEW x \in Peticion \ {r}, Alta(pet[x].op), NEW i \in pet[x].op.ids  PROVE ~Existe(fila'[i])
  <2>1. ~Existe(fila[i]) /\ Ajenos(p, pet[x])
    BY <1>4 DEF Nacen, Nacida
  <2>2. i \notin ids
    BY <1>2, <1>4, <2>1 DEF Nacida, Ajenos
  <2>3. i \in Item
    <3>1. pet[x].op \in Entradas \cup {SinOp}
      BY DEF Inv, Peticiones, PetT
    <3>2. pet[x].op \in Entradas
      BY <1>4, <3>1 DEF Alta, SinOp
    <3>3. QED
      BY <3>2, OpT
  <2>4. QED
    BY <1>1, <2>1, <2>2, <2>3
<1>5. QED
  BY <1>1, <1>3, <1>4

-----------------------------------------------------------------------------
(* What a step makes of a cached page.                                     *)

QuedaPagina(g) ==
  \/ pagina'[g] = pagina[g] \/ pagina'[g] = Vacia
  \/ pagina'[g].hay = pagina[g].hay /\ pagina'[g].muestra = pagina[g].muestra /\ ~pagina'[g].sola
GuardaPagina(g, r) ==
  /\ Guardar(r) /\ g = pet[r].pagina
  /\ pagina'[g] = [hay |-> TRUE, muestra |-> pet[r].vista, sola |-> FALSE]
RegistraPagina(g, r) ==
  /\ Registrar(r) /\ g = pet[r].pagina
  /\ pagina'[g].hay = pagina[g].hay /\ pagina'[g].muestra = pagina[g].muestra
  /\ pagina'[g].sola = (pet[r].sola /\ pagina[g].hay)

LEMMA PaginaDice ==
  ASSUME Inv, [Next]_vars, NEW g \in Pagina
  PROVE  QuedaPagina(g) \/ \E r \in Peticion : GuardaPagina(g, r) \/ RegistraPagina(g, r)
<1>1. pagina \in [Pagina -> PaginaT]
  BY DEF Inv, Cache
<1>2. CASE UNCHANGED redis
  BY <1>2 DEF redis, QuedaPagina
<1>3. ASSUME NEW r \in Peticion, Borrar(r)  PROVE QuedaPagina(g)
  BY <1>1, <1>3 DEF Borrar, BorrarPagina, QuedaPagina
<1>4. ASSUME NEW r \in Peticion, \/ Limpiar(r) \/ LimpiarFalla(r) \/ Siguiente(r) \/ SiguienteFalla(r)
                                 \/ RegistrarFalla(r)
      PROVE  QuedaPagina(g)
  <2>1. UNCHANGED pagina
    BY <1>4 DEF Limpiar, LimpiarIndices, LimpiarFalla, LimpiezaFalla, Siguiente, SiguienteFalla, BorrarIndice,
       RegistrarFalla, RegistroFalla, redis
  <2>2. QED
    BY <2>1 DEF QuedaPagina
<1>5. ASSUME NEW r \in Peticion, Guardar(r)  PROVE QuedaPagina(g) \/ GuardaPagina(g, r)
  BY <1>1, <1>5 DEF Guardar, set_cache, QuedaPagina, GuardaPagina
<1>6. ASSUME NEW r \in Peticion, Registrar(r)  PROVE QuedaPagina(g) \/ RegistraPagina(g, r)
  <2> DEFINE b == pet[r].sola /\ pagina[g].hay
  <2>1. CASE g = pet[r].pagina
    <3>1. pagina' = [pagina EXCEPT ![g].sola = b]
      BY <1>6, <2>1 DEF Registrar, register_list_cache
    <3>2. pagina'[g] = [pagina[g] EXCEPT !.sola = b]
      BY <1>1, <3>1
    <3> HIDE DEF b
    <3>3. pagina'[g].hay = pagina[g].hay /\ pagina'[g].muestra = pagina[g].muestra /\ pagina'[g].sola = b
      BY <1>1, <3>2 DEF PaginaT
    <3>4. QED
      BY <1>6, <2>1, <3>3, Zenon DEF RegistraPagina, b
  <2>2. CASE g # pet[r].pagina
    BY <1>1, <1>6, <2>2 DEF Registrar, register_list_cache, QuedaPagina
  <2>3. QED
    BY <2>1, <2>2
<1>7. ASSUME NEW x \in Pagina, Expira(x)  PROVE QuedaPagina(g)
  BY <1>1, <1>7 DEF Expira, ExpiraPagina, ExpiraMeta, QuedaPagina
<1>8. ASSUME NEW r \in Peticion, (\E op \in Entradas : Pedir(r, op)) \/ (\E p \in Pagina : Listar(r, p))
      PROVE  UNCHANGED redis
  BY <1>8 DEF Pedir, Listar
<1>9. ASSUME NEW r \in Peticion, \/ Leer(r) \/ SubirImagen(r) \/ BorrarImagen(r) \/ Actualizar(r) \/ Confirmar(r)
                                 \/ TomarPaginas(r) \/ TomarPrimeras(r) \/ Revertir(r) \/ Cortar(r)
                                 \/ CommitSinEfecto(r) \/ TomarPaginasFalla(r) \/ TomarPrimerasFalla(r)
                                 \/ GuardarFalla(r)
      PROVE  UNCHANGED redis
  BY <1>9 DEF Leer, SubirImagen, BorrarImagen, Actualizar, Confirmar, TomarPaginas, TomarPrimeras, Revertir, Cortar,
     CommitSinEfecto, TomarPaginasFalla, TomarPrimerasFalla, GuardarFalla
<1>10. Recorrer \/ UNCHANGED vars => UNCHANGED redis
  BY DEF Recorrer, vars
<1>11. ASSUME NEW r \in Peticion, BorrarFalla(r)  PROVE QuedaPagina(g)
  <2>1. PICK x \in pet[r].paginas : BorradoFalla(x)
    BY <1>11 DEF BorrarFalla
  <2>2. CASE pagina' = [pagina EXCEPT ![x] = Vacia]
    BY <1>1, <2>2 DEF QuedaPagina
  <2>3. CASE pagina' = [pagina EXCEPT ![x].sola = FALSE]
    <3>1. pagina'[g] = IF g = x THEN [pagina[g] EXCEPT !.sola = FALSE] ELSE pagina[g]
      BY <1>1, <2>3
    <3>2. pagina[g] \in PaginaT
      BY <1>1
    <3>3. QED
      BY <3>1, <3>2 DEF PaginaT, QuedaPagina
  <2>4. QED
    BY <2>1, <2>2, <2>3 DEF BorradoFalla
<1>12. QED
  BY <1>2, <1>3, <1>4, <1>5, <1>6, <1>7, <1>8, <1>9, <1>10, <1>11 DEF Next, Paso, FallaRedis

LEMMA NacenInicio == Init => Nacen
<1> SUFFICES ASSUME Init  PROVE Nacen
  OBVIOUS
<1>1. ~Alta(SinOp) /\ DOMAIN Nada = {} /\ DOMAIN SinMuestra = {}
  BY DEF Alta, SinOp, Nada, SinMuestra
<1>2. \A r \in Peticion : pet[r] = Libre
  BY DEF Init
<1>3. \A g \in Pagina : pagina[g].muestra = SinMuestra
  BY DEF Init, InitCache, Vacia
<1>4. QED
  BY <1>1, <1>2, <1>3 DEF Nacen, Nacida, Ajenos, Libre

LEMMA NacenPaginas ==
  ASSUME Inv, Nacen, [Next]_vars, \A i \in Item : Existe(fila[i]) => Existe(fila'[i])
  PROVE  \A g \in Pagina : \A i \in DOMAIN pagina'[g].muestra : Existe(fila'[i])
<1> SUFFICES ASSUME NEW g \in Pagina, NEW i \in DOMAIN pagina'[g].muestra  PROVE Existe(fila'[i])
  OBVIOUS
<1>1. DOMAIN pagina[g].muestra \subseteq Item
  <2>1. pagina[g].muestra \in Numeros
    BY DEF Inv, Cache, PaginaT
  <2>2. QED
    BY <2>1 DEF Numeros
<1>2. CASE QuedaPagina(g) \/ \E r \in Peticion : RegistraPagina(g, r)
  <2>1. pagina'[g].muestra = pagina[g].muestra \/ DOMAIN pagina'[g].muestra = {}
    BY <1>2 DEF QuedaPagina, RegistraPagina, Vacia, SinMuestra
  <2>2. QED
    BY <1>1, <2>1 DEF Nacen
<1>3. ASSUME NEW r \in Peticion, GuardaPagina(g, r)  PROVE Existe(fila'[i])
  <2>1. pet[r].en = "guardar" /\ pagina'[g].muestra = pet[r].vista /\ pet[r].vista \in Numeros
    BY <1>3 DEF GuardaPagina, Guardar, Inv, Peticiones, PetT
  <2>2. Existe(fila[i])
    BY <2>1 DEF Nacen, Nacida
  <2>3. i \in Item
    BY <2>1 DEF Numeros
  <2>4. QED
    BY <2>2, <2>3
<1>4. QED
  BY <1>2, <1>3, PaginaDice

LEMMA NacenPaso ==
  ASSUME Inv, Nacen, [Next]_vars
  PROVE  Nacen'
<1> DEFINE Bien == /\ \A x \in Peticion : Nacida(pet'[x], fila')
                   /\ \A x, y \in Peticion : x # y => Ajenos(pet'[x], pet'[y])
                   /\ \A i \in Item : Existe(fila[i]) => Existe(fila'[i])
<1>1. SUFFICES Bien
  <2>1. Bien => \A g \in Pagina : \A i \in DOMAIN pagina'[g].muestra : Existe(fila'[i])
    BY NacenPaginas
  <2>2. QED
    BY <2>1 DEF Nacen
<1>2. /\ \A x \in Peticion : Nacida(pet[x], fila) /\ pet[x] \in PetT
      /\ \A x, y \in Peticion : x # y => Ajenos(pet[x], pet[y])
  BY DEF Nacen, Inv, Peticiones
<1>3. UNCHANGED <<fila, pet>> => Bien
  BY <1>2
<1>4. ASSUME NEW r \in Peticion, SoloDe(r), fila' = fila, Nacida(pet'[r], fila),
             pet'[r].op = pet[r].op \/ ~Alta(pet'[r].op)
      PROVE  Bien
  <2>1. \A x \in Peticion : Nacida(pet'[x], fila)
    BY <1>2, <1>4 DEF SoloDe
  <2>2. \A x \in Peticion : pet'[x].op = pet[x].op \/ ~Alta(pet'[x].op)
    BY <1>4 DEF SoloDe
  <2>3. \A x, y \in Peticion : x # y => Ajenos(pet'[x], pet'[y])
    BY <1>2, <2>2 DEF Ajenos
  <2>4. QED
    BY <1>4, <2>1, <2>3
<1>5. ASSUME NEW r \in Peticion, SoloDe(r), fila' = fila, pet'[r] = Libre  PROVE Bien
  <2>1. /\ Libre.op = SinOp /\ Libre.leido = Nada /\ Libre.nueva = Nada /\ ~Alta(SinOp)
        /\ Libre.en \notin {"guardar", "registrar"}
    BY DEF Libre, Alta, SinOp
  <2>2. Nacida(Libre, fila) /\ ~Alta(Libre.op)
    BY <2>1, NacidaLibre
  <2>3. QED
    BY <1>4, <1>5, <2>2
<1>6. ASSUME NEW r \in Peticion, SoloDe(r), fila' = fila, Mismos(pet[r], pet'[r]),
             pet'[r].en \notin {"leer", "guardar"}, pet'[r].en = "registrar" => pet[r].en = "guardar"
      PROVE  Bien
  <2>1. Nacida(pet'[r], fila)
    BY <1>2, <1>6 DEF Nacida, Mismos
  <2>2. QED
    BY <1>4, <1>6, <2>1 DEF Mismos
<1>7. ASSUME NEW r \in Peticion, Leer(r)  PROVE Bien
  <2>1. fila' = fila
    BY <1>7 DEF Leer, tablas
  <2>2. CASE pet'[r] = Libre
    BY <1>5, <1>7, <2>1, <2>2, LeerDice
  <2>3. CASE pet'[r] # Libre
    <3> DEFINE p == pet[r]
               q == pet'[r]
    <3>1. /\ SoloDe(r) /\ p.en = "leer" /\ p.op \in Entradas /\ q.op = p.op
          /\ \A i \in DOMAIN q.leido : q.leido[i] = IF i \in DOMAIN p.leido THEN p.leido[i] ELSE fila[i]
          /\ \/ q.en = "leer" /\ q.nueva = p.nueva
             \/ /\ q.en \notin {"leer", "guardar", "registrar"}
                /\ q.leido \in [p.op.ids -> Fila] /\ q.nueva = Cambiadas(p.op, q.leido)
      BY <1>7, <2>3, LeerDice
    <3>2. Nacida(p, fila)
      BY <1>2
    <3> HIDE DEF p, q
    <3>3. \A i \in DOMAIN q.leido : Existe(q.leido[i]) => Existe(fila[i])
      BY <3>1, <3>2 DEF Nacida
    <3>4. ASSUME q.nueva # p.nueva, NEW i \in DOMAIN q.nueva
          PROVE  Existe(q.nueva[i]) /\ IF Alta(q.op) THEN i \in q.op.ids ELSE Existe(fila[i])
      <4>1. q.leido \in [p.op.ids -> Fila] /\ i \in DOMAIN Cambiadas(p.op, q.leido)
            /\ q.nueva = Cambiadas(p.op, q.leido)
        BY <3>1, <3>4
      <4>2. Existe(q.nueva[i]) /\ (Alta(p.op) \/ Existe(q.leido[i])) /\ i \in p.op.ids
        BY <3>1, <4>1, CambiadasExiste
      <4>3. i \in DOMAIN q.leido
        BY <4>1, <4>2
      <4>4. QED
        BY <3>1, <3>3, <4>2, <4>3
    <3>5. Nacida(q, fila)
      BY <3>1, <3>2, <3>3, <3>4 DEF Nacida
    <3>6. QED
      BY <1>4, <2>1, <3>1, <3>5 DEF p, q
  <2>4. QED
    BY <2>2, <2>3
<1>8. ASSUME NEW r \in Peticion, NEW op \in Entradas, Pedir(r, op)  PROVE Bien
  <2>1. /\ Admisible(op) /\ pet'[r].en = "leer" /\ pet'[r].op = op /\ fila' = fila
        /\ pet'[r].leido = Nada /\ pet'[r].nueva = Nada
        /\ \A x \in Peticion \ {r} : Desolado(pet[x], pet'[x])
    BY <1>8, PedirDice DEF tablas
  <2>2. Alta(op) => \A i \in op.ids : ~Existe(fila[i]) /\ \A x \in Peticion : Alta(pet[x].op) => i \notin pet[x].op.ids
    BY <2>1 DEF Admisible
  <2>3. Nacida(pet'[r], fila)
    <3>1. DOMAIN Nada = {}
      BY DEF Nada
    <3>2. QED
      BY <2>1, <2>2, <3>1 DEF Nacida
  <2>4. ASSUME NEW x \in Peticion, x # r
        PROVE  Nacida(pet'[x], fila) /\ pet'[x].op = pet[x].op
    <3>1. Desolado(pet[x], pet'[x]) /\ Nacida(pet[x], fila)
      BY <1>2, <2>1, <2>4
    <3>2. QED
      BY <3>1 DEF Desolado, Nacida
  <2>5. ASSUME NEW x \in Peticion, NEW y \in Peticion, x # y  PROVE Ajenos(pet'[x], pet'[y])
    <3>1. Ajenos(pet[x], pet[y])
      BY <1>2, <2>5
    <3>2. CASE x = r
      BY <2>1, <2>2, <2>4, <2>5, <3>2 DEF Ajenos
    <3>3. CASE y = r
      BY <2>1, <2>2, <2>4, <2>5, <3>3 DEF Ajenos
    <3>4. CASE x # r /\ y # r
      BY <2>4, <3>1, <3>4 DEF Ajenos
    <3>5. QED
      BY <3>2, <3>3, <3>4
  <2>6. QED
    BY <2>1, <2>3, <2>4, <2>5
<1>9. ASSUME NEW r \in Peticion, NEW g \in Pagina, Listar(r, g)  PROVE Bien
  <2>1. /\ pet'[r].en = "guardar" /\ pet'[r].op = SinOp /\ fila' = fila
        /\ pet'[r].nueva = Nada
        /\ pet'[r].vista = [i \in EnPagina(g, Activos) |-> version[i]]
        /\ \A x \in Peticion \ {r} : Desolado(pet[x], pet'[x])
    BY <1>9, ListarDice DEF tablas
  <2>2. \A i \in DOMAIN pet'[r].vista : Existe(fila[i])
    BY <2>1 DEF EnPagina, Activos, ActivosDe, Existe
  <2>3. Nacida(pet'[r], fila) /\ ~Alta(pet'[r].op)
    BY <2>1, <2>2 DEF Nacida, Nada, Alta, SinOp
  <2>4. ASSUME NEW x \in Peticion, x # r
        PROVE  Nacida(pet'[x], fila) /\ pet'[x].op = pet[x].op
    <3>1. Desolado(pet[x], pet'[x]) /\ Nacida(pet[x], fila)
      BY <1>2, <2>1, <2>4
    <3>2. QED
      BY <3>1 DEF Desolado, Nacida
  <2>5. \A x \in Peticion : Nacida(pet'[x], fila) /\ (pet'[x].op = pet[x].op \/ ~Alta(pet'[x].op))
    BY <2>3, <2>4
  <2>6. QED
    BY <1>2, <2>1, <2>5 DEF Ajenos
<1>10. ASSUME NEW r \in Peticion, Confirmar(r)  PROVE Bien
  <2>1. /\ SoloDe(r) /\ pet'[r].op = SinOp /\ pet'[r].leido = Nada /\ pet'[r].nueva = Nada
        /\ pet'[r].en \notin {"guardar", "registrar"}
    BY <1>10, ConfirmarDice
  <2>2. /\ \A i \in Item : Existe(fila[i]) => Existe(fila'[i])
        /\ \A x \in Peticion \ {r} : Alta(pet[x].op) => \A i \in pet[x].op.ids : ~Existe(fila'[i])
    BY <1>10, ConfirmarNacen
  <2>3. ASSUME NEW x \in Peticion, x # r  PROVE Nacida(pet'[x], fila')
    <3>1. pet'[x] = pet[x] /\ pet[x] \in PetT /\ Nacida(pet[x], fila)
      BY <1>2, <2>1, <2>3 DEF SoloDe
    <3>2. Nacida(pet[x], fila')
      BY <2>2, <2>3, <3>1, NacidaSigue
    <3>3. QED
      BY <3>1, <3>2
  <2>4. Nacida(pet'[r], fila') /\ \A p : Ajenos(p, pet'[r]) /\ Ajenos(pet'[r], p)
    BY <2>1, NacidaLibre
  <2>5. QED
    BY <1>2, <2>1, <2>2, <2>3, <2>4 DEF SoloDe
<1>11. ASSUME NEW r \in Peticion, SubirImagen(r) \/ BorrarImagen(r)  PROVE Bien
  <2>1. fila' = fila
    BY <1>11 DEF SubirImagen, BorrarImagen
  <2>2. QED
    BY <1>6, <1>11, <2>1, ImagenDice
<1>12. ASSUME NEW r \in Peticion, \/ TomarPaginas(r) \/ TomarPrimeras(r) \/ Borrar(r) \/ BorrarFalla(r)
                                  \/ Limpiar(r) \/ LimpiarFalla(r) \/ Guardar(r)
       PROVE  Bien
  <2>1. fila' = fila
    BY <1>12 DEF TomarPaginas, TomarPrimeras, Borrar, BorrarFalla, Limpiar, LimpiarFalla, Guardar, tablas
  <2>2. /\ SoloDe(r) /\ Mismos(pet[r], pet'[r]) /\ pet'[r].en \notin {"leer", "guardar"}
        /\ pet'[r].en = "registrar" => pet[r].en = "guardar"
    BY <1>12, TomarDice, PrimerasDice, BorrarDice, BorrarFallaDice, LimpiarDice, GuardarDice
  <2>3. QED
    BY <1>6, <2>1, <2>2
<1>13. ASSUME NEW r \in Peticion, Siguiente(r) \/ SiguienteFalla(r) \/ TomarPaginasFalla(r)  PROVE Bien
  <2>1. fila' = fila
    BY <1>13 DEF Siguiente, SiguienteFalla, TomarPaginasFalla, tablas
  <2>2. /\ SoloDe(r)
        /\ \/ pet'[r] = Libre
           \/ Mismos(pet[r], pet'[r]) /\ pet'[r].en \in {"invalidar", "avisar"}
    BY <1>13, SiguienteDice, SiguienteFallaDice, TomarFallaDice
  <2>3. QED
    BY <1>5, <1>6, <2>1, <2>2
<1>14. ASSUME NEW r \in Peticion, \/ Registrar(r) \/ RegistrarFalla(r) \/ TomarPrimerasFalla(r)
                                  \/ Revertir(r) \/ Cortar(r)
       PROVE  Bien
  <2>1. fila' = fila
    BY <1>14 DEF Registrar, RegistrarFalla, TomarPrimerasFalla, Revertir, Cortar, tablas
  <2>2. QED
    BY <1>5, <1>14, <2>1, AcabaDice
<1>15. (\E r \in Peticion : Actualizar(r)) \/ Recorrer \/ (\E g \in Pagina : Expira(g)) \/ UNCHANGED vars
       => UNCHANGED <<fila, pet>>
  BY DEF Actualizar, Recorrer, Expira, vars, tablas
<1>16. ASSUME NEW r \in Peticion, GuardarFalla(r)  PROVE Bien
  <2>1. fila' = fila
    BY <1>16 DEF GuardarFalla, tablas
  <2>2. /\ SoloDe(r) /\ pet[r].en = "guardar" /\ pet'[r].en = "registrar"
        /\ pet'[r].op = pet[r].op /\ pet'[r].leido = pet[r].leido
        /\ pet'[r].nueva = pet[r].nueva /\ pet'[r].vista = pet[r].vista
    BY <1>16, GuardarFallaDice
  <2>3. Nacida(pet'[r], fila)
    BY <1>2, <2>2 DEF Nacida
  <2>4. QED
    BY <1>4, <2>1, <2>2, <2>3
<1>17. ASSUME NEW r \in Peticion, CommitSinEfecto(r)  PROVE Bien
  <2>1. fila' = fila
    BY <1>17 DEF CommitSinEfecto
  <2>2. /\ SoloDe(r) /\ pet'[r].op = SinOp /\ pet'[r].leido = Nada /\ pet'[r].nueva = Nada
        /\ pet'[r].en \notin {"guardar", "registrar"}
    BY <1>17, ConfirmarDice
  <2>3. Nacida(pet'[r], fila) /\ ~Alta(pet'[r].op)
    BY <2>2, NacidaLibre DEF Alta, SinOp
  <2>4. QED
    BY <1>4, <2>1, <2>2, <2>3
<1> HIDE DEF Bien
<1>18. QED
  BY <1>3, <1>7, <1>8, <1>9, <1>10, <1>11, <1>12, <1>13, <1>14, <1>15, <1>16, <1>17 DEF Next, Paso, FallaRedis

-----------------------------------------------------------------------------
(* The cached pages.  A page that was stored alone is found by each of its *)
(* items, and of those that changed since, some request is invalidating.   *)

Invalida(p) == p.en \in {"invalidar", "limpiar"}
Pendientes(p) ==
  IF p.en = "avisar" THEN p.avisar ELSE IF Invalida(p) THEN p.avisar \cup {p.item} ELSE {}

\* A listing that is alone: what it read is current, and what it stored is
\* what it read.
Sola(p, v, c) ==
  p.sola => /\ p.en \in {"guardar", "registrar"}
            /\ \A i \in DOMAIN p.vista : p.vista[i] = v[i]
            /\ p.en = "registrar" /\ c[p.pagina].hay => c[p.pagina].muestra = p.vista
Solas ==
  /\ \A r \in Peticion : Sola(pet[r], version, pagina)
  /\ \A r, x \in Peticion : pet[r].sola /\ x # r => pet[x].en = "libre"
  /\ \A r \in Peticion : pet[r].en = "primeras" => pet[r].item = 0

Encuentra(g, i) ==
  /\ g \in indice[i]
  /\ \A r \in Peticion : Invalida(pet[r]) /\ pet[r].item = i => g \in pet[r].paginas
AlDia(g, i) ==
  i \in sinAviso \/ pagina[g].muestra[i] = version[i] \/ \E r \in Peticion : i \in Pendientes(pet[r])
Limpia(g) == \A r \in Peticion : pet[r].en = "limpiar" => pet[r].pagina # g
Frescas ==
  \A g \in Pagina : pagina[g].sola =>
    Limpia(g) /\ \A i \in DOMAIN pagina[g].muestra : Encuentra(g, i) /\ AlDia(g, i)

Fresco == Nacen /\ Solas /\ Frescas

LEMMA FrescoDice == Inv /\ Fresco => PaginaSolaAlDia
<1> SUFFICES ASSUME Inv, Fresco, \A r \in Peticion : ~EnCurso(r), NEW g \in Pagina, pagina[g].sola,
                    NEW i \in DOMAIN pagina[g].muestra
             PROVE  i \in sinAviso \/ pagina[g].muestra[i] = version[i]
  BY DEF PaginaSolaAlDia
<1>1. AlDia(g, i)
  BY DEF Fresco, Frescas
<1>2. \A r \in Peticion : Pendientes(pet[r]) = {}
  BY DEF EnCurso, Pendientes, Invalida
<1>3. QED
  BY <1>1, <1>2 DEF AlDia

LEMMA FrescoInicio == Init => Fresco
<1> SUFFICES ASSUME Init  PROVE Fresco
  OBVIOUS
<1>1. \A r \in Peticion : pet[r].en = "libre" /\ ~pet[r].sola
  BY DEF Init, Libre
<1>2. \A g \in Pagina : ~pagina[g].sola
  BY DEF Init, InitCache, Vacia
<1>3. Solas /\ Frescas
  BY <1>1, <1>2 DEF Solas, Sola, Frescas
<1>4. QED
  BY <1>3, NacenInicio DEF Fresco

\* A step of a request that was working: any other one is not alone.
LEMMA SolasDe ==
  ASSUME Inv, Solas, NEW r \in Peticion, SoloDe(r), pet[r].en # "libre",
         Sola(pet'[r], version', pagina'), pet'[r].sola => pet[r].sola,
         pet'[r].en = "primeras" => pet'[r].item = 0
  PROVE  Solas'
<1>1. \A x \in Peticion \ {r} : ~pet[x].sola
  BY DEF Solas
<1>2. \A x \in Peticion \ {r} : pet'[x] = pet[x]
  BY DEF SoloDe
<1>3. \A x \in Peticion : Sola(pet'[x], version', pagina')
  BY <1>1, <1>2 DEF Sola
<1>4. QED
  BY <1>1, <1>2, <1>3 DEF Solas

LEMMA SolasPaso ==
  ASSUME Inv, Solas, [Next]_vars
  PROVE  Solas'
<1>1. \A x \in Peticion : Sola(pet[x], version, pagina) /\ (pet[x].en = "primeras" => pet[x].item = 0)
  BY DEF Solas
<1>2. ASSUME NEW r \in Peticion, NEW op \in Entradas, Pedir(r, op)  PROVE Solas'
  <2>1. /\ pet'[r].en = "leer" /\ ~pet'[r].sola
        /\ \A x \in Peticion \ {r} : Desolado(pet[x], pet'[x])
    BY <1>2, PedirDice
  <2>2. \A x \in Peticion : ~pet'[x].sola /\ (pet'[x].en = "primeras" => pet'[x].item = 0)
    BY <1>1, <2>1 DEF Desolado
  <2>3. QED
    BY <2>2 DEF Solas, Sola
<1>3. ASSUME NEW r \in Peticion, NEW g \in Pagina, Listar(r, g)  PROVE Solas'
  <2>1. /\ pet'[r].en = "guardar" /\ pet'[r].sola = \A x \in Peticion : ~EnCurso(x)
        /\ pet'[r].vista = [i \in EnPagina(g, Activos) |-> version[i]] /\ version' = version
        /\ \A x \in Peticion \ {r} : Desolado(pet[x], pet'[x])
    BY <1>3, ListarDice DEF historia
  <2>2. \A x \in Peticion \ {r} : /\ ~pet'[x].sola /\ pet'[x].en = pet[x].en
                                  /\ pet'[x].en = "primeras" => pet'[x].item = 0
    BY <1>1, <2>1 DEF Desolado
  <2>3. Sola(pet'[r], version', pagina')
    BY <2>1 DEF Sola
  <2>4. pet'[r].sola => \A x \in Peticion \ {r} : pet'[x].en = "libre"
    BY <2>1, <2>2 DEF EnCurso
  <2>5. \A x \in Peticion : Sola(pet'[x], version', pagina')
    BY <2>2, <2>3 DEF Sola
  <2>6. \A x, y \in Peticion : pet'[x].sola /\ y # x => pet'[y].en = "libre"
    BY <2>2, <2>4
  <2>7. \A x \in Peticion : pet'[x].en = "primeras" => pet'[x].item = 0
    BY <2>1, <2>2
  <2>8. QED
    BY <2>5, <2>6, <2>7 DEF Solas
<1>4. ASSUME NEW r \in Peticion, Guardar(r)  PROVE Solas'
  <2>1. /\ SoloDe(r) /\ Mismos(pet[r], pet'[r]) /\ pet[r].en = "guardar" /\ pet'[r].en = "registrar"
        /\ pet'[r].pagina = pet[r].pagina /\ pet[r].pagina \in Pagina
    BY <1>4, GuardarDice
  <2>2. version' = version /\ pagina'[pet[r].pagina].muestra = pet[r].vista
    BY <1>4, <2>1 DEF Guardar, set_cache, historia, Inv, Cache
  <2>3. Sola(pet'[r], version', pagina')
    <3> DEFINE p == pet[r]
               q == pet'[r]
               c == pagina'
    <3>1. /\ q.sola = p.sola /\ q.vista = p.vista /\ q.pagina = p.pagina /\ q.en = "registrar"
          /\ c[p.pagina].muestra = p.vista /\ version' = version
      BY <2>1, <2>2 DEF Mismos
    <3>2. p.sola => \A i \in DOMAIN p.vista : p.vista[i] = version[i]
      BY <1>1 DEF Sola
    <3> HIDE DEF p, q, c
    <3>3. Sola(q, version', c)
      BY <3>1, <3>2 DEF Sola
    <3>4. QED
      BY <3>3 DEF q, c
  <2>4. QED
    BY <2>1, <2>3, SolasDe DEF Mismos
<1>5. ASSUME NEW r \in Peticion, \/ Leer(r) \/ SubirImagen(r) \/ BorrarImagen(r) \/ Confirmar(r)
                                 \/ TomarPaginas(r) \/ TomarPrimeras(r) \/ Borrar(r) \/ Limpiar(r)
                                 \/ Siguiente(r) \/ Registrar(r) \/ Revertir(r) \/ Cortar(r)
                                 \/ CommitSinEfecto(r) \/ FallaRedis(r)
      PROVE  Solas'
  <2>1. SoloDe(r)
    BY <1>5, LeerDice, ImagenDice, ConfirmarDice, TomarDice, PrimerasDice, BorrarDice, LimpiarDice,
       SiguienteDice, AcabaDice, TomarFallaDice, BorrarFallaDice, SiguienteFallaDice, GuardarFallaDice
       DEF FallaRedis
  <2>2. pet[r].en # "libre"
    BY <1>5 DEF Leer, SubirImagen, BorrarImagen, Confirmar, TomarPaginas, TomarPrimeras, Borrar, Limpiar,
       Siguiente, Registrar, Revertir, Cortar, CommitSinEfecto, FallaRedis, TomarPaginasFalla,
       TomarPrimerasFalla, BorrarFalla, LimpiarFalla, SiguienteFalla, GuardarFalla, RegistrarFalla
  <2>3. ~Libre.sola /\ Libre.en = "libre"
    BY DEF Libre
  <2>4. ~pet'[r].sola /\ (pet'[r].en = "primeras" => pet'[r].item = 0)
    <3>1. CASE Leer(r)
      BY <1>1, <2>3, <3>1, LeerDice DEF Sola
    <3>2. CASE SubirImagen(r) \/ BorrarImagen(r)
      BY <1>1, <3>2, ImagenDice DEF Sola, Mismos
    <3>3. CASE Confirmar(r) \/ CommitSinEfecto(r)
      BY <3>3, ConfirmarDice
    <3>4. CASE TomarPaginas(r)
      BY <1>1, <3>4, TomarDice DEF Sola, Mismos
    <3>5. CASE TomarPrimeras(r)
      BY <1>1, <3>5, PrimerasDice DEF Sola, Mismos
    <3>6. CASE Borrar(r) \/ BorrarFalla(r)
      BY <1>1, <3>6, BorrarDice, BorrarFallaDice DEF Sola, Mismos
    <3>7. CASE Limpiar(r) \/ LimpiarFalla(r)
      BY <1>1, <3>7, LimpiarDice DEF Sola, Mismos
    <3>8. CASE Siguiente(r)
      BY <1>1, <2>3, <3>8, SiguienteDice DEF Sola, Mismos
    <3>9. CASE Registrar(r) \/ RegistrarFalla(r) \/ TomarPrimerasFalla(r) \/ Revertir(r) \/ Cortar(r)
      BY <2>3, <3>9, AcabaDice
    <3>10. CASE TomarPaginasFalla(r)
      BY <1>1, <2>3, <3>10, TomarFallaDice DEF Sola, Mismos
    <3>11. CASE SiguienteFalla(r)
      BY <1>1, <2>3, <3>11, SiguienteFallaDice DEF Sola, Mismos
    <3>12. CASE GuardarFalla(r)
      BY <3>12, GuardarFallaDice
    <3>13. QED
      BY <1>5, <3>1, <3>2, <3>3, <3>4, <3>5, <3>6, <3>7, <3>8, <3>9, <3>10, <3>11, <3>12 DEF FallaRedis
  <2>5. Sola(pet'[r], version', pagina')
    BY <2>4 DEF Sola
  <2>6. QED
    BY <2>1, <2>2, <2>4, <2>5, SolasDe
<1>6. ASSUME (\E r \in Peticion : Actualizar(r)) \/ Recorrer \/ (\E g \in Pagina : Expira(g)) \/ UNCHANGED vars
      PROVE  Solas'
  <2>1. pet' = pet /\ version' = version
    BY <1>6 DEF Actualizar, Recorrer, Expira, vars, historia
  <2>2. ASSUME NEW g \in Pagina  PROVE pagina'[g] = pagina[g] \/ ~pagina'[g].hay
    BY <1>6 DEF Actualizar, Recorrer, Expira, ExpiraPagina, ExpiraMeta, vars, redis, Vacia, Inv, Cache
  <2>3. \A x \in Peticion : pet[x].en = "registrar" => pet[x].pagina \in Pagina
    BY DEF Inv, Peticiones, PetOK
  <2>4. \A x \in Peticion : Sola(pet'[x], version', pagina')
    BY <1>1, <2>1, <2>2, <2>3 DEF Sola
  <2>5. QED
    BY <2>1, <2>4 DEF Solas
<1>7. QED
  BY <1>2, <1>3, <1>4, <1>5, <1>6 DEF Next, Paso

\* A step in which no request invalidates a page or begins to.
Calla(p) == p.en \notin {"avisar", "invalidar", "limpiar"}
Igual(p, q) ==
  q.en = p.en /\ q.item = p.item /\ q.avisar = p.avisar /\ q.paginas = p.paginas /\ q.pagina = p.pagina
Quietas == \A x \in Peticion : Igual(pet[x], pet'[x]) \/ (Calla(pet[x]) /\ Calla(pet'[x]))
Avisa(r) ==
  \/ Confirmar(r) \/ CommitSinEfecto(r) \/ Cortar(r) \/ TomarPaginas(r) \/ TomarPrimeras(r)
  \/ Borrar(r) \/ Limpiar(r) \/ Siguiente(r)
  \/ TomarPaginasFalla(r) \/ BorrarFalla(r) \/ LimpiarFalla(r) \/ SiguienteFalla(r)
IndiceCrece == \A i \in Item : indice[i] \subseteq indice'[i]

LEMMA QuietasDe ==
  ASSUME NEW r \in Peticion, SoloDe(r), Calla(pet[r]), Calla(pet'[r])
  PROVE  Quietas
BY DEF SoloDe, Quietas, Igual

LEMMA Callan ==
  ASSUME Inv, [Next]_vars
  PROVE  \/ \E r \in Peticion : Avisa(r)
         \/ Quietas /\ UNCHANGED <<sinAviso, version>> /\ IndiceCrece
<1>0. UNCHANGED indice => IndiceCrece
  BY DEF IndiceCrece
<1>1. Calla(Libre)
  BY DEF Calla, Libre
<1>2. ASSUME NEW r \in Peticion, NEW op \in Entradas, Pedir(r, op)
      PROVE  Quietas /\ UNCHANGED <<sinAviso, version, indice>>
  <2>1. pet[r].en = "libre" /\ pet'[r].en = "leer" /\ \A x \in Peticion \ {r} : Desolado(pet[x], pet'[x])
    BY <1>2, PedirDice
  <2>2. UNCHANGED <<sinAviso, version, indice>>
    BY <1>2 DEF Pedir, redis, historia
  <2>3. QED
    BY <2>1, <2>2 DEF Quietas, Igual, Calla, Desolado
<1>3. ASSUME NEW r \in Peticion, NEW g \in Pagina, Listar(r, g)
      PROVE  Quietas /\ UNCHANGED <<sinAviso, version, indice>>
  <2>1. pet[r].en = "libre" /\ pet'[r].en = "guardar" /\ \A x \in Peticion \ {r} : Desolado(pet[x], pet'[x])
    BY <1>3, ListarDice
  <2>2. UNCHANGED <<sinAviso, version, indice>>
    BY <1>3 DEF Listar, redis, historia
  <2>3. QED
    BY <2>1, <2>2 DEF Quietas, Igual, Calla, Desolado
<1>4. ASSUME NEW r \in Peticion, Leer(r)  PROVE Quietas /\ UNCHANGED <<sinAviso, version, indice>>
  <2>1. /\ SoloDe(r) /\ pet[r].en = "leer"
        /\ pet'[r] = Libre \/ pet'[r].en \in {"leer", "subir", "borrar_imagen", "flush"}
    BY <1>4, LeerDice
  <2>2. UNCHANGED <<sinAviso, version, indice>>
    BY <1>4 DEF Leer, redis, historia
  <2>3. Calla(pet[r]) /\ Calla(pet'[r])
    BY <1>1, <2>1 DEF Calla
  <2>4. QED
    BY <2>1, <2>2, <2>3, QuietasDe
<1>5. ASSUME NEW r \in Peticion, SubirImagen(r) \/ BorrarImagen(r)
      PROVE  Quietas /\ UNCHANGED <<sinAviso, version, indice>>
  <2>1. SoloDe(r) /\ Calla(pet[r]) /\ Calla(pet'[r])
    BY <1>5, ImagenDice DEF Calla
  <2>2. UNCHANGED <<sinAviso, version, indice>>
    BY <1>5 DEF SubirImagen, BorrarImagen, redis, historia
  <2>3. QED
    BY <2>1, <2>2, QuietasDe
<1>6. ASSUME NEW r \in Peticion, Guardar(r) \/ GuardarFalla(r)
      PROVE  Quietas /\ UNCHANGED <<sinAviso, version, indice>>
  <2>1. SoloDe(r) /\ Calla(pet[r]) /\ Calla(pet'[r])
    BY <1>6, GuardarDice, GuardarFallaDice DEF Calla
  <2>2. UNCHANGED <<sinAviso, version, indice>>
    BY <1>6 DEF Guardar, GuardarFalla, set_cache, redis, historia
  <2>3. QED
    BY <2>1, <2>2, QuietasDe
<1>7. ASSUME NEW r \in Peticion, Registrar(r) \/ RegistrarFalla(r) \/ TomarPrimerasFalla(r) \/ Revertir(r)
      PROVE  Quietas /\ UNCHANGED <<sinAviso, version>> /\ IndiceCrece
  <2>1. SoloDe(r) /\ pet'[r] = Libre
    BY <1>7, AcabaDice
  <2>2. Calla(pet[r])
    BY <1>7 DEF Registrar, RegistrarFalla, TomarPrimerasFalla, Revertir, Calla
  <2>3. UNCHANGED <<sinAviso, version>> /\ IndiceCrece
    <3>1. UNCHANGED <<sinAviso, version>>
      BY <1>7 DEF Registrar, RegistrarFalla, TomarPrimerasFalla, Revertir, historia
    <3>2. UNCHANGED indice \/ \E ids : IndexaItems(pet[r].pagina, ids)
      BY <1>7 DEF Registrar, register_list_cache, RegistrarFalla, RegistroFalla, TomarPrimerasFalla, Revertir, redis
    <3>3. ASSUME NEW ids, IndexaItems(pet[r].pagina, ids)  PROVE IndiceCrece
      BY <3>3 DEF IndexaItems, IndiceCrece
    <3>4. QED
      BY <1>0, <3>1, <3>2, <3>3
  <2>4. QED
    BY <1>1, <2>1, <2>2, <2>3, QuietasDe
<1>8. ASSUME (\E r \in Peticion : Actualizar(r)) \/ Recorrer \/ (\E g \in Pagina : Expira(g)) \/ UNCHANGED vars
      PROVE  Quietas /\ UNCHANGED <<sinAviso, version, indice>>
  <2>1. UNCHANGED <<pet, sinAviso, version, indice>>
    BY <1>8 DEF Actualizar, Recorrer, Expira, ExpiraPagina, ExpiraMeta, vars, redis, historia
  <2>2. QED
    BY <2>1 DEF Quietas, Igual
<1>9. QED
  BY <1>0, <1>2, <1>3, <1>4, <1>5, <1>6, <1>7, <1>8 DEF Next, Paso, FallaRedis, Avisa

\* A page that stays as it was, through such a step.
LEMMA QuietaFresca ==
  ASSUME Inv, Quietas, UNCHANGED <<sinAviso, version>>, IndiceCrece,
         NEW g \in Pagina, pagina'[g] = pagina[g], Limpia(g)
  PROVE  /\ Limpia(g)'
         /\ \A i \in Item : Encuentra(g, i) /\ AlDia(g, i) => (Encuentra(g, i) /\ AlDia(g, i))'
<1>1. Limpia(g)'
  BY DEF Limpia, Quietas, Igual, Calla
<1>2. ASSUME NEW i \in Item, Encuentra(g, i)  PROVE Encuentra(g, i)'
  <2>1. g \in indice'[i]
    BY <1>2 DEF Encuentra, IndiceCrece
  <2>2. ASSUME NEW x \in Peticion, Invalida(pet'[x]), pet'[x].item = i  PROVE g \in pet'[x].paginas
    BY <1>2, <2>2 DEF Encuentra, Invalida, Quietas, Igual, Calla
  <2>3. QED
    BY <2>1, <2>2 DEF Encuentra
<1>3. ASSUME NEW i \in Item, AlDia(g, i)  PROVE AlDia(g, i)'
  <2>1. \A x \in Peticion : Pendientes(pet'[x]) = Pendientes(pet[x])
    BY DEF Quietas, Igual, Calla, Pendientes, Invalida
  <2>2. QED
    BY <1>3, <2>1 DEF AlDia
<1>4. QED
  BY <1>1, <1>2, <1>3

\* A page that stays as it was, through the step of a request r that does not
\* touch it: what the others find and have pending is as it was.
LEMMA AvisaFresca ==
  ASSUME Inv, NEW r \in Peticion, SoloDe(r), NEW g \in Pagina, pagina'[g] = pagina[g],
         NEW i \in Item, Encuentra(g, i), AlDia(g, i), g \in indice'[i],
         Invalida(pet'[r]) /\ pet'[r].item = i => g \in pet'[r].paginas,
         i \in sinAviso => i \in sinAviso' \/ i \in Pendientes(pet'[r]),
         version'[i] # version[i] => i \in sinAviso' \/ i \in Pendientes(pet'[r]),
         i \in Pendientes(pet[r]) => i \in sinAviso' \/ i \in Pendientes(pet'[r])
  PROVE  (Encuentra(g, i) /\ AlDia(g, i))'
<1>1. \A x \in Peticion \ {r} : pet'[x] = pet[x]
  BY DEF SoloDe
<1>2. Encuentra(g, i)'
  BY <1>1 DEF Encuentra
<1>3. AlDia(g, i)'
  <2>1. CASE i \in sinAviso
    BY <2>1 DEF AlDia
  <2>2. CASE pagina[g].muestra[i] = version[i]
    BY <2>2 DEF AlDia
  <2>3. ASSUME NEW x \in Peticion, i \in Pendientes(pet[x])  PROVE AlDia(g, i)'
    BY <1>1, <2>3 DEF AlDia
  <2>4. QED
    BY <2>1, <2>2, <2>3 DEF AlDia
<1>4. QED
  BY <1>2, <1>3

LEMMA ConfirmarFresca ==
  ASSUME Inv, Fresco, NEW r \in Peticion, Confirmar(r), NEW g \in Pagina, pagina[g].sola,
         NEW i \in DOMAIN pagina[g].muestra, i \in Item
  PROVE  (Encuentra(g, i) /\ AlDia(g, i))'
<1> DEFINE p == pet[r]
           q == pet'[r]
           ids == DOMAIN p.nueva
<1>1. /\ SoloDe(r) /\ p.en = "flush" /\ q.en \in {"libre", "avisar", "primeras"}
      /\ p.op.tipo \in AvisaItems => q.en = "avisar" /\ q.avisar = ids
  BY ConfirmarDice
<1>2. /\ UNCHANGED redis
      /\ version' = [j \in Item |-> IF j \in ids THEN version[j] + 1 ELSE version[j]]
      /\ sinAviso' = IF p.op.tipo \in AvisaItems THEN sinAviso \ ids
                     ELSE IF Alta(p.op) THEN sinAviso ELSE sinAviso \cup ids
  BY DEF Confirmar
<1>3. Limpia(g) /\ Encuentra(g, i) /\ AlDia(g, i) /\ Existe(fila[i]) /\ Nacida(p, fila)
  BY DEF Fresco, Frescas, Nacen
<1>4. pagina'[g] = pagina[g] /\ g \in indice'[i]
  BY <1>2, <1>3 DEF redis, Encuentra
<1>5. ~Invalida(q) /\ q.en # "limpiar" /\ Pendientes(p) = {}
  BY <1>1 DEF Invalida, Pendientes
<1>6. p.op.tipo \in AvisaItems => Pendientes(q) = ids
  BY <1>1 DEF Pendientes
<1>7. Alta(p.op) => i \notin ids
  BY <1>3 DEF Nacida
<1> HIDE DEF p, q, ids
<1>8. i \in sinAviso => i \in sinAviso' \/ i \in Pendientes(q)
  BY <1>2, <1>6
<1>9. version'[i] # version[i] => i \in sinAviso' \/ i \in Pendientes(q)
  BY <1>2, <1>6, <1>7
<1>10. QED
  BY <1>1, <1>3, <1>4, <1>5, <1>8, <1>9, AvisaFresca DEF p, q

LEMMA AvisaPaso ==
  ASSUME Inv, Fresco, NEW r \in Peticion, Avisa(r), NEW g \in Pagina, pagina[g].sola, pagina'[g] = pagina[g],
         NEW i \in DOMAIN pagina[g].muestra, i \in Item
  PROVE  (Encuentra(g, i) /\ AlDia(g, i))'
<1> DEFINE p == pet[r]
           q == pet'[r]
<1>1. Limpia(g) /\ Encuentra(g, i) /\ AlDia(g, i)
  BY DEF Fresco, Frescas
<1>2. /\ g \in indice[i] /\ (p.en = "limpiar" => p.pagina # g)
      /\ Invalida(p) /\ p.item = i => g \in p.paginas
  BY <1>1 DEF Encuentra, Limpia
<1>3. i # 0 /\ (p.en = "primeras" => p.item = 0) /\ indice \in [Item -> SUBSET Pagina]
      /\ pagina \in [Pagina -> PaginaT]
  BY InventarioOK DEF Fresco, Solas, Inv, Cache
<1>4. CASE Confirmar(r)
  BY <1>4, ConfirmarFresca
<1>5. CASE Cortar(r)
  <2>1. SoloDe(r) /\ q = Libre
    BY <1>5, AcabaDice
  <2>2. /\ UNCHANGED <<indice, version>>
        /\ sinAviso' = sinAviso \cup (Item \cap (p.avisar \cup {p.item}))
    BY <1>5 DEF Cortar, redis
  <2>3. q.en = "libre"
    BY <2>1 DEF Libre
  <2>4. Pendientes(p) \subseteq p.avisar \cup {p.item} /\ ~Invalida(q)
    BY <2>3 DEF Pendientes, Invalida
  <2> HIDE DEF p, q
  <2>5. i \in Pendientes(p) => i \in sinAviso'
    BY <2>2, <2>4
  <2>6. QED
    BY <1>1, <1>2, <2>1, <2>2, <2>3, <2>4, <2>5, AvisaFresca DEF p, q
<1>6. CASE TomarPaginas(r)
  <2>1. /\ SoloDe(r) /\ p.en = "avisar" /\ q.en = "invalidar" /\ q.item \in p.avisar
        /\ q.avisar = p.avisar \ {q.item} /\ q.paginas = indice[q.item]
    BY <1>6, TomarDice
  <2>2. UNCHANGED <<indice, version, sinAviso>>
    BY <1>6 DEF TomarPaginas, redis, historia
  <2> HIDE DEF p, q
  <2>3. Pendientes(p) \subseteq Pendientes(q)
    BY <2>1 DEF Pendientes, Invalida
  <2>4. QED
    BY <1>1, <1>2, <2>1, <2>2, <2>3, AvisaFresca DEF p, q
<1>7. CASE TomarPrimeras(r)
  <2>1. SoloDe(r) /\ p.en = "primeras" /\ q.en = "invalidar" /\ q.item = p.item
    BY <1>7, PrimerasDice
  <2>2. UNCHANGED <<indice, version, sinAviso>>
    BY <1>7 DEF TomarPrimeras, redis, historia
  <2> HIDE DEF p, q
  <2>3. Pendientes(p) = {} /\ q.item # i
    BY <1>3, <2>1 DEF Pendientes, Invalida
  <2>4. QED
    BY <1>1, <1>2, <2>1, <2>2, <2>3, AvisaFresca DEF p, q
<1>8. CASE Borrar(r)
  <2>1. PICK x \in p.paginas :
          /\ SoloDe(r) /\ p.en = "invalidar" /\ BorrarPagina(x)
          /\ q.en = "limpiar" /\ q.item = p.item /\ q.pagina = x
          /\ q.avisar = p.avisar /\ q.paginas = p.paginas \ {x}
    BY <1>8, BorrarDice
  <2>2. UNCHANGED <<indice, version, sinAviso>>
    BY <1>8, <2>1 DEF Borrar, BorrarPagina, historia
  <2>3. x # g
    BY <1>3, <2>1 DEF BorrarPagina, Vacia
  <2> HIDE DEF p, q
  <2>4. Pendientes(p) = Pendientes(q)
    BY <2>1 DEF Pendientes, Invalida
  <2>5. Invalida(q) /\ q.item = i => g \in q.paginas
    BY <1>2, <2>1, <2>3 DEF Invalida
  <2>6. QED
    BY <1>1, <1>2, <2>1, <2>2, <2>3, <2>4, <2>5, AvisaFresca DEF p, q
<1>9. CASE Limpiar(r)
  <2>1. /\ SoloDe(r) /\ p.en = "limpiar" /\ q.en = "invalidar" /\ q.item = p.item
        /\ q.avisar = p.avisar /\ q.paginas = p.paginas
    BY <1>9, LimpiarDice
  <2>2. UNCHANGED <<version, sinAviso>> /\ g \in indice'[i]
    BY <1>2, <1>3, <1>9, <2>1 DEF Limpiar, LimpiarIndices, historia
  <2> HIDE DEF p, q
  <2>3. Pendientes(p) = Pendientes(q)
    BY <2>1 DEF Pendientes, Invalida
  <2>4. Invalida(q) /\ q.item = i => g \in q.paginas
    BY <1>2, <2>1 DEF Invalida
  <2>5. QED
    BY <1>1, <1>2, <2>1, <2>2, <2>3, <2>4, AvisaFresca DEF p, q
<1>10. CASE Siguiente(r)
  <2>1. /\ SoloDe(r) /\ p.en = "invalidar" /\ p.paginas = {}
        /\ \/ /\ p.item # 0 /\ BorrarIndice(p.item)
              /\ q.en = "invalidar" /\ q.item = 0 /\ q.avisar = p.avisar
           \/ p.item = 0 /\ UNCHANGED redis /\ q.en = "avisar" /\ q.avisar = p.avisar
           \/ p.item = 0 /\ p.avisar = {} /\ q = Libre /\ UNCHANGED redis
    BY <1>10, SiguienteDice
  <2>2. UNCHANGED <<version, sinAviso>>
    BY <1>10 DEF Siguiente, historia
  <2>3. p.item # i
    BY <1>2, <2>1 DEF Invalida
  <2>4. g \in indice'[i]
    BY <1>2, <1>3, <2>1, <2>3 DEF BorrarIndice, redis
  <2>5. Libre.en = "libre"
    BY DEF Libre
  <2> HIDE DEF p, q
  <2>6. (i \in Pendientes(p) => i \in Pendientes(q)) /\ ~(Invalida(q) /\ q.item = i) /\ q.en # "limpiar"
    BY <1>3, <2>1, <2>3, <2>5 DEF Pendientes, Invalida
  <2>7. QED
    BY <1>1, <1>2, <2>1, <2>2, <2>4, <2>6, AvisaFresca DEF p, q
<1>11. CASE CommitSinEfecto(r)
  <2>1. SoloDe(r) /\ p.en = "flush" /\ q.en \in {"libre", "avisar", "primeras"}
    BY <1>11, ConfirmarDice
  <2>2. UNCHANGED <<indice, version, sinAviso>>
    BY <1>11 DEF CommitSinEfecto, redis, historia
  <2> HIDE DEF p, q
  <2>3. Pendientes(p) = {} /\ ~Invalida(q)
    BY <2>1 DEF Pendientes, Invalida
  <2>4. QED
    BY <1>1, <1>2, <2>1, <2>2, <2>3, AvisaFresca DEF p, q
<1>12. CASE TomarPaginasFalla(r)
  <2>1. Libre.en = "libre"
    BY DEF Libre
  <2>2. PICK x \in p.avisar :
          /\ SoloDe(r) /\ p.en = "avisar" /\ sinAviso' = sinAviso \cup {x}
          /\ \/ p.avisar = {x} /\ q.en = "libre"
             \/ q.en = "avisar" /\ q.avisar = p.avisar \ {x}
    BY <1>12, <2>1, TomarFallaDice
  <2>3. UNCHANGED <<indice, version>>
    BY <1>12 DEF TomarPaginasFalla, redis
  <2> HIDE DEF p, q
  <2>4. (i \in Pendientes(p) => i \in sinAviso' \/ i \in Pendientes(q)) /\ ~Invalida(q)
    BY <2>2 DEF Pendientes, Invalida
  <2>5. QED
    BY <1>1, <1>2, <2>2, <2>3, <2>4, AvisaFresca DEF p, q
<1>13. CASE BorrarFalla(r)
  <2>1. PICK x \in p.paginas :
          /\ SoloDe(r) /\ p.en = "invalidar" /\ BorradoFalla(x)
          /\ q.en = "invalidar" /\ q.item = p.item
          /\ q.avisar = p.avisar /\ q.paginas = p.paginas \ {x}
    BY <1>13, BorrarFallaDice
  <2>2. UNCHANGED <<indice, version, sinAviso>>
    BY <1>13, <2>1 DEF BorrarFalla, BorradoFalla, historia
  <2>3. x # g
    BY <1>3, <2>1 DEF BorradoFalla, Vacia, PaginaT
  <2> HIDE DEF p, q
  <2>4. Pendientes(p) = Pendientes(q)
    BY <2>1 DEF Pendientes, Invalida
  <2>5. Invalida(q) /\ q.item = i => g \in q.paginas
    BY <1>2, <2>1, <2>3 DEF Invalida
  <2>6. QED
    BY <1>1, <1>2, <2>1, <2>2, <2>4, <2>5, AvisaFresca DEF p, q
<1>14. CASE LimpiarFalla(r)
  <2>1. /\ SoloDe(r) /\ p.en = "limpiar" /\ q.en = "invalidar" /\ q.item = p.item
        /\ q.avisar = p.avisar /\ q.paginas = p.paginas
    BY <1>14, LimpiarDice
  <2>2. UNCHANGED <<version, sinAviso>>
    BY <1>14 DEF LimpiarFalla, historia
  <2>3. g \in indice'[i]
    BY <1>2, <1>3, <1>14, <2>1 DEF LimpiarFalla, LimpiezaFalla, LimpiarIndices, redis
  <2> HIDE DEF p, q
  <2>4. Pendientes(p) = Pendientes(q)
    BY <2>1 DEF Pendientes, Invalida
  <2>5. Invalida(q) /\ q.item = i => g \in q.paginas
    BY <1>2, <2>1 DEF Invalida
  <2>6. QED
    BY <1>1, <1>2, <2>1, <2>2, <2>3, <2>4, <2>5, AvisaFresca DEF p, q
<1>15. CASE SiguienteFalla(r)
  <2>1. Libre.en = "libre"
    BY DEF Libre
  <2>2. /\ SoloDe(r) /\ p.en = "invalidar" /\ p.paginas = {}
        /\ UNCHANGED redis \/ BorrarIndice(p.item)
        /\ \/ p.avisar = {} /\ q.en = "libre"
           \/ q.en = "avisar" /\ q.avisar = p.avisar
    BY <1>15, <2>1, SiguienteFallaDice
  <2>3. UNCHANGED <<version, sinAviso>>
    BY <1>15 DEF SiguienteFalla, historia
  <2>4. p.item # i
    BY <1>2, <2>2 DEF Invalida
  <2>5. g \in indice'[i]
    BY <1>2, <1>3, <2>2, <2>4 DEF BorrarIndice, redis
  <2> HIDE DEF p, q
  <2>6. (i \in Pendientes(p) => i \in Pendientes(q)) /\ ~Invalida(q)
    BY <2>2, <2>4 DEF Pendientes, Invalida
  <2>7. QED
    BY <1>1, <1>2, <2>2, <2>3, <2>5, <2>6, AvisaFresca DEF p, q
<1>16. QED
  BY <1>4, <1>5, <1>6, <1>7, <1>8, <1>9, <1>10, <1>11, <1>12, <1>13, <1>14, <1>15 DEF Avisa

LEMMA LimpiaPaso ==
  ASSUME Inv, NEW r \in Peticion, Avisa(r), NEW g \in Pagina, Limpia(g), pagina'[g].sola
  PROVE  Limpia(g)'
<1>1. CASE Borrar(r)
  <2>1. PICK x \in pet[r].paginas : SoloDe(r) /\ BorrarPagina(x) /\ pet'[r].pagina = x
    BY <1>1, BorrarDice
  <2>2. x # g
    BY <2>1 DEF BorrarPagina, Vacia, Inv, Cache
  <2>3. QED
    BY <2>1, <2>2 DEF Limpia, SoloDe
<1>2. CASE Avisa(r) /\ ~Borrar(r)
  <2>1. Libre.en # "limpiar"
    BY DEF Libre
  <2>2. SoloDe(r) /\ pet'[r].en # "limpiar"
    <3>1. CASE Confirmar(r) \/ CommitSinEfecto(r)
      BY <3>1, ConfirmarDice
    <3>2. CASE Cortar(r)
      BY <2>1, <3>2, AcabaDice
    <3>3. CASE TomarPaginas(r) \/ TomarPaginasFalla(r)
      BY <2>1, <3>3, TomarDice, TomarFallaDice
    <3>4. CASE TomarPrimeras(r)
      BY <3>4, PrimerasDice
    <3>5. CASE Limpiar(r) \/ LimpiarFalla(r) \/ BorrarFalla(r)
      BY <3>5, LimpiarDice, BorrarFallaDice
    <3>6. CASE Siguiente(r) \/ SiguienteFalla(r)
      BY <2>1, <3>6, SiguienteDice, SiguienteFallaDice
    <3>7. QED
      BY <1>2, <3>1, <3>2, <3>3, <3>4, <3>5, <3>6 DEF Avisa
  <2>3. QED
    BY <2>2 DEF Limpia, SoloDe
<1>3. QED
  BY <1>1, <1>2

\* A page that a listing which is alone registers.
LEMMA RegistrarFresca ==
  ASSUME Inv, Fresco, NEW r \in Peticion, NEW g \in Pagina, RegistraPagina(g, r), pagina'[g].sola
  PROVE  Limpia(g)' /\ \A i \in DOMAIN pagina'[g].muestra : (Encuentra(g, i) /\ AlDia(g, i))'
<1> DEFINE p == pet[r]
<1>1. /\ Registrar(r) /\ g = p.pagina /\ pagina'[g].muestra = pagina[g].muestra
      /\ p.sola /\ pagina[g].hay /\ p.en = "registrar"
  BY DEF RegistraPagina, Registrar
<1>2. /\ Sola(p, version, pagina) /\ \A x \in Peticion : x # r => pet[x].en = "libre"
  BY <1>1 DEF Fresco, Solas
<1>3. pagina'[g].muestra = p.vista /\ \A i \in DOMAIN p.vista : p.vista[i] = version[i]
  BY <1>1, <1>2 DEF Sola
<1>4. \A x \in Peticion : pet'[x].en = "libre"
  <2>1. pet'[r].en = "libre" /\ SoloDe(r)
    BY <1>1, AcabaDice DEF Libre
  <2>2. QED
    BY <1>2, <2>1 DEF SoloDe
<1>5. version' = version /\ \A i \in Item \cap DOMAIN p.vista : g \in indice'[i]
  BY <1>1 DEF Registrar, register_list_cache, IndexaItems, historia
<1>6. DOMAIN p.vista \subseteq Item
  <2>1. p.vista \in Numeros
    BY DEF Inv, Peticiones, PetT
  <2>2. QED
    BY <2>1 DEF Numeros
<1> HIDE DEF p
<1>7. Limpia(g)'
  BY <1>4 DEF Limpia
<1>8. ASSUME NEW i \in DOMAIN pagina'[g].muestra  PROVE (Encuentra(g, i) /\ AlDia(g, i))'
  <2>1. i \in DOMAIN p.vista /\ g \in indice'[i] /\ pagina'[g].muestra[i] = version'[i]
    BY <1>3, <1>5, <1>6
  <2>2. Encuentra(g, i)'
    BY <1>4, <2>1 DEF Encuentra, Invalida
  <2>3. AlDia(g, i)'
    BY <2>1 DEF AlDia
  <2>4. QED
    BY <2>2, <2>3
<1>9. QED
  BY <1>7, <1>8

LEMMA FrescasPaso ==
  ASSUME Inv, Fresco, [Next]_vars
  PROVE  Frescas'
<1>1. SUFFICES ASSUME NEW g \in Pagina, pagina'[g].sola
               PROVE  Limpia(g)' /\ \A i \in DOMAIN pagina'[g].muestra : (Encuentra(g, i) /\ AlDia(g, i))'
  BY DEF Frescas
<1>2. ASSUME NEW r \in Peticion, RegistraPagina(g, r)
      PROVE  Limpia(g)' /\ \A i \in DOMAIN pagina'[g].muestra : (Encuentra(g, i) /\ AlDia(g, i))'
  BY <1>1, <1>2, RegistrarFresca
<1>3. CASE pagina'[g] = pagina[g]
  <2>1. Limpia(g) /\ \A i \in DOMAIN pagina[g].muestra : Encuentra(g, i) /\ AlDia(g, i)
    BY <1>1, <1>3 DEF Fresco, Frescas
  <2>2. DOMAIN pagina[g].muestra \subseteq Item
    <3>1. pagina[g].muestra \in Numeros
      BY DEF Inv, Cache, PaginaT
    <3>2. QED
      BY <3>1 DEF Numeros
  <2>3. ASSUME NEW r \in Peticion, Avisa(r)
        PROVE  Limpia(g)' /\ \A i \in DOMAIN pagina'[g].muestra : (Encuentra(g, i) /\ AlDia(g, i))'
    <3>1. Limpia(g)'
      BY <1>1, <2>1, <2>3, LimpiaPaso
    <3>2. ASSUME NEW i \in DOMAIN pagina[g].muestra  PROVE (Encuentra(g, i) /\ AlDia(g, i))'
      BY <1>1, <1>3, <2>2, <2>3, AvisaPaso
    <3>3. QED
      BY <1>3, <3>1, <3>2
  <2>4. ASSUME Quietas, UNCHANGED <<sinAviso, version>>, IndiceCrece
        PROVE  Limpia(g)' /\ \A i \in DOMAIN pagina'[g].muestra : (Encuentra(g, i) /\ AlDia(g, i))'
    <3>1. /\ Limpia(g)'
          /\ \A i \in Item : Encuentra(g, i) /\ AlDia(g, i) => (Encuentra(g, i) /\ AlDia(g, i))'
      BY <1>3, <2>1, <2>4, QuietaFresca
    <3>2. QED
      BY <1>3, <2>1, <2>2, <3>1
  <2>5. QED
    BY <2>3, <2>4, Callan
<1>4. pagina'[g] # Vacia /\ \A r \in Peticion : ~GuardaPagina(g, r)
  BY <1>1 DEF Vacia, GuardaPagina
<1>5. QED
  BY <1>1, <1>2, <1>3, <1>4, PaginaDice DEF QuedaPagina

LEMMA FrescoSiempre == Spec => [](Inv /\ Fresco)
<1>1. Init => Inv /\ Fresco
  BY InvInicio, FrescoInicio
<1>2. Inv /\ Fresco /\ [Next]_vars => (Inv /\ Fresco)'
  BY InvPaso, NacenPaso, SolasPaso, FrescasPaso DEF Fresco
<1>3. QED
  BY <1>1, <1>2, PTL DEF Spec

-----------------------------------------------------------------------------
(* The locks: who holds a row holds every row it writes with a lower id.   *)

EnOrden ==
  \A i \in Item : \A r \in Peticion : candado[i] = r =>
    /\ pet[r].en = "flush" /\ i \in DOMAIN pet[r].nueva
    /\ \A j \in DOMAIN pet[r].nueva : j < i => candado[j] = r

\* A finite set of numbers has a last one.
LEMMA Maximo ==
  ASSUME NEW S \in SUBSET Nat, IsFiniteSet(S), S # {}
  PROVE  \E i \in S : \A j \in S : j <= i
<1> DEFINE c == Cardinality(S)
           R == {c - Puesto(S, i) : i \in S}
<1>0. \A i \in S : i \in Nat
  OBVIOUS
<1>1. /\ \A i \in S : Puesto(S, i) \in Nat /\ Puesto(S, i) <= c
      /\ \A i, k \in S : i < k => Puesto(S, i) < Puesto(S, k)
      /\ c \in Nat
  BY PuestoT
<1> HIDE DEF c
<1>2. R \in SUBSET Nat /\ R # {}
  <2>1. ASSUME NEW i \in S  PROVE c - Puesto(S, i) \in Nat
    BY <1>1
  <2>2. R \in SUBSET Nat
    BY <2>1
  <2>3. QED
    BY <2>2
<1>3. PICK n \in R : \A m \in R : n <= m
  BY <1>2, Minimo
<1>4. PICK i \in S : n = c - Puesto(S, i)
  BY <1>3
<1>5. ASSUME NEW j \in S  PROVE j <= i
  <2>1. c - Puesto(S, i) <= c - Puesto(S, j)
    BY <1>3, <1>4
  <2>2. ~(i < j)
    BY <1>1, <2>1
  <2>3. QED
    BY <1>0, <2>2
<1>6. QED
  BY <1>5

LEMMA FaltanT ==
  ASSUME Inv, NEW r \in Peticion, Faltan(r) # {}
  PROVE  /\ OrdenDeFlush(pet[r], Faltan(r)) \in Faltan(r) /\ Faltan(r) \subseteq Item
         /\ \A j \in Faltan(r) : OrdenDeFlush(pet[r], Faltan(r)) <= j
<1>1. pet[r].nueva \in Filas
  BY DEF Inv, Peticiones, PetT
<1>2. Faltan(r) \subseteq Item
  BY <1>1 DEF Faltan, Filas
<1>3. Faltan(r) \in SUBSET Nat
  BY <1>2, CacheOK
<1>4. \E i \in Faltan(r) : \A j \in Faltan(r) : i <= j
  BY <1>3, Minimo
<1>5. QED
  BY <1>2, <1>4 DEF OrdenDeFlush

LEMMA OrdenDice == Inv /\ EnOrden => SinAbrazo
<1> SUFFICES ASSUME Inv, EnOrden, NEW y \in Peticion, pet[y].en = "flush",
                    \A r \in Peticion : ~PuedeSeguir(r)
             PROVE  FALSE
  BY DEF SinAbrazo
<1> DEFINE F == {r \in Peticion : pet[r].en = "flush"}
           m(r) == OrdenDeFlush(pet[r], Faltan(r))
           M == {m(r) : r \in F}
<1>1. ASSUME NEW r \in F
      PROVE  /\ m(r) \in Faltan(r) /\ m(r) \in Item /\ \A j \in Faltan(r) : m(r) <= j
             /\ candado[m(r)] \in Peticion
  <2>1. Faltan(r) # {} /\ candado[m(r)] # Nadie
    BY DEF PuedeSeguir
  <2>2. m(r) \in Faltan(r) /\ m(r) \in Item /\ \A j \in Faltan(r) : m(r) <= j
    BY <2>1, FaltanT
  <2>3. QED
    BY <2>1, <2>2 DEF Inv, Resto
<1>2. PICK i \in M : \A j \in M : j <= i
  <2>1. y \in F
    OBVIOUS
  <2> HIDE DEF F, m
  <2>2. M \in SUBSET Item /\ M # {}
    BY <1>1, <2>1
  <2>3. IsFiniteSet(M) /\ M \in SUBSET Nat
    BY <2>2, InventarioOK, CacheOK, FS_Subset
  <2>4. QED
    BY <2>2, <2>3, Maximo
<1>3. PICK r \in F : i = m(r)
  BY <1>2
<1>4. candado[i] \in Peticion /\ i \in Item
  BY <1>1, <1>3
<1>5. PICK x \in Peticion : candado[i] = x
  BY <1>4
<1>6. /\ x \in F /\ i \in DOMAIN pet[x].nueva
      /\ \A j \in DOMAIN pet[x].nueva : j < i => candado[j] = x
  BY <1>4, <1>5 DEF EnOrden
<1>7. m(x) \in DOMAIN pet[x].nueva /\ candado[m(x)] # x /\ m(x) \in Item
  BY <1>1, <1>6 DEF Faltan
<1>8. m(x) <= i /\ i \in Nat /\ m(x) \in Nat
  BY <1>2, <1>4, <1>6, <1>7, CacheOK
<1>9. m(x) # i
  BY <1>5, <1>7
<1>10. m(x) < i
  BY <1>8, <1>9
<1>11. QED
  BY <1>6, <1>7, <1>10

LEMMA OrdenInicio == Init => EnOrden
BY InventarioOK DEF Init, EnOrden

\* A request that holds no row changes, and no lock does.
LEMMA OrdenSigue ==
  ASSUME EnOrden, UNCHANGED candado, NEW r \in Peticion, SoloDe(r), pet[r].en # "flush"
  PROVE  EnOrden'
BY DEF EnOrden, SoloDe

LEMMA OrdenPaso ==
  ASSUME Inv, EnOrden, [Next]_vars
  PROVE  EnOrden'
<1>1. ASSUME NEW r \in Peticion, NEW op \in Entradas, Pedir(r, op)  PROVE EnOrden'
  <2>1. pet[r].en = "libre" /\ UNCHANGED candado /\ \A x \in Peticion \ {r} : Desolado(pet[x], pet'[x])
    BY <1>1, PedirDice DEF tablas
  <2>2. QED
    BY <2>1 DEF EnOrden, Desolado
<1>2. ASSUME NEW r \in Peticion, NEW g \in Pagina, Listar(r, g)  PROVE EnOrden'
  <2>1. pet[r].en = "libre" /\ UNCHANGED candado /\ \A x \in Peticion \ {r} : Desolado(pet[x], pet'[x])
    BY <1>2, ListarDice DEF tablas
  <2>2. QED
    BY <2>1 DEF EnOrden, Desolado
<1>3. ASSUME NEW r \in Peticion, Actualizar(r)  PROVE EnOrden'
  <2> DEFINE i == OrdenDeFlush(pet[r], Faltan(r))
  <2>1. /\ pet[r].en = "flush" /\ Faltan(r) # {} /\ candado[i] = Nadie
        /\ candado' = [candado EXCEPT ![i] = r] /\ pet' = pet
    BY <1>3 DEF Actualizar
  <2>2. i \in Faltan(r) /\ i \in Item /\ \A j \in Faltan(r) : i <= j
    BY <2>1, FaltanT
  <2>3. /\ candado \in [Item -> Peticion \cup {Nadie}] /\ Nadie \notin Peticion
        /\ i \in DOMAIN pet[r].nueva /\ ~Alta(pet[r].op) /\ DOMAIN pet[r].nueva \subseteq Item
    <3>1. pet[r].nueva \in Filas
      BY DEF Inv, Peticiones, PetT
    <3>2. QED
      BY <2>2, <3>1, InventarioOK DEF Faltan, Inv, Resto, Filas
  <2> HIDE DEF i
  <2>4. \A j \in DOMAIN pet[r].nueva : j < i => candado[j] = r
    <3>1. ASSUME NEW j \in DOMAIN pet[r].nueva, j < i  PROVE candado[j] = r
      <4>1. j \in Nat /\ i \in Nat
        BY <2>2, <2>3, CacheOK
      <4>2. j \notin Faltan(r)
        BY <2>2, <3>1, <4>1
      <4>3. QED
        BY <2>3, <4>2 DEF Faltan
    <3>2. QED
      BY <3>1
  <2>5. ASSUME NEW k \in Item, NEW x \in Peticion, candado'[k] = x
        PROVE  /\ pet[x].en = "flush" /\ k \in DOMAIN pet[x].nueva
               /\ \A j \in DOMAIN pet[x].nueva : j < k => candado[j] = x
    <3>1. CASE k = i
      BY <2>1, <2>3, <2>4, <2>5, <3>1
    <3>2. CASE k # i
      BY <2>1, <2>3, <2>5, <3>2 DEF EnOrden
    <3>3. QED
      BY <3>1, <3>2
  <2>6. \A x \in Peticion : \A j \in Item : candado[j] = x => candado'[j] = x
    BY <2>1, <2>3
  <2>7. \A x \in Peticion : DOMAIN pet[x].nueva \subseteq Item
    <3>1. \A x \in Peticion : pet[x].nueva \in Filas
      BY DEF Inv, Peticiones, PetT
    <3>2. QED
      BY <3>1 DEF Filas
  <2>8. QED
    BY <2>1, <2>5, <2>6, <2>7 DEF EnOrden
<1>4. ASSUME NEW r \in Peticion, Confirmar(r) \/ CommitSinEfecto(r) \/ Revertir(r)  PROVE EnOrden'
  <2>1. SoloDe(r) /\ candado' = [k \in Item |-> IF candado[k] = r THEN Nadie ELSE candado[k]]
    BY <1>4, ConfirmarDice, AcabaDice DEF Confirmar, CommitSinEfecto, Revertir, Soltar
  <2>2. Nadie \notin Peticion
    BY InventarioOK
  <2>3. \A x \in Peticion : DOMAIN pet[x].nueva \subseteq Item
    <3>1. \A x \in Peticion : pet[x].nueva \in Filas
      BY DEF Inv, Peticiones, PetT
    <3>2. QED
      BY <3>1 DEF Filas
  <2>4. ASSUME NEW k \in Item, NEW x \in Peticion, candado'[k] = x
        PROVE  /\ pet'[x].en = "flush" /\ k \in DOMAIN pet'[x].nueva
               /\ \A j \in DOMAIN pet'[x].nueva : j < k => candado'[j] = x
    <3>1. candado[k] = x /\ x # r /\ pet'[x] = pet[x]
      BY <2>1, <2>2, <2>4 DEF SoloDe
    <3>2. QED
      BY <2>1, <2>3, <3>1 DEF EnOrden
  <2>5. QED
    BY <2>4 DEF EnOrden
<1>5. ASSUME NEW r \in Peticion, \/ Leer(r) \/ SubirImagen(r) \/ BorrarImagen(r) \/ TomarPaginas(r)
                                 \/ TomarPrimeras(r) \/ Borrar(r) \/ Limpiar(r) \/ Siguiente(r)
                                 \/ Guardar(r) \/ Registrar(r) \/ Cortar(r) \/ FallaRedis(r)
      PROVE  EnOrden'
  <2>1. SoloDe(r)
    BY <1>5, LeerDice, ImagenDice, TomarDice, PrimerasDice, BorrarDice, LimpiarDice, SiguienteDice, GuardarDice,
       AcabaDice, TomarFallaDice, BorrarFallaDice, SiguienteFallaDice, GuardarFallaDice DEF FallaRedis
  <2>2. pet[r].en # "flush"
    BY <1>5 DEF Leer, SubirImagen, BorrarImagen, TomarPaginas, TomarPrimeras, Borrar, Limpiar, Siguiente, Guardar,
       Registrar, Cortar, FallaRedis, TomarPaginasFalla, TomarPrimerasFalla, BorrarFalla, LimpiarFalla,
       SiguienteFalla, GuardarFalla, RegistrarFalla
  <2>3. UNCHANGED candado
    BY <1>5 DEF Leer, SubirImagen, BorrarImagen, TomarPaginas, TomarPrimeras, Borrar, Limpiar, Siguiente, Guardar,
       Registrar, Cortar, FallaRedis, TomarPaginasFalla, TomarPrimerasFalla, BorrarFalla, LimpiarFalla,
       SiguienteFalla, GuardarFalla, RegistrarFalla, tablas
  <2>4. QED
    BY <2>1, <2>2, <2>3, OrdenSigue
<1>6. Recorrer \/ (\E g \in Pagina : Expira(g)) \/ UNCHANGED vars => UNCHANGED <<candado, pet>>
  BY DEF Recorrer, Expira, vars, tablas
<1>7. UNCHANGED <<candado, pet>> => EnOrden'
  BY DEF EnOrden
<1>8. QED
  BY <1>1, <1>2, <1>3, <1>4, <1>5, <1>6, <1>7 DEF Next, Paso

LEMMA OrdenSiempre == Spec => [](Inv /\ EnOrden)
<1>1. Init => Inv /\ EnOrden
  BY InvInicio, OrdenInicio
<1>2. Inv /\ EnOrden /\ [Next]_vars => (Inv /\ EnOrden)'
  BY InvPaso, OrdenPaso
<1>3. QED
  BY <1>1, <1>2, PTL DEF Spec

-----------------------------------------------------------------------------
(* The theorems.                                                           *)

\* The types, for any tables, operations and bounds; in particular no stock is
\* ever negative, however transfers overlap.
THEOREM InventarioTipos == Spec => []TypeOK
BY InvSiempre, InvDice, PTL

\* The last state that the audit of an item tells is its row, unless the last
\* commit of the item replaced a version it had not read or its audit row was
\* lost.
THEOREM Historiales == Spec => []HistorialFiel
BY InvSiempre, InvDice, PTL

\* An object that a row names is in the bucket or was removed by a deletion,
\* whatever uploads, deletions, rollbacks and errors of S3 there were.
THEOREM Imagenes == Spec => []ImagenRespaldada
BY InvSiempre, InvDice, PTL

\* Over all the rows there is the stock that the absolute writes left, whatever
\* transfers were made, refused or rolled back, as long as no commit replaced a
\* version it had not read.
THEOREM TotalesCuadran == Spec => []TotalCuadra
BY CuadreSiempre, PTL DEF Cuadre

\* A walk with a cursor that ends has given every item that was active all
\* along and none twice, for any number of items and any limit.
THEOREM RecorridosCompletos == Spec => []RecorridoCompleto
BY CaminoSiempre, CaminoDice, PTL

\* With nothing running, a cached page that was stored alone, and of which no
\* deletion has failed, shows its items as they are, except those whose last
\* change did not invalidate their pages.
THEOREM PaginasSolas == Spec => []PaginaSolaAlDia
BY FrescoSiempre, FrescoDice, PTL

\* Row locks never stop everyone: while a request is writing, some request that
\* is writing can take its next row or commit, for any number of requests and
\* rows, because each takes its rows in the order of their ids.
THEOREM SinAbrazos == Spec => []SinAbrazo
BY OrdenSiempre, OrdenDice, PTL
=============================================================================
