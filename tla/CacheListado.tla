---------------------------- MODULE CacheListado ----------------------------
(***************************************************************************)
(* The cache of the listing in Redis (app/core/cache.py): the pages, what  *)
(* is registered of each so that a change of an item finds the pages that  *)
(* show it, and their expiry.  Every operator is a few consecutive        *)
(* commands to Redis; Inventario says which request runs them, and when.   *)
(* A command that raises ends its operator only: the rest of what it would *)
(* have done is left undone, and its caller goes on.                       *)
(*                                                                         *)
(* Filters are left out: a page is its number.  The set of all pages       *)
(* (ITEMS_LIST_ALL_PAGES_KEY) is left out too: nothing reads it.           *)
(***************************************************************************)
EXTENDS Naturals, FiniteSets

CONSTANTS
  Item,      \* ids of items
  TamPagina, \* page_size
  Pagina     \* numbers of the pages that are asked for

ASSUME CacheOK == Item \subseteq Nat /\ Pagina \subseteq Nat /\ TamPagina \in Nat \ {0}

VARIABLES
  pagina,  \* pagina[p]: the payload stored for page p, or Vacia
  meta,    \* meta[p]: the metadata of page p: its item_ids
  indice,  \* indice[i]: pages in which item i appeared
  primeras \* the first pages that are registered

redis == <<pagina, meta, indice, primeras>>

\* muestra[i]: version of item i the page shows; sola: a history flag, no other
\* request ran while the listing that stored the page did, and no deletion of
\* it has failed since (see Inventario).
SinMuestra == [i \in {} |-> 0]
Vacia == [hay |-> FALSE, muestra |-> SinMuestra, sola |-> FALSE]
SinMeta == [hay |-> FALSE, ids |-> {}]

InitCache ==
  /\ pagina = [p \in Pagina |-> Vacia]
  /\ meta = [p \in Pagina |-> SinMeta]
  /\ indice = [i \in Item |-> {}]
  /\ primeras = {}

\* The items of page p of the active items, in the order of their ids.
EnPagina(p, activos) ==
  {i \in activos : LET n == Cardinality({j \in activos : j < i})
                   IN (p - 1) * TamPagina <= n /\ n < p * TamPagina}

set_cache(p, muestra) ==
  /\ pagina' = [pagina EXCEPT ![p] = [hay |-> TRUE, muestra |-> muestra, sola |-> FALSE]]
  /\ UNCHANGED <<meta, indice, primeras>>

\* Mutant: a page is not indexed by its items.
SinIndice(p, ids) == UNCHANGED indice

IndexaItems(p, ids) ==
  indice' = [i \in Item |-> IF i \in ids THEN indice[i] \cup {p} ELSE indice[i]]

ConPrimera(p) == IF p = 1 THEN primeras \cup {p} ELSE primeras

register_list_cache(p, ids, sola) ==
  /\ primeras' = ConPrimera(p)
  /\ meta' = [meta EXCEPT ![p] = [hay |-> TRUE, ids |-> ids]]
  /\ IndexaItems(p, ids)
  /\ pagina' = [pagina EXCEPT ![p].sola = sola /\ pagina[p].hay]

\* It stops at a command that raises: the ids up to one of them are indexed,
\* or the metadata is not there yet, or nothing is registered at all.
RegistroFalla(p, ids) ==
  /\ UNCHANGED pagina
  /\ \/ UNCHANGED <<meta, indice, primeras>>
     \/ primeras' = ConPrimera(p) /\ UNCHANGED <<meta, indice>>
     \/ \E i \in ids : /\ primeras' = ConPrimera(p)
                       /\ meta' = [meta EXCEPT ![p] = [hay |-> TRUE, ids |-> ids]]
                       /\ IndexaItems(p, {j \in ids : j < i})

\* invalidate_list_page: it reads the metadata and deletes both keys...
BorrarPagina(p) ==
  /\ pagina' = [pagina EXCEPT ![p] = Vacia]
  /\ meta' = [meta EXCEPT ![p] = SinMeta]
  /\ UNCHANGED <<indice, primeras>>

\* ... and _cleanup_list_indexes with the metadata that was read, which is
\* empty if there was none.
LimpiarIndices(p, leida) ==
  /\ primeras' = IF p = 1 /\ leida.hay THEN primeras \ {p} ELSE primeras
  /\ indice' = [i \in Item |-> IF i \in leida.ids THEN indice[i] \ {p} ELSE indice[i]]
  /\ UNCHANGED <<pagina, meta>>

\* invalidate_list_page swallows an error: nothing is deleted, or only the
\* payload, and the indexes are not cleaned.
BorradoFalla(p) ==
  /\ pagina' \in {[pagina EXCEPT ![p].sola = FALSE], [pagina EXCEPT ![p] = Vacia]}
  /\ UNCHANGED <<meta, indice, primeras>>

\* So does _cleanup_list_indexes: the ids up to one of them are cleaned.
LimpiezaFalla(p, leida) ==
  \/ UNCHANGED redis
  \/ \E i \in leida.ids : LimpiarIndices(p, [leida EXCEPT !.ids = {j \in @ : j < i}])

BorrarIndice(i) ==
  /\ indice' = [indice EXCEPT ![i] = {}]
  /\ UNCHANGED <<pagina, meta, primeras>>

\* setex gave the page CACHE_TTL_LIST_SECONDS, and its metadata the same.
ExpiraPagina(p) ==
  /\ pagina[p].hay
  /\ pagina' = [pagina EXCEPT ![p] = Vacia]
  /\ UNCHANGED <<meta, indice, primeras>>

ExpiraMeta(p) ==
  /\ meta[p].hay
  /\ meta' = [meta EXCEPT ![p] = SinMeta]
  /\ UNCHANGED <<pagina, indice, primeras>>

CacheTypeOK ==
  /\ \A p \in Pagina : /\ pagina[p].hay \in BOOLEAN /\ pagina[p].sola \in BOOLEAN
                       /\ DOMAIN pagina[p].muestra \subseteq Item
                       /\ meta[p].hay \in BOOLEAN /\ meta[p].ids \subseteq Item
  /\ indice \in [Item -> SUBSET Pagina]
  /\ primeras \subseteq Pagina
=============================================================================
