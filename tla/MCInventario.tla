---------------------------- MODULE MCInventario ----------------------------
(* Instance of Inventario for TLC: two items, on a page each, or none yet;   *)
(* two requests at a time, transfers in both directions among them.         *)
EXTENDS Inventario

CONSTANTS r1, r2, k1

Tabla(a, b) ==
  LET f(n) == IF n = 0 THEN [estado |-> "no", stock |-> 0, imagen |-> Ninguna]
              ELSE [estado |-> "activo", stock |-> n, imagen |-> Ninguna]
  IN [i \in Item |-> IF i = 1 THEN f(a) ELSE f(b)]

Op(t, ids, de, n, k) == [tipo |-> t, ids |-> ids, de |-> de, n |-> n, imagen |-> k]
Todas ==
  {Op("crear", {i}, 0, 1, Ninguna) : i \in Item}
  \cup {Op("bulk_create", Item, 0, 1, Ninguna), Op("bulk_delete", {1}, 0, 0, Ninguna)}
  \cup {Op("actualizar", {2}, 0, 3, Ninguna)}
  \cup {Op(t, {2}, 0, 0, Ninguna) : t \in {"eliminar", "restaurar"}}
  \cup {Op("bulk_update", Item, 0, 0, Ninguna), Op("bulk_update", {2}, 0, 1, Ninguna)}
  \cup {Op("transferir", Item, 1, 1, Ninguna), Op("transferir_v2", Item, 2, 1, Ninguna)}
  \cup {Op("imagen", {2}, 0, 0, k1)}
DosONinguno == {Tabla(2, 1), Tabla(0, 0)}
=============================================================================
