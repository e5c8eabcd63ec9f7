-------------------------- MODULE ItemsCqrsProofs ---------------------------
(***************************************************************************)
(* Safety of the read model for any items, requests, queries and faults:   *)
(* what the projection shows of each item, against its row, its log, the   *)
(* committed offset and the operations that clients see completed.         *)
(***************************************************************************)
EXTENDS ItemsCqrs, TLAPS

-----------------------------------------------------------------------------
(* The inductive invariant.                                                *)

PetT == [en: {"libre", "refrescar", "publicar"}, tipo: TipoOp, item: Item \cup {0}, foto: Foto,
         op: {SinOp} \cup Operacion, sola: BOOLEAN]

Tablas ==
  /\ fila \in [Item -> Foto]
  /\ \A i \in Item : fila[i].v <= escrituras + 1
  /\ escrituras \in 0..MaxEscrituras /\ fallos \in 0..MaxFallos
  /\ operacion \in [Operacion -> {"no", "pending", "completed", "failed"}]
  /\ DOMAIN cache = Clave /\ DOMAIN lector = Lector
  /\ desviado \subseteq Item /\ perdidas \subseteq Operacion

Posiciones ==
  /\ log \in [Item -> Seq(Evento)] /\ proy \in [Item -> Evento]
  /\ leido \in [Item -> Nat] /\ confirmado \in [Item -> Nat]
  /\ saltados \in [Item -> SUBSET Nat]
  /\ \A i \in Item : /\ confirmado[i] <= leido[i] /\ leido[i] <= Len(log[i])
                     /\ saltados[i] \subseteq 1..Len(log[i])

\* A request works on an item, with an operation that was drawn; what it is
\* going to publish is the row, if no other request has written it since.
PetOK(r) ==
  /\ pet[r].en # "libre" => pet[r].item \in Item /\ pet[r].op <= escrituras
  /\ pet[r].en = "publicar" /\ pet[r].sola => pet[r].foto = fila[pet[r].item]
Peticiones == pet \in [Peticion -> PetT] /\ \A r \in Peticion : PetOK(r)

\* The event in hand is pending, and has been projected or has failed.
EnMano ==
  /\ consumidor.en \in {"espera", "completar", "fallar"}
  /\ consumidor.en # "espera" => consumidor.item \in Item /\ Pendiente(consumidor.item)
  /\ consumidor.en = "completar" => proy[consumidor.item] = EventoDe(consumidor.item)
  /\ consumidor.en = "fallar" => leido[consumidor.item] + 1 \in saltados[consumidor.item]

\* PrefijoAplicado up to the events that were handled, not only committed.
Muestra(i) ==
  \E n \in 0..Len(log[i]) : proy[i] = Tras(i, n) /\ (n + 1)..leido[i] \subseteq saltados[i]

\* The last event of an item that is not in desviado is its row.
UltimoEsFila == \A i \in Item \ desviado : Tras(i, Len(log[i])).foto = fila[i]

\* An operation belongs to one event at most, or to one request.
OperacionUnica ==
  /\ \A i, j \in Item : \A k \in 1..Len(log[i]), m \in 1..Len(log[j]) :
       log[i][k].op # SinOp /\ log[i][k].op = log[j][m].op => i = j /\ k = m
  /\ \A i \in Item : \A k \in 1..Len(log[i]) :
       /\ log[i][k].op <= escrituras
       /\ \A r \in Peticion : pet[r].en # "libre" /\ pet[r].op # SinOp => pet[r].op # log[i][k].op
  /\ \A r, s \in Peticion :
       pet[r].en # "libre" /\ pet[s].en # "libre" /\ pet[r].op # SinOp /\ pet[r].op = pet[s].op
         => r = s

Inv ==
  /\ Tablas /\ Posiciones /\ Peticiones /\ EnMano
  /\ \A i \in Item : Muestra(i)
  /\ UltimoEsFila /\ OperacionUnica /\ CompletadaVisible

-----------------------------------------------------------------------------
(* The proof.                                                              *)

USE CqrsOK

LEMMA DaTypeOK ==
  ASSUME Inv
  PROVE  TypeOK
BY DEF Inv, Tablas, Posiciones, Peticiones, EnMano, PetT, TypeOK

LEMMA DaPrefijo ==
  ASSUME Inv
  PROVE  PrefijoAplicado
<1> SUFFICES ASSUME NEW i \in Item
             PROVE  \E n \in 0..Len(log[i]) : /\ proy[i] = Tras(i, n)
                                               /\ (n + 1)..confirmado[i] \subseteq saltados[i]
  BY DEF PrefijoAplicado
<1>1. PICK n \in 0..Len(log[i]) : proy[i] = Tras(i, n) /\ (n + 1)..leido[i] \subseteq saltados[i]
  BY DEF Inv, Muestra
<1>2. (n + 1)..confirmado[i] \subseteq (n + 1)..leido[i]
  BY DEF Inv, Posiciones
<1>3. QED
  BY <1>1, <1>2

LEMMA DaProyeccion ==
  ASSUME Inv
  PROVE  ProyeccionAlDia
<1> SUFFICES ASSUME NEW i \in Item \ desviado, leido[i] = Len(log[i]), Len(log[i]) \notin saltados[i]
             PROVE  proy[i].foto = fila[i]
  BY DEF ProyeccionAlDia
<1>1. PICK n \in 0..Len(log[i]) : proy[i] = Tras(i, n) /\ (n + 1)..leido[i] \subseteq saltados[i]
  BY DEF Inv, Muestra
<1>2. n = Len(log[i])
  BY <1>1 DEF Inv, Posiciones
<1>3. QED
  BY <1>1, <1>2 DEF Inv, UltimoEsFila

LEMMA Inicio == Init => Inv
<1> SUFFICES ASSUME Init  PROVE Inv
  OBVIOUS
<1>1. /\ NoHay \in Foto /\ SinEvento \in Evento /\ Creado \in Evento
      /\ SinEvento.foto = NoHay /\ NoHay.v = 0 /\ Creado.foto.v = 1 /\ Creado.op = SinOp
  <2>1. NoHay \in Foto /\ NoHay.v = 0
    BY DEF NoHay, Foto
  <2>2. SinEvento \in Evento /\ SinEvento.foto = NoHay
    BY <2>1 DEF SinEvento, Evento
  <2>3. [NoHay EXCEPT !.v = 1] \in Foto /\ [NoHay EXCEPT !.v = 1].v = 1
    BY <2>1 DEF Foto
  <2>4. Creado = [SinEvento EXCEPT !.foto = [NoHay EXCEPT !.v = 1]]
    BY <2>2 DEF Creado
  <2>5. Creado \in Evento /\ Creado.foto.v = 1 /\ Creado.op = SinOp
    BY <2>2, <2>3, <2>4 DEF Evento, SinEvento
  <2>6. QED
    BY <2>1, <2>2, <2>5
<1>2. Libre \in PetT /\ Libre.en = "libre"
  BY <1>1 DEF Libre, PetT, TipoOp, ConEvento, Comando
<1>3. ASSUME NEW i \in Item
      PROVE  /\ proy[i] \in Evento /\ fila[i] = proy[i].foto /\ fila[i] \in Foto /\ fila[i].v <= 1
             /\ log[i] \in Seq(Evento) /\ leido[i] = Len(log[i]) /\ confirmado[i] = leido[i]
             /\ proy[i] = Tras(i, Len(log[i]))
             /\ \A k \in 1..Len(log[i]) : log[i][k].op = SinOp
             /\ saltados[i] = {}
  <2>1. CASE i \in Creados
    <3>1. proy[i] = Creado /\ log[i] = <<Creado>> /\ i \in Item
      BY <2>1 DEF Init
    <3>2. Len(log[i]) = 1 /\ log[i][1] = Creado /\ log[i] \in Seq(Evento) /\ leido[i] = 1
          /\ confirmado[i] = 1 /\ fila[i] = proy[i].foto /\ saltados[i] = {}
      BY <1>1, <3>1 DEF Init
    <3>3. QED
      BY <1>1, <3>1, <3>2 DEF Tras, Evento
  <2>2. CASE i \notin Creados
    <3>1. proy[i] = SinEvento /\ log[i] = <<>>
      BY <2>2 DEF Init
    <3>2. QED
      BY <1>1, <3>1 DEF Init, Tras, Evento
  <2>3. QED
    BY <2>1, <2>2
<1>4. Tablas
  BY <1>3 DEF Init, Tablas
<1>5. Posiciones
  BY <1>3 DEF Init, Posiciones
<1>6. Peticiones /\ EnMano
  BY <1>2 DEF Init, Peticiones, PetOK, EnMano, EnEspera
<1>7. \A i \in Item : Muestra(i)
  BY <1>3, <1>5 DEF Muestra, Posiciones
<1>8. UltimoEsFila
  BY <1>3 DEF UltimoEsFila
<1>9. OperacionUnica
  BY <1>2, <1>3 DEF Init, OperacionUnica, SinOp
<1>10. CompletadaVisible
  BY <1>3 DEF Init, CompletadaVisible
<1>11. QED
  BY <1>4, <1>5, <1>6, <1>7, <1>8, <1>9, <1>10 DEF Inv

\* The parts that a step leaves true when it does not touch what they are about.
LEMMA Marco ==
  ASSUME Inv
  PROVE  /\ UNCHANGED <<log, proy, leido, confirmado, saltados>> => Posiciones'
         /\ UNCHANGED <<consumidor, log, leido, proy, saltados>> => EnMano'
         /\ UNCHANGED <<log, proy, leido, saltados>> => \A i \in Item : Muestra(i)'
         /\ UNCHANGED <<log, fila, desviado>> => UltimoEsFila'
         /\ UNCHANGED <<pet, fila, escrituras>> => Peticiones'
         /\ UNCHANGED <<log, escrituras, pet>> => OperacionUnica'
         /\ UNCHANGED <<log, leido, proy, operacion>> /\ perdidas \subseteq perdidas' => CompletadaVisible'
<1>1. UNCHANGED <<log, proy, leido, confirmado, saltados>> => Posiciones'
  BY DEF Inv, Posiciones
<1>2. UNCHANGED <<consumidor, log, leido, proy, saltados>> => EnMano'
  BY DEF Inv, EnMano, Pendiente, EventoDe
<1>3. UNCHANGED <<log, proy, leido, saltados>> => \A i \in Item : Muestra(i)'
  BY DEF Inv, Muestra, Tras
<1>4. UNCHANGED <<log, fila, desviado>> => UltimoEsFila'
  BY DEF Inv, UltimoEsFila, Tras
<1>5. UNCHANGED <<pet, fila, escrituras>> => Peticiones'
  BY DEF Inv, Peticiones, PetOK
<1>6. UNCHANGED <<log, escrituras, pet>> => OperacionUnica'
  BY DEF Inv, OperacionUnica
<1>7. UNCHANGED <<log, leido, proy, operacion>> /\ perdidas \subseteq perdidas' => CompletadaVisible'
  BY DEF Inv, CompletadaVisible, Tras, obtener_operacion
<1>8. QED
  BY <1>1, <1>2, <1>3, <1>4, <1>5, <1>6, <1>7

LEMMA EventoT ==
  ASSUME Inv, NEW i \in Item, NEW k \in 1..Len(log[i])
  PROVE  log[i][k] \in Evento
<1>1. log[i] \in Seq(Evento)
  BY DEF Inv, Posiciones
<1>2. QED
  BY <1>1

LEMMA FallaT ==
  ASSUME Inv, Falla
  PROVE  fallos' \in 0..MaxFallos
BY DEF Inv, Tablas, Falla

-----------------------------------------------------------------------------
(* The queries, and what expires.                                          *)

LEMMA PasoConsulta ==
  ASSUME Inv,
         \/ \E q \in Lector : (\E k \in Clave : Consultar(q, k)) \/ Guardar(q)
         \/ \E k \in Clave : Expira(k)
  PROVE  Inv'
<1>1. /\ fila' = fila /\ pet' = pet /\ UNCHANGED kafka /\ proy' = proy /\ operacion' = operacion
      /\ escrituras' = escrituras /\ UNCHANGED historia
      /\ DOMAIN cache' = Clave /\ DOMAIN lector' = Lector
      /\ fallos' \in 0..MaxFallos
  BY FallaT DEF Consultar, Guardar, Expira, Inv, Tablas
<1>2. Tablas'
  BY <1>1 DEF Inv, Tablas, historia
<1>3. QED
  BY <1>1, <1>2, Marco DEF Inv, kafka, historia

LEMMA PasoExpiraOperacion ==
  ASSUME Inv, NEW o \in Operacion, ExpiraOperacion(o)
  PROVE  Inv'
<1>1. UNCHANGED <<fila, pet, kafka, proy, lectura, escrituras, fallos, historia>>
  BY DEF ExpiraOperacion
<1>2. Tablas'
  BY <1>1 DEF Inv, Tablas, historia, lectura, ExpiraOperacion
<1>3. CompletadaVisible'
  BY <1>1 DEF Inv, Tablas, CompletadaVisible, Tras, obtener_operacion, ExpiraOperacion, kafka, historia
<1>4. QED
  BY <1>1, <1>2, <1>3, Marco DEF Inv, kafka, historia

-----------------------------------------------------------------------------
(* The requests.                                                           *)

LEMMA PasoPerder ==
  ASSUME Inv, NEW r \in Peticion, Perder(r)
  PROVE  Inv'
<1>1. UNCHANGED <<fila, kafka, proy, operacion, lectura, escrituras, historia>>
  BY DEF Perder
<1>2. pet' = [pet EXCEPT ![r] = Libre] /\ Libre.en = "libre" /\ Libre \in PetT
  <2>1. NoHay \in Foto
    BY DEF NoHay, Foto
  <2>2. QED
    BY <2>1 DEF Perder, Fin, Libre, PetT, TipoOp, ConEvento, Comando
<1>3. Tablas'
  BY <1>1, FallaT DEF Inv, Tablas, Perder, lectura, historia
<1>4. Peticiones'
  BY <1>1, <1>2 DEF Inv, Peticiones, PetOK
<1>5. OperacionUnica'
  <2>1. \A x \in Peticion : pet'[x].en # "libre" => pet'[x] = pet[x] /\ pet[x].en # "libre"
    BY <1>2 DEF Inv, Peticiones
  <2>2. QED
    BY <1>1, <2>1 DEF Inv, OperacionUnica, kafka
<1>6. QED
  BY <1>1, <1>3, <1>4, <1>5, Marco DEF Inv, kafka, historia

LEMMA PasoEscribir ==
  ASSUME Inv, NEW r \in Peticion, NEW tipo \in TipoOp, NEW i \in Item, Escribir(r, tipo, i)
  PROVE  Inv'
<1> DEFINE op == IF tipo \in Comando THEN escrituras + 1 ELSE SinOp
           x == IF tipo = "v1_sin_evento" THEN Libre
                ELSE [Libre EXCEPT !.en = "refrescar", !.tipo = tipo, !.item = i, !.op = op]
           f == [v |-> fila[i].v + 1, eliminado |-> Borrado(tipo, fila[i])]
<1>1. /\ UNCHANGED <<kafka, proy, operacion, lectura, fallos, saltados, perdidas>>
      /\ escrituras' = escrituras + 1 /\ escrituras < MaxEscrituras
      /\ desviado' = desviado \cup {i}
      /\ fila' = [fila EXCEPT ![i] = f]
      /\ pet[r].en = "libre"
      /\ pet' = [y \in Peticion |-> IF y = r THEN x
                                    ELSE IF pet[y].item = i THEN [pet[y] EXCEPT !.sola = FALSE]
                                    ELSE pet[y]]
  BY DEF Escribir
<1>2. f \in Foto /\ f.v = fila[i].v + 1
  <2>1. fila[i] \in Foto /\ fila[i].v <= escrituras + 1 /\ escrituras \in Nat
    BY DEF Inv, Tablas
  <2>2. fila[i].v + 1 \in 0..MaxEscrituras + 1 /\ fila[i].eliminado \in BOOLEAN
    BY <1>1, <2>1 DEF Foto
  <2>3. Borrado(tipo, fila[i]) \in BOOLEAN
    BY <2>2 DEF Borrado
  <2>4. QED
    BY <2>2, <2>3 DEF Foto
<1>3. /\ x \in PetT /\ x.en \in {"libre", "refrescar"}
      /\ x.en # "libre" => x.item = i /\ x.op = op
  <2>1. Libre \in PetT /\ Libre.en = "libre"
    BY DEF Libre, PetT, TipoOp, ConEvento, Comando, NoHay, Foto
  <2>2. op \in {SinOp} \cup Operacion
    BY <1>1 DEF Inv, Tablas, Operacion
  <2> HIDE DEF op
  <2>3. QED
    BY <2>1, <2>2 DEF PetT
<1>4. op \in {SinOp, escrituras + 1}
  OBVIOUS
<1> HIDE DEF f, x, op
<1>5. ASSUME NEW y \in Peticion, y # r
      PROVE  /\ pet'[y] \in PetT /\ pet'[y].en = pet[y].en /\ pet'[y].op = pet[y].op
             /\ pet'[y].item = pet[y].item /\ pet'[y].foto = pet[y].foto
             /\ pet'[y].sola => pet[y].sola /\ pet[y].item # i
  BY <1>1, <1>5, ZenonT(40) DEF Inv, Peticiones, PetT
<1>6. pet'[r] = x
  BY <1>1
<1>7. Tablas'
  <2>1. fila' \in [Item -> Foto]
    BY <1>1, <1>2 DEF Inv, Tablas
  <2>2. \A j \in Item : fila'[j].v <= escrituras' + 1
    BY <1>1, <1>2 DEF Inv, Tablas, Foto
  <2>3. QED
    BY <1>1, <2>1, <2>2 DEF Inv, Tablas, lectura
<1>8. Peticiones'
  <2>1. \A y \in Peticion : pet'[y] \in PetT
    BY <1>3, <1>5, <1>6
  <2>2. pet' \in [Peticion -> PetT]
    BY <1>1, <2>1
  <2>3. PetOK(r)'
    BY <1>1, <1>3, <1>4, <1>6 DEF PetOK, Inv, Tablas, SinOp
  <2>4. ASSUME NEW y \in Peticion, y # r  PROVE PetOK(y)'
    <3>1. PetOK(y)
      BY DEF Inv, Peticiones
    <3>2. pet[y].op <= escrituras => pet[y].op <= escrituras'
      BY <1>1 DEF Inv, Tablas, Peticiones, PetT, SinOp, Operacion
    <3>3. pet[y].item # i => fila'[pet[y].item] = fila[pet[y].item]
      BY <1>1 DEF Inv, Tablas
    <3>4. QED
      BY <1>5, <2>4, <3>1, <3>2, <3>3 DEF PetOK
  <2>5. QED
    BY <2>2, <2>3, <2>4 DEF Peticiones
<1>9. UltimoEsFila'
  BY <1>1 DEF Inv, UltimoEsFila, Tras, Tablas, kafka
<1>10. OperacionUnica'
  <2>1. \A j \in Item : \A k \in 1..Len(log[j]) : log[j][k].op \in Nat
    BY EventoT DEF Inv, Evento, Operacion, SinOp
  <2>2. \A j \in Item : \A k \in 1..Len(log[j]) : log[j][k].op <= escrituras' /\ log[j][k].op # escrituras + 1
    BY <1>1, <2>1 DEF Inv, OperacionUnica, Tablas
  <2>3. \A y \in Peticion : pet[y].en # "libre" => pet[y].op # escrituras + 1
    BY DEF Inv, Peticiones, PetOK, PetT, Tablas, Operacion, SinOp
  <2>4. \A y \in Peticion \ {r} : pet'[y].en = pet[y].en /\ pet'[y].op = pet[y].op
    BY <1>5
  <2>5. pet'[r].en # "libre" /\ pet'[r].op # SinOp => pet'[r].op = escrituras + 1
    BY <1>3, <1>4, <1>6
  <2>6. log' = log
    BY <1>1 DEF kafka
  <2>7. QED
    BY <2>2, <2>3, <2>4, <2>5, <2>6 DEF Inv, OperacionUnica
<1>11. QED
  BY <1>1, <1>7, <1>8, <1>9, <1>10, Marco DEF Inv, kafka

LEMMA PasoRefrescar ==
  ASSUME Inv, NEW r \in Peticion, Refrescar(r)
  PROVE  Inv'
<1> DEFINE i == pet[r].item
           x == [pet[r] EXCEPT !.en = "publicar", !.foto = fila[i]]
<1>1. /\ fila' = fila /\ UNCHANGED kafka /\ proy' = proy /\ UNCHANGED lectura
      /\ escrituras' = escrituras /\ desviado' = desviado /\ saltados' = saltados
      /\ perdidas \subseteq perdidas' /\ fallos' \in 0..MaxFallos
      /\ pet[r].en = "refrescar"
  BY FallaT DEF Refrescar, Inv, Tablas
<1>2. pet[r] \in PetT /\ i \in Item /\ pet[r].op <= escrituras /\ pet \in [Peticion -> PetT]
  BY <1>1 DEF Inv, Peticiones, PetOK
<1>3. pet' = [pet EXCEPT ![r] = x]
  BY <1>2 DEF Refrescar, refresh
<1>4. x \in PetT /\ x.en = "publicar" /\ x.foto = fila[i] /\ x.item = i /\ x.op = pet[r].op
  BY <1>2 DEF PetT, Inv, Tablas
<1> HIDE DEF x
<1>5. /\ perdidas' \subseteq Operacion
      /\ operacion' \in [Operacion -> {"no", "pending", "completed", "failed"}]
      /\ \A o \in Operacion : operacion'[o] = "completed" => operacion[o] = "completed"
  <2>1. perdidas' \subseteq Operacion
    BY <1>2 DEF Refrescar, Inv, Tablas, PetT
  <2>2. CASE operacion' = operacion
    BY <2>1, <2>2 DEF Inv, Tablas
  <2>3. CASE operacion' = [o \in Operacion |-> IF o = pet[r].op THEN "pending" ELSE operacion[o]]
    BY <2>1, <2>3 DEF Inv, Tablas
  <2>4. QED
    BY <2>2, <2>3 DEF Refrescar
<1>6. Tablas'
  BY <1>1, <1>5 DEF Inv, Tablas, lectura
<1>7. Peticiones'
  <2>1. ASSUME NEW y \in Peticion  PROVE PetOK(y)'
    BY <1>1, <1>2, <1>3, <1>4 DEF Inv, Peticiones, PetOK
  <2>2. QED
    BY <1>2, <1>3, <1>4, <2>1 DEF Peticiones
<1>8. OperacionUnica'
  <2>1. \A y \in Peticion : pet'[y].op = pet[y].op /\ (pet'[y].en # "libre" => pet[y].en # "libre")
    BY <1>1, <1>2, <1>3, <1>4
  <2>2. QED
    BY <1>1, <2>1 DEF Inv, OperacionUnica, kafka
<1>9. CompletadaVisible'
  <2>1. \A j \in Item : \A k \in 1..leido[j] : log[j][k].op # SinOp => log[j][k].op \in Operacion
    <3>1. ASSUME NEW j \in Item, NEW k \in 1..leido[j]  PROVE log[j][k] \in Evento
      BY EventoT DEF Inv, Posiciones
    <3>2. QED
      BY <3>1 DEF Evento
  <2>2. QED
    BY <1>1, <1>5, <2>1 DEF Inv, CompletadaVisible, Tras, obtener_operacion, kafka
<1>10. QED
  BY <1>1, <1>6, <1>7, <1>8, <1>9, Marco DEF Inv, kafka

LEMMA PasoPublicar ==
  ASSUME Inv, NEW r \in Peticion, Publicar(r)
  PROVE  Inv'
<1> DEFINE p == pet[r]
           e == [foto |-> p.foto, completo |-> p.tipo # "v1_eliminar", op |-> p.op]
<1>1. /\ UNCHANGED <<fila, leido, confirmado, consumidor, proy, operacion, lectura, escrituras,
                     fallos, saltados, perdidas>>
      /\ p.en = "publicar" /\ log' = [log EXCEPT ![p.item] = Append(@, e)]
      /\ desviado' = IF e.completo /\ p.sola THEN desviado \ {p.item} ELSE desviado \cup {p.item}
      /\ pet' = [pet EXCEPT ![r] = Libre]
  BY DEF Publicar, Fin
<1>2. /\ pet \in [Peticion -> PetT] /\ p \in PetT /\ p.item \in Item /\ p.op <= escrituras
      /\ p.sola => p.foto = fila[p.item]
  BY <1>1 DEF Inv, Peticiones, PetOK
<1>3. e \in Evento /\ e.op = p.op /\ e.foto = p.foto
  BY <1>2 DEF PetT, Evento
<1> HIDE DEF e
<1>4. Libre \in PetT /\ Libre.en = "libre"
  BY DEF Libre, PetT, TipoOp, ConEvento, Comando, NoHay, Foto
<1>5. log \in [Item -> Seq(Evento)] /\ log' \in [Item -> Seq(Evento)]
  BY <1>1, <1>2, <1>3 DEF Inv, Posiciones
<1>6. ASSUME NEW j \in Item
      PROVE  /\ Len(log[j]) \in Nat /\ Len(log[j]) <= Len(log'[j])
             /\ \A k \in 1..Len(log[j]) : log'[j][k] = log[j][k]
             /\ j # p.item => log'[j] = log[j]
             /\ j = p.item => Len(log'[j]) = Len(log[j]) + 1 /\ log'[j][Len(log[j]) + 1] = e
  BY <1>1, <1>2, <1>3, <1>5
<1>7. ASSUME NEW j \in Item, NEW n \in 0..Len(log[j])  PROVE Tras(j, n)' = Tras(j, n)
  BY <1>6 DEF Tras
<1>8. Tablas'
  BY <1>1, <1>2 DEF Inv, Tablas, lectura
<1>9. Posiciones'
  <2>1. ASSUME NEW j \in Item
        PROVE  leido[j] <= Len(log'[j]) /\ saltados[j] \subseteq 1..Len(log'[j])
    BY <1>5, <1>6 DEF Inv, Posiciones
  <2>2. QED
    BY <1>1, <1>5, <2>1 DEF Inv, Posiciones
<1>10. Peticiones'
  BY <1>1, <1>2, <1>4 DEF Inv, Peticiones, PetOK
<1>11. EnMano'
  <2>1. ASSUME NEW j \in Item, Pendiente(j)  PROVE Pendiente(j)' /\ EventoDe(j)' = EventoDe(j)
    <3>1. leido[j] \in Nat /\ leido[j] < Len(log[j]) /\ leido'[j] = leido[j]
      BY <1>1, <2>1 DEF Inv, Posiciones, Pendiente
    <3>2. leido[j] + 1 \in 1..Len(log[j]) /\ Len(log'[j]) \in Nat
      BY <1>5, <1>6, <3>1
    <3>3. leido'[j] < Len(log'[j])
      BY <1>6, <3>1, <3>2
    <3>4. log'[j][leido[j] + 1] = log[j][leido[j] + 1]
      BY <1>6, <3>2
    <3>5. QED
      BY <3>1, <3>3, <3>4 DEF Pendiente, EventoDe
  <2>2. QED
    BY <1>1, <2>1 DEF Inv, EnMano
<1>12. ASSUME NEW j \in Item  PROVE Muestra(j)'
  <2>1. PICK n \in 0..Len(log[j]) : proy[j] = Tras(j, n) /\ (n + 1)..leido[j] \subseteq saltados[j]
    BY DEF Inv, Muestra
  <2>2. n \in 0..Len(log'[j]) /\ proy'[j] = Tras(j, n)'
    BY <1>1, <1>5, <1>6, <1>7, <2>1
  <2>3. QED
    BY <1>1, <2>1, <2>2 DEF Muestra
<1>13. UltimoEsFila'
  <2> SUFFICES ASSUME NEW j \in Item, j \notin desviado'
               PROVE  Tras(j, Len(log[j]))'.foto = fila'[j]
    BY DEF UltimoEsFila
  <2>1. CASE j = p.item
    <3>1. p.sola /\ Tras(j, Len(log[j]))' = e
      BY <1>1, <1>5, <1>6, <2>1 DEF Tras
    <3>2. QED
      BY <1>1, <1>2, <1>3, <2>1, <3>1
  <2>2. CASE j # p.item
    <3>1. j \notin desviado /\ log'[j] = log[j]
      BY <1>1, <1>6, <2>2
    <3>2. QED
      BY <1>1, <3>1 DEF Inv, UltimoEsFila, Tras
  <2>3. QED
    BY <2>1, <2>2
<1>14. OperacionUnica'
  <2>1. \A y \in Peticion : pet'[y].en # "libre" => y # r /\ pet'[y] = pet[y]
    BY <1>1, <1>2, <1>4
  <2>2. ASSUME NEW j \in Item, NEW k \in 1..Len(log'[j])
        PROVE  \/ k \in 1..Len(log[j]) /\ log'[j][k] = log[j][k]
               \/ j = p.item /\ k = Len(log[j]) + 1 /\ log'[j][k].op = p.op
    BY <1>3, <1>6
  <2>3. \A j \in Item : \A k \in 1..Len(log[j]) : p.op # SinOp => log[j][k].op # p.op
    BY <1>1 DEF Inv, OperacionUnica
  <2>4. \A y \in Peticion : y # r /\ pet[y].en # "libre" /\ pet[y].op # SinOp => pet[y].op # p.op
    BY <1>1 DEF Inv, OperacionUnica
  <2>5. ASSUME NEW j \in Item, NEW m \in Item, NEW k \in 1..Len(log'[j]), NEW l \in 1..Len(log'[m]),
               log'[j][k].op # SinOp, log'[j][k].op = log'[m][l].op
        PROVE  j = m /\ k = l
    <3>1. CASE k \in 1..Len(log[j]) /\ l \in 1..Len(log[m])
      <4>1. log'[j][k] = log[j][k] /\ log'[m][l] = log[m][l]
        BY <1>6, <3>1
      <4>2. QED
        BY <2>5, <3>1, <4>1 DEF Inv, OperacionUnica
    <3>2. CASE k \in 1..Len(log[j]) /\ l \notin 1..Len(log[m])
      <4>1. log'[j][k] = log[j][k]
        BY <1>6, <3>2
      <4>2. log'[m][l].op = p.op
        BY <2>2, <3>2
      <4>3. QED
        BY <2>3, <2>5, <3>2, <4>1, <4>2
    <3>3. CASE k \notin 1..Len(log[j]) /\ l \in 1..Len(log[m])
      <4>1. log'[m][l] = log[m][l]
        BY <1>6, <3>3
      <4>2. log'[j][k].op = p.op
        BY <2>2, <3>3
      <4>3. QED
        BY <2>3, <2>5, <3>3, <4>1, <4>2
    <3>4. CASE k \notin 1..Len(log[j]) /\ l \notin 1..Len(log[m])
      <4>1. j = p.item /\ k = Len(log[j]) + 1
        BY <2>2, <3>4
      <4>2. m = p.item /\ l = Len(log[m]) + 1
        BY <2>2, <3>4
      <4>3. QED
        BY <4>1, <4>2
    <3>5. QED
      BY <3>1, <3>2, <3>3, <3>4
  <2>6. ASSUME NEW j \in Item, NEW k \in 1..Len(log'[j])
        PROVE  /\ log'[j][k].op <= escrituras'
               /\ \A y \in Peticion : pet'[y].en # "libre" /\ pet'[y].op # SinOp
                                        => pet'[y].op # log'[j][k].op
    BY <1>1, <1>2, <2>1, <2>2, <2>4 DEF Inv, OperacionUnica
  <2>7. \A y, z \in Peticion :
          pet'[y].en # "libre" /\ pet'[z].en # "libre" /\ pet'[y].op # SinOp /\ pet'[y].op = pet'[z].op
            => y = z
    BY <2>1 DEF Inv, OperacionUnica
  <2>8. QED
    BY <2>5, <2>6, <2>7 DEF OperacionUnica
<1>15. CompletadaVisible'
  <2> SUFFICES ASSUME NEW j \in Item, NEW k \in 1..leido[j], log'[j][k].op # SinOp,
                      log'[j][k].op \notin perdidas, operacion[log'[j][k].op] = "completed"
               PROVE  \E n \in k..Len(log'[j]) : proy[j] = Tras(j, n)'
    BY <1>1, ZenonT(40) DEF CompletadaVisible, obtener_operacion
  <2>1. k \in 1..Len(log[j]) /\ log'[j][k] = log[j][k]
    BY <1>6 DEF Inv, Posiciones
  <2>2. PICK n \in k..Len(log[j]) : proy[j] = Tras(j, n)
    BY <2>1 DEF Inv, CompletadaVisible, obtener_operacion
  <2>3. n \in k..Len(log'[j]) /\ Tras(j, n)' = Tras(j, n)
    BY <1>5, <1>6, <1>7, <2>1, <2>2
  <2>4. QED
    BY <2>2, <2>3
<1>16. QED
  BY <1>8, <1>9, <1>10, <1>11, <1>12, <1>13, <1>14, <1>15 DEF Inv
-----------------------------------------------------------------------------
(* The consumer.                                                           *)

LEMMA PasoProyectar ==
  ASSUME Inv, NEW i \in Item, Proyectar(i)
  PROVE  Inv'
<1>1. /\ UNCHANGED <<fila, pet, log, leido, confirmado, operacion, lectura, escrituras, desviado,
                     perdidas>>
      /\ fallos' \in 0..MaxFallos /\ Pendiente(i)
  BY FallaT DEF Proyectar, Inv, Tablas
<1>2. /\ leido[i] \in Nat /\ Len(log[i]) \in Nat /\ leido[i] + 1 \in 1..Len(log[i])
      /\ EventoDe(i) \in Evento /\ EventoDe(i) = Tras(i, leido[i] + 1)
  <2>1. leido[i] \in Nat /\ log[i] \in Seq(Evento)
    BY DEF Inv, Posiciones
  <2>2. leido[i] + 1 \in 1..Len(log[i]) /\ Len(log[i]) \in Nat
    BY <1>1, <2>1 DEF Pendiente
  <2>3. QED
    BY <2>1, <2>2 DEF EventoDe, Tras
<1>3. \A j, n : Tras(j, n)' = Tras(j, n)
  BY <1>1 DEF Tras
<1>4. Tablas' /\ Peticiones' /\ UltimoEsFila' /\ OperacionUnica'
  BY <1>1, Marco DEF Inv, Tablas, lectura
<1>5. CASE /\ proy' = [proy EXCEPT ![i] = EventoDe(i)]
           /\ consumidor' = [en |-> "completar", item |-> i]
           /\ saltados' = [saltados EXCEPT ![i] = @ \ {leido[i] + 1}]
  <2>1. Posiciones'
    BY <1>1, <1>2, <1>5 DEF Inv, Posiciones
  <2>2. EnMano'
    BY <1>1, <1>2, <1>5 DEF Inv, Posiciones, EnMano, Pendiente, EventoDe
  <2>3. ASSUME NEW j \in Item  PROVE Muestra(j)'
    <3>1. CASE j = i
      <4>1. PICK n \in 0..Len(log[j]) : n = leido[j] + 1
        BY <1>2, <3>1
      <4>2. n \in 0..Len(log'[j]) /\ proy'[j] = Tras(j, n)'
        BY <1>1, <1>2, <1>3, <1>5, <3>1, <4>1 DEF Inv, Posiciones
      <4>3. (n + 1)..leido'[j] = {}
        BY <1>1, <1>2, <3>1, <4>1
      <4>4. QED
        BY <4>2, <4>3 DEF Muestra
    <3>2. CASE j # i
      <4>1. proy'[j] = proy[j] /\ saltados'[j] = saltados[j] /\ leido'[j] = leido[j] /\ log' = log
        BY <1>1, <1>5, <3>2 DEF Inv, Posiciones
      <4>2. QED
        BY <1>3, <4>1 DEF Inv, Muestra
    <3>3. QED
      BY <3>1, <3>2
  <2>4. CompletadaVisible'
    <3> SUFFICES ASSUME NEW j \in Item, NEW k \in 1..leido[j], log[j][k].op # SinOp,
                        log[j][k].op \notin perdidas, operacion[log[j][k].op] = "completed"
                 PROVE  \E n \in k..Len(log[j]) : proy'[j] = Tras(j, n)
      BY <1>1, <1>3 DEF CompletadaVisible, obtener_operacion
    <3>1. CASE j = i
      <4>1. proy'[j] = Tras(j, leido[j] + 1) /\ leido[j] + 1 \in k..Len(log[j])
        BY <1>2, <1>5, <3>1 DEF Inv, Posiciones
      <4>2. QED
        BY <4>1
    <3>2. CASE j # i
      BY <1>5, <3>2 DEF Inv, Posiciones, CompletadaVisible, obtener_operacion
    <3>3. QED
      BY <3>1, <3>2
  <2>5. QED
    BY <1>4, <2>1, <2>2, <2>3, <2>4 DEF Inv
<1>6. CASE /\ proy' = proy
           /\ consumidor' = [en |-> "fallar", item |-> i]
           /\ saltados' = [saltados EXCEPT ![i] = @ \cup {leido[i] + 1}]
  <2>1. saltados' \in [Item -> SUBSET Nat]
    BY <1>2, <1>6 DEF Inv, Posiciones
  <2>2. \A j \in Item : saltados[j] \subseteq saltados'[j] /\ saltados'[j] \subseteq 1..Len(log[j])
    BY <1>2, <1>6 DEF Inv, Posiciones
  <2>3. Posiciones'
    BY <1>1, <1>6, <2>1, <2>2 DEF Inv, Posiciones
  <2>4. EnMano'
    BY <1>1, <1>2, <1>6 DEF Inv, Posiciones, EnMano, Pendiente
  <2>5. ASSUME NEW j \in Item  PROVE Muestra(j)'
    <3>1. PICK n \in 0..Len(log[j]) : proy[j] = Tras(j, n) /\ (n + 1)..leido[j] \subseteq saltados[j]
      BY DEF Inv, Muestra
    <3>2. (n + 1)..leido'[j] \subseteq saltados'[j] /\ proy'[j] = Tras(j, n)' /\ n \in 0..Len(log'[j])
      BY <1>1, <1>3, <1>6, <2>2, <3>1
    <3>3. QED
      BY <3>2 DEF Muestra
  <2>6. CompletadaVisible'
    BY <1>1, <1>6, Marco
  <2>7. QED
    BY <1>4, <2>3, <2>4, <2>5, <2>6 DEF Inv
<1>7. QED
  BY <1>5, <1>6 DEF Proyectar, upsert_item_projection

\* complete_operation and fail_operation.  The offset moves past the event in
\* hand, and no operation is completed but that of an event that was projected.
LEMMA PasoAnotar ==
  ASSUME Inv, NEW estado \in {"completed", "failed"}, Anotar(estado),
         consumidor.en = IF estado = "completed" THEN "completar" ELSE "fallar"
  PROVE  Inv'
<1> DEFINE i == consumidor.item
           o == EventoDe(i).op
<1>1. /\ UNCHANGED <<fila, pet, log, confirmado, proy, lectura, escrituras, desviado, saltados>>
      /\ perdidas \subseteq perdidas' /\ fallos' \in 0..MaxFallos
      /\ leido' = [leido EXCEPT ![i] = @ + 1] /\ consumidor' = EnEspera
  BY FallaT DEF Anotar, Avanzar, Inv, Tablas
<1>2. i \in Item /\ Pendiente(i) /\ consumidor.en \in {"completar", "fallar"}
  BY DEF Inv, EnMano
<1>3. /\ leido[i] \in Nat /\ Len(log[i]) \in Nat /\ leido[i] + 1 \in 1..Len(log[i])
      /\ EventoDe(i) = log[i][leido[i] + 1] /\ o \in {SinOp} \cup Operacion
  <2>1. leido[i] \in Nat /\ log[i] \in Seq(Evento)
    BY <1>2 DEF Inv, Posiciones
  <2>2. leido[i] + 1 \in 1..Len(log[i]) /\ Len(log[i]) \in Nat
    BY <1>2, <2>1 DEF Pendiente
  <2>3. EventoDe(i) = log[i][leido[i] + 1] /\ log[i][leido[i] + 1] \in Evento
    BY <2>1, <2>2 DEF EventoDe
  <2>4. QED
    BY <2>1, <2>2, <2>3 DEF Evento
<1>4. \A j, n : Tras(j, n)' = Tras(j, n)
  BY <1>1 DEF Tras
<1>5. /\ perdidas' \subseteq Operacion
      /\ operacion' \in [Operacion -> {"no", "pending", "completed", "failed"}]
      /\ \A x \in Operacion : x # o => operacion'[x] = operacion[x]
      /\ o # SinOp => o \in perdidas' \/ operacion'[o] \in {"no", estado}
  <2>1. CASE /\ operacion' = [x \in Operacion |-> IF x = o /\ operacion[x] # "no" THEN estado
                                                  ELSE operacion[x]]
             /\ perdidas' = perdidas
    BY <1>3, <2>1 DEF Inv, Tablas
  <2>2. CASE o # SinOp /\ perdidas' = perdidas \cup {o} /\ operacion' = operacion
    BY <1>3, <2>2 DEF Inv, Tablas
  <2>3. QED
    BY <2>1, <2>2 DEF Anotar
<1> HIDE DEF o
<1>6. Tablas'
  BY <1>1, <1>5 DEF Inv, Tablas, lectura
<1>7. Posiciones'
  BY <1>1, <1>2, <1>3 DEF Inv, Posiciones
<1>8. Peticiones' /\ UltimoEsFila' /\ OperacionUnica'
  BY <1>1, Marco DEF Inv
<1>9. EnMano'
  BY <1>1 DEF EnMano, EnEspera
<1>10. ASSUME NEW j \in Item  PROVE Muestra(j)'
  <2>1. PICK n \in 0..Len(log[j]) : proy[j] = Tras(j, n) /\ (n + 1)..leido[j] \subseteq saltados[j]
    BY DEF Inv, Muestra
  <2>2. CASE j # i
    <3>1. leido'[j] = leido[j]
      BY <1>1, <2>2 DEF Inv, Posiciones
    <3>2. QED
      BY <1>1, <1>4, <2>1, <3>1 DEF Muestra
  <2>3. leido'[i] = leido[i] + 1
    BY <1>1, <1>2 DEF Inv, Posiciones
  <2>4. CASE j = i /\ consumidor.en = "completar"
    <3>1. PICK m \in 0..Len(log[j]) : m = leido[i] + 1
      BY <1>3, <2>4
    <3>2. proy'[j] = Tras(j, m)' /\ m \in 0..Len(log'[j])
      <4>1. proy[i] = EventoDe(i) /\ EventoDe(i) = Tras(i, m)
        BY <1>3, <2>4, <3>1 DEF Inv, EnMano, Tras
      <4>2. QED
        BY <1>1, <1>4, <2>4, <4>1
    <3>3. (m + 1)..leido'[j] = {}
      BY <1>3, <2>3, <2>4, <3>1
    <3>4. QED
      BY <3>2, <3>3 DEF Muestra
  <2>5. CASE j = i /\ consumidor.en = "fallar"
    <3>1. leido[i] + 1 \in saltados[i]
      BY <2>5 DEF Inv, EnMano
    <3>2. (n + 1)..(leido[i] + 1) \subseteq saltados[i]
      <4>1. \A m \in (n + 1)..(leido[i] + 1) : m \in (n + 1)..leido[i] \/ m = leido[i] + 1
        BY <1>3
      <4>2. QED
        BY <2>1, <2>5, <3>1, <4>1
    <3>3. (n + 1)..leido'[j] \subseteq saltados'[j] /\ proy'[j] = Tras(j, n)' /\ n \in 0..Len(log'[j])
      BY <1>1, <1>4, <2>1, <2>3, <2>5, <3>2
    <3>4. QED
      BY <3>3 DEF Muestra
  <2>6. QED
    BY <1>2, <2>2, <2>4, <2>5
<1>11. CompletadaVisible'
  <2> SUFFICES ASSUME NEW j \in Item, NEW k \in 1..leido'[j], log[j][k].op # SinOp,
                      log[j][k].op \notin perdidas', operacion'[log[j][k].op] = "completed"
               PROVE  \E n \in k..Len(log[j]) : proy[j] = Tras(j, n)
    BY <1>1, <1>4 DEF CompletadaVisible, obtener_operacion
  <2>1. leido'[j] = IF j = i THEN leido[j] + 1 ELSE leido[j]
    BY <1>1 DEF Inv, Posiciones
  <2>2. CASE j = i /\ k = leido[i] + 1
    <3>1. log[j][k].op = o
      BY <1>3, <2>2 DEF o
    <3>2. estado = "completed"
      BY <1>5, <3>1
    <3>3. proy[j] = Tras(j, k) /\ k \in k..Len(log[j])
      BY <1>3, <2>2, <3>2 DEF Inv, EnMano, Tras
    <3>4. QED
      BY <3>3
  <2>3. CASE ~(j = i /\ k = leido[i] + 1)
    <3>1. k \in 1..leido[j] /\ k \in 1..Len(log[j])
      BY <1>3, <2>1, <2>3 DEF Inv, Posiciones
    <3>2. log[j][k].op # o
      <4>1. log[j][k].op = log[i][leido[i] + 1].op => j = i /\ k = leido[i] + 1
        BY <1>2, <1>3, <3>1 DEF Inv, OperacionUnica
      <4>2. QED
        BY <1>3, <2>3, <4>1 DEF o
    <3>3. log[j][k].op \in Operacion
      BY <3>1, EventoT DEF Evento
    <3>4. operacion[log[j][k].op] = "completed" /\ log[j][k].op \notin perdidas
      BY <1>1, <1>5, <3>2, <3>3
    <3>5. QED
      BY <3>1, <3>4 DEF Inv, CompletadaVisible, obtener_operacion
  <2>4. QED
    BY <2>2, <2>3
<1>12. QED
  BY <1>6, <1>7, <1>8, <1>9, <1>10, <1>11 DEF Inv

LEMMA PasoAutoCommit ==
  ASSUME Inv, AutoCommit
  PROVE  Inv'
<1>1. UNCHANGED <<fila, pet, log, leido, consumidor, proy, operacion, lectura, escrituras, fallos,
                  historia>>
  BY DEF AutoCommit
<1>2. PICK i \in Item : confirmado' = [confirmado EXCEPT ![i] = leido[i]]
  BY DEF AutoCommit, CommitDe
<1>3. Tablas'
  BY <1>1 DEF Inv, Tablas, lectura, historia
<1>4. Posiciones'
  BY <1>1, <1>2 DEF Inv, Posiciones, historia
<1>5. QED
  BY <1>1, <1>3, <1>4, Marco DEF Inv, historia

\* A restart hands the events after the committed offset out again: what the
\* projection shows does not change, and it is nearer to what was handled.
LEMMA PasoCaer ==
  ASSUME Inv, CaerConsumidor
  PROVE  Inv'
<1>1. /\ UNCHANGED <<fila, pet, log, confirmado, proy, operacion, lectura, escrituras, historia>>
      /\ fallos' \in 0..MaxFallos /\ consumidor' = EnEspera
      /\ leido' = [i \in Item |-> confirmado[i]]
  BY FallaT DEF CaerConsumidor, Posicion
<1>2. \A j \in Item : leido'[j] \in Nat /\ leido'[j] = confirmado[j] /\ leido'[j] <= leido[j]
                      /\ leido[j] \in Nat /\ Len(log[j]) \in Nat /\ leido[j] <= Len(log[j])
  BY <1>1 DEF Inv, Posiciones
<1>3. Tablas'
  BY <1>1 DEF Inv, Tablas, lectura, historia
<1>4. Posiciones'
  BY <1>1, <1>2 DEF Inv, Posiciones, historia
<1>5. EnMano'
  BY <1>1 DEF EnMano, EnEspera
<1>6. ASSUME NEW j \in Item  PROVE Muestra(j)'
  <2>1. PICK n \in 0..Len(log[j]) : proy[j] = Tras(j, n) /\ (n + 1)..leido[j] \subseteq saltados[j]
    BY DEF Inv, Muestra
  <2>2. (n + 1)..leido'[j] \subseteq (n + 1)..leido[j]
    BY <1>2
  <2>3. QED
    BY <1>1, <2>1, <2>2 DEF Muestra, Tras, historia
<1>7. CompletadaVisible'
  <2>1. \A j \in Item : 1..leido'[j] \subseteq 1..leido[j]
    BY <1>2
  <2>2. QED
    BY <1>1, <2>1 DEF Inv, CompletadaVisible, obtener_operacion, Tras, historia
<1>8. QED
  BY <1>1, <1>3, <1>4, <1>5, <1>6, <1>7, Marco DEF Inv, historia

-----------------------------------------------------------------------------
(* The theorems.                                                           *)

LEMMA Quieto ==
  ASSUME Inv, UNCHANGED vars
  PROVE  Inv'
<1>1. Tablas'
  BY DEF Inv, Tablas, vars, lectura, historia
<1>2. QED
  BY <1>1, Marco DEF Inv, vars, kafka, historia

LEMMA Paso == Inv /\ [Next]_vars => Inv'
<1> SUFFICES ASSUME Inv, [Next]_vars  PROVE Inv'
  OBVIOUS
<1>1. CASE \E r \in Peticion : \/ \E t \in TipoOp, i \in Item : Escribir(r, t, i)
                               \/ Seguir(r) \/ Perder(r)
  BY <1>1, PasoEscribir, PasoRefrescar, PasoPublicar, PasoPerder DEF Seguir
<1>2. CASE Consumir
  <2>1. CASE \E i \in Item : Proyectar(i)
    BY <2>1, PasoProyectar
  <2>2. CASE complete_operation
    BY <2>2, PasoAnotar DEF complete_operation
  <2>3. CASE fail_operation
    BY <2>3, PasoAnotar DEF fail_operation
  <2>4. QED
    BY <1>2, <2>1, <2>2, <2>3 DEF Consumir
<1>3. CASE AutoCommit
  BY <1>3, PasoAutoCommit
<1>4. CASE CaerConsumidor
  BY <1>4, PasoCaer
<1>5. CASE \E o \in Operacion : ExpiraOperacion(o)
  BY <1>5, PasoExpiraOperacion
<1>6. CASE \/ \E q \in Lector : (\E k \in Clave : Consultar(q, k)) \/ Guardar(q)
           \/ \E k \in Clave : Expira(k)
  BY <1>6, PasoConsulta
<1>7. CASE UNCHANGED vars
  BY <1>7, Quieto
<1>8. QED
  BY <1>1, <1>2, <1>3, <1>4, <1>5, <1>6, <1>7 DEF Next

LEMMA Invariante == Spec => []Inv
<1>1. QED
  BY Inicio, Paso, PTL DEF Spec

\* Types, and that the consumer never commits an event it has not handled, of
\* any number of items, requests and queries (items_projection_consumer.py).
THEOREM CqrsTipos == Spec => []TypeOK
<1>1. QED
  BY Invariante, DaTypeOK, PTL

\* An item whose last commit was published whole and alone is shown as it is
\* once its log was handled, whatever was lost, failed or handed out again.
THEOREM ProyeccionesAlDia == Spec => []ProyeccionAlDia
<1>1. QED
  BY Invariante, DaProyeccion, PTL

\* No restart takes the projection behind the committed offset.
THEOREM PrefijosAplicados == Spec => []PrefijoAplicado
<1>1. QED
  BY Invariante, DaPrefijo, PTL

\* An operation that is seen completed is visible: complete_operation is called
\* after the projection, and a restart moves back no further than the replay.
THEOREM CompletadasVisibles == Spec => []CompletadaVisible
<1>1. Inv => CompletadaVisible
  BY DEF Inv
<1>2. QED
  BY Invariante, <1>1, PTL
=============================================================================
