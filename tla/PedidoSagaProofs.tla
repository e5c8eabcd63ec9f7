-------------------------- MODULE PedidoSagaProofs --------------------------
(***************************************************************************)
(* Safety of the order saga for any set of sagas, processes and items and  *)
(* for every fault of TipoFalla, in any number.                            *)
(***************************************************************************)
EXTENDS PedidoSaga, TLAPS

USE DEF Ninguno

-----------------------------------------------------------------------------
(* Type correctness.                                                       *)

\* What a handler's position says of its message, beyond its type.
PosicionDe(p, q) ==
  /\ pc[p][q] # "libre" => actual[p][q] \in Saga
  /\ pc[p][q] = "escribir" =>
       /\ q \in {"RESERVAR_STOCK", "COMPENSAR_STOCK"}
       /\ ItemDe[actual[p][q]] \in Item
       /\ q = "RESERVAR_STOCK" => leido[p][q] >= Cantidad[actual[p][q]]
  /\ pc[p][q] = "publicar" => Siguiente(q) \in Paso
  /\ pc[p][q] = "compensar" => Compensacion(q) \in Paso

Posicion == \A p \in Proceso, q \in Paso : PosicionDe(p, q)

TypeInv == TypeOK /\ Posicion

LEMMA SiguientePaso ==
  ASSUME NEW q \in Paso, Siguiente(q) # Ninguno
  PROVE  Siguiente(q) \in Paso
BY DEF Siguiente, Paso

LEMMA CompensacionPaso ==
  ASSUME NEW q \in Paso, Compensacion(q) # Ninguno
  PROVE  Compensacion(q) \in Paso
BY DEF Compensacion, Paso

LEMMA InitTypeInv == Init => TypeInv
BY ConstantesOK DEF Init, TypeInv, TypeOK, Posicion, PosicionDe, PC, Paso

\* The types of the variables that a step of one handler may change.
ColaT == [Paso -> [Saga -> Nat]]
LogT == [Saga -> [Paso -> SagaStatus \cup {Ninguno}]]
EstadoT == [Saga -> PedidoEstado \cup {Ninguno}]

LEMMA ColaTipo ==
  ASSUME cola \in ColaT, NEW q \in Paso, NEW s \in Saga, EnCola(q, s)
  PROVE  cola' \in ColaT
BY DEF ColaT, EnCola

LEMMA ColaSacaTipo ==
  ASSUME cola \in ColaT, NEW q \in Paso, NEW s \in Saga, cola[q][s] > 0,
         cola' = [cola EXCEPT ![q][s] = @ - 1]
  PROVE  cola' \in ColaT
<1>1. cola[q][s] - 1 \in Nat
  BY DEF ColaT
<1>2. QED
  BY <1>1 DEF ColaT

LEMMA LogTipo ==
  ASSUME log \in LogT, NEW s \in Saga, NEW q \in Paso, NEW st \in SagaStatus,
         log' = log \/ Marcar(s, q, st)
  PROVE  log' \in LogT
BY DEF LogT, Marcar

\* A handler that keeps its message moves to l.
LEMMA IrTipo ==
  ASSUME TypeInv, NEW p \in Proceso, NEW q \in Paso, NEW l \in PC \ {"escribir"},
         pc[p][q] # "libre", Ir(p, q, l),
         l = "publicar" => Siguiente(q) \in Paso,
         l = "compensar" => Compensacion(q) \in Paso,
         entrega' \in [Proceso -> [Paso -> BOOLEAN]],
         UNCHANGED <<actual, leido, forzadas, iniciadas>>,
         cola' \in ColaT, log' \in LogT, estado' \in EstadoT, stock' \in [Item -> Nat],
         reservas' \in [Saga -> Nat], liberaciones' \in [Saga -> Nat],
         fallos' \in 0..MaxFallos
  PROVE  TypeInv'
<1>1. pc' \in [Proceso -> [Paso -> PC]]
  BY DEF Ir, TypeInv, TypeOK
<1>2. TypeOK'
  BY <1>1 DEF TypeInv, TypeOK, ColaT, LogT, EstadoT
<1>3. Posicion'
  <2>1. pc \in [Proceso -> [Paso -> PC]]
    BY DEF TypeInv, TypeOK
  <2> SUFFICES ASSUME NEW r \in Proceso, NEW k \in Paso
               PROVE  PosicionDe(r, k)'
    BY DEF Posicion
  <2>2. CASE r = p /\ k = q
    BY <2>1, <2>2 DEF TypeInv, Posicion, PosicionDe, Ir
  <2>3. CASE ~(r = p /\ k = q)
    <3>1. pc'[r][k] = pc[r][k]
      BY <2>1, <2>3 DEF Ir
    <3>2. QED
      BY <3>1 DEF TypeInv, Posicion, PosicionDe
  <2>4. QED
    BY <2>2, <2>3
<1>4. QED
  BY <1>2, <1>3 DEF TypeInv

\* A handler takes a message and goes to l.
LEMMA TomarTipo ==
  ASSUME TypeInv, NEW p \in Proceso, NEW q \in Paso, NEW s \in Saga,
         NEW l \in {"crear", "fallo"}, Ir(p, q, l), cola[q][s] > 0,
         cola' = [cola EXCEPT ![q][s] = @ - 1],
         actual' = [actual EXCEPT ![p][q] = s],
         entrega' = [entrega EXCEPT ![p][q] = TRUE],
         UNCHANGED <<leido, tablas, peticion>>, fallos' \in 0..MaxFallos
  PROVE  TypeInv'
<1>1. pc' \in [Proceso -> [Paso -> PC]]
  BY DEF Ir, TypeInv, TypeOK, PC
<1>2. cola' \in ColaT
  BY ColaSacaTipo DEF TypeInv, TypeOK, ColaT
<1>3. actual' \in [Proceso -> [Paso -> Saga \cup {Ninguno}]]
  BY DEF TypeInv, TypeOK
<1>4. entrega' \in [Proceso -> [Paso -> BOOLEAN]]
  BY DEF TypeInv, TypeOK
<1>5. TypeOK'
  BY <1>1, <1>2, <1>3, <1>4 DEF TypeInv, TypeOK, ColaT, tablas, peticion
<1>6. Posicion'
  <2>1. pc \in [Proceso -> [Paso -> PC]] /\ actual \in [Proceso -> [Paso -> Saga \cup {Ninguno}]]
    BY DEF TypeInv, TypeOK
  <2> SUFFICES ASSUME NEW r \in Proceso, NEW k \in Paso
               PROVE  PosicionDe(r, k)'
    BY DEF Posicion
  <2>2. CASE r = p /\ k = q
    BY <2>1, <2>2 DEF PosicionDe, Ir
  <2>3. CASE ~(r = p /\ k = q)
    <3>1. pc'[r][k] = pc[r][k] /\ actual'[r][k] = actual[r][k]
      BY <2>1, <2>3 DEF Ir
    <3>2. QED
      BY <3>1 DEF TypeInv, Posicion, PosicionDe
  <2>4. QED
    BY <2>2, <2>3
<1>7. QED
  BY <1>5, <1>6 DEF TypeInv

LEMMA Tipos ==
  ASSUME TypeInv
  PROVE  /\ cola \in ColaT /\ log \in LogT /\ estado \in EstadoT
         /\ stock \in [Item -> Nat] /\ fallos \in 0..MaxFallos
         /\ reservas \in [Saga -> Nat] /\ liberaciones \in [Saga -> Nat]
         /\ leido \in [Proceso -> [Paso -> Nat]]
         /\ entrega \in [Proceso -> [Paso -> BOOLEAN]]
         /\ \A p \in Proceso, q \in Paso : pc[p][q] # "libre" => actual[p][q] \in Saga
BY DEF TypeInv, TypeOK, Posicion, PosicionDe, ColaT, LogT, EstadoT

\* The steps of p that end the process: an exception leaves a handler, or the
\* process dies.
PasoFinal(p) ==
  \/ Caida(p)
  \/ \E q \in Paso : \/ RegistrarFallo(p, q) /\ Compensacion(q) = Ninguno
                     \/ FallaCompensar(p, q)
                     \/ FallaRegistro(p, q)

LEMMA DevueltaTipo ==
  ASSUME cola \in ColaT, NEW p \in Proceso, NEW Q
  PROVE  Devuelta(p, Q) \in ColaT
<1>1. ASSUME NEW q \in Paso, NEW s \in Saga
      PROVE  cola[q][s] + (IF q \in Q /\ actual[p][q] = s /\ entrega[p][q] THEN 1 ELSE 0) \in Nat
  BY DEF ColaT
<1>2. QED
  BY <1>1 DEF ColaT, Devuelta

LEMMA SumaTipo ==
  ASSUME NEW d \in ColaT, NEW q \in Paso, NEW s \in Saga
  PROVE  [d EXCEPT ![q][s] = @ + 1] \in ColaT
BY DEF ColaT

\* All that a step that ends the process touches.
LEMMA AlcanceFinal ==
  ASSUME TypeInv, NEW p \in Proceso, PasoFinal(p)
  PROVE  /\ Parar(p)
         /\ UNCHANGED <<estado, stock, reservas, liberaciones, peticion>>
         /\ \/ UNCHANGED log
            \/ \E m \in Saga, q \in Paso : Marcar(m, q, "FAILED") /\ log[m][q] # Ninguno
         /\ fallos' \in 0..MaxFallos
<1> USE Tipos
<1>0. ASSUME NEW tipo, Falla(tipo)  PROVE fallos' \in 0..MaxFallos
  BY <1>0, ConstantesOK DEF Falla
<1>1. CASE Caida(p)
  BY <1>0, <1>1 DEF Caida, tablas
<1>2. ASSUME NEW q \in Paso, RegistrarFallo(p, q), Compensacion(q) = Ninguno
      PROVE  /\ Parar(p)
             /\ UNCHANGED <<estado, stock, reservas, liberaciones, peticion, fallos>>
             /\ \/ UNCHANGED log
                \/ /\ actual[p][q] \in Saga /\ log[actual[p][q]][q] # Ninguno
                   /\ Marcar(actual[p][q], q, "FAILED")
  BY <1>2 DEF RegistrarFallo, Levantar, YaProcesado
<1>3. ASSUME NEW q \in Paso, FallaCompensar(p, q)
      PROVE  Parar(p) /\ UNCHANGED <<tablas, peticion>> /\ fallos' \in 0..MaxFallos
  BY <1>0, <1>3 DEF FallaCompensar
<1>4. ASSUME NEW q \in Paso, FallaRegistro(p, q)
      PROVE  Parar(p) /\ UNCHANGED <<tablas, peticion>> /\ fallos' \in 0..MaxFallos
  BY <1>0, <1>4 DEF FallaRegistro, Levantar
<1>5. QED
  BY <1>1, <1>2, <1>3, <1>4 DEF PasoFinal, tablas

LEMMA FinalCola ==
  ASSUME TypeInv, NEW p \in Proceso, PasoFinal(p)
  PROVE  cola' \in ColaT
<1> USE Tipos
<1>1. \A Q : Devuelta(p, Q) \in ColaT
  BY DevueltaTipo
<1>2. CASE Caida(p)
  BY <1>1, <1>2 DEF Caida
<1>3. ASSUME NEW q \in Paso, RegistrarFallo(p, q) /\ Compensacion(q) = Ninguno
      PROVE  cola' \in ColaT
  BY <1>1, <1>3 DEF RegistrarFallo, Levantar
<1>4. ASSUME NEW q \in Paso, FallaCompensar(p, q)  PROVE cola' \in ColaT
  <2> DEFINE d == Devuelta(p, Paso \ {q})
  <2>1. d \in ColaT
    BY <1>1
  <2>2. Compensacion(q) \in Paso /\ actual[p][q] \in Saga
    BY <1>4 DEF FallaCompensar, TypeInv, Posicion, PosicionDe
  <2>3. cola' = d \/ cola' = [d EXCEPT ![Compensacion(q)][actual[p][q]] = @ + 1]
    BY <1>4 DEF FallaCompensar
  <2> HIDE DEF d
  <2>4. [d EXCEPT ![Compensacion(q)][actual[p][q]] = @ + 1] \in ColaT
    BY <2>1, <2>2, SumaTipo
  <2>5. QED
    BY <2>1, <2>3, <2>4
<1>5. ASSUME NEW q \in Paso, FallaRegistro(p, q)  PROVE cola' \in ColaT
  BY <1>1, <1>5 DEF FallaRegistro, Levantar
<1>6. QED
  BY <1>2, <1>3, <1>4, <1>5 DEF PasoFinal

\* The process stops.
LEMMA TypeInvFinal ==
  ASSUME TypeInv, NEW p \in Proceso, PasoFinal(p)
  PROVE  TypeInv'
<1>1. Parar(p) /\ UNCHANGED <<estado, stock, reservas, liberaciones, peticion>>
  BY AlcanceFinal
<1>2. cola' \in ColaT /\ fallos' \in 0..MaxFallos
  BY FinalCola, AlcanceFinal
<1>3. log' \in LogT
  BY AlcanceFinal, LogTipo, Tipos DEF SagaStatus
<1>4. /\ pc' \in [Proceso -> [Paso -> PC]]
      /\ actual' \in [Proceso -> [Paso -> Saga \cup {Ninguno}]]
      /\ entrega' \in [Proceso -> [Paso -> BOOLEAN]]
      /\ leido' \in [Proceso -> [Paso -> Nat]]
  BY <1>1 DEF Parar, TypeInv, TypeOK, PC
<1>5. TypeOK'
  BY <1>1, <1>2, <1>3, <1>4 DEF TypeInv, TypeOK, ColaT, LogT, peticion
<1>6. \A r \in Proceso, k \in Paso :
        \/ pc'[r][k] = "libre"
        \/ pc'[r][k] = pc[r][k] /\ actual'[r][k] = actual[r][k] /\ leido'[r][k] = leido[r][k]
  BY <1>1 DEF Parar, TypeInv, TypeOK
<1>7. ASSUME NEW r \in Proceso, NEW k \in Paso
      PROVE  PosicionDe(r, k)'
  <2>1. CASE pc'[r][k] = "libre"
    BY <2>1 DEF PosicionDe
  <2>2. CASE /\ pc'[r][k] = pc[r][k]
             /\ actual'[r][k] = actual[r][k]
             /\ leido'[r][k] = leido[r][k]
    BY <2>2 DEF TypeInv, Posicion, PosicionDe
  <2>3. QED
    BY <1>6, <2>1, <2>2
<1>8. QED
  BY <1>5, <1>7 DEF TypeInv, Posicion

LEMMA TypeInvComun ==
  ASSUME TypeInv, NEW p \in Proceso, NEW q \in Paso, Comun(p, q)
  PROVE  TypeInv'
<1> DEFINE s == actual[p][q]
<1> USE Tipos
<1>1. ASSUME NEW m \in Saga, Recibir(p, q, m)  PROVE TypeInv'
  BY <1>1, TomarTipo DEF Recibir, tablas
<1>2. ASSUME NEW m \in Saga, Descartar(p, q, m)  PROVE TypeInv'
  <2>1. cola' \in ColaT
    BY <1>2, ColaSacaTipo DEF Descartar
  <2>2. QED
    BY <1>2, <2>1 DEF Descartar, manejador, tablas, peticion, TypeInv, TypeOK, ColaT,
                      Posicion, PosicionDe
<1>3. CASE CrearPaso(p, q)
  <2>1. s \in Saga
    BY <1>3 DEF CrearPaso
  <2>2. log' = log \/ Marcar(s, q, "PENDING")
    BY <1>3 DEF CrearPaso, YaProcesado
  <2>3. log' \in LogT
    BY <2>1, <2>2, LogTipo DEF SagaStatus
  <2>4. PICK l \in {"compensando", "efecto"} : Ir(p, q, l)
    BY <1>3 DEF CrearPaso
  <2>5. QED
    BY <1>3, <2>3, <2>4, IrTipo DEF CrearPaso, PC, manejador, peticion
<1>4. CASE MarcarCompensando(p, q)
  <2>1. log' \in LogT
    BY <1>4, LogTipo DEF MarcarCompensando, SagaStatus
  <2>2. QED
    BY <1>4, <2>1, IrTipo DEF MarcarCompensando, PC, manejador, peticion
<1>5. CASE Completar(p, q)
  <2>1. log' \in LogT
    BY <1>5, LogTipo DEF Completar, SagaStatus
  <2>2. PICK l \in {"ack", "publicar"} :
          Ir(p, q, l) /\ (l = "publicar" => Siguiente(q) # Ninguno)
    BY <1>5 DEF Completar
  <2>3. QED
    BY <1>5, <2>1, <2>2, IrTipo, SiguientePaso DEF Completar, PC, manejador, peticion
<1>6. CASE Publicar(p, q)
  <2>1. cola' \in ColaT
    BY <1>6, ColaTipo DEF Publicar, TypeInv, Posicion, PosicionDe
  <2>2. QED
    BY <1>6, <2>1, IrTipo DEF Publicar, PC, manejador, tablas, peticion
<1>7. CASE RegistrarFallo(p, q)
  <2>1. s \in Saga
    BY <1>7 DEF RegistrarFallo
  <2>2. log' = log \/ Marcar(s, q, "FAILED")
    BY <1>7 DEF RegistrarFallo, YaProcesado
  <2>3. log' \in LogT
    BY <2>1, <2>2, LogTipo DEF SagaStatus
  <2>4. CASE Compensacion(q) = Ninguno
    BY <1>7, <2>4, TypeInvFinal DEF PasoFinal
  <2>5. CASE Compensacion(q) # Ninguno
    <3>1. Ir(p, q, "compensar") /\ UNCHANGED <<cola, manejador>>
      BY <1>7, <2>5 DEF RegistrarFallo
    <3>2. QED
      BY <1>7, <2>3, <2>5, <3>1, IrTipo, CompensacionPaso
         DEF RegistrarFallo, PC, manejador, peticion
  <2>6. QED
    BY <2>4, <2>5
<1>8. CASE PublicarCompensacion(p, q)
  <2>1. cola' \in ColaT
    BY <1>8, ColaTipo DEF PublicarCompensacion, TypeInv, Posicion, PosicionDe
  <2>2. QED
    BY <1>8, <2>1, IrTipo DEF PublicarCompensacion, PC, manejador, tablas, peticion
<1>9. CASE Ack(p, q)
  <2>1. /\ pc' \in [Proceso -> [Paso -> PC]]
        /\ actual' \in [Proceso -> [Paso -> Saga \cup {Ninguno}]]
        /\ entrega' \in [Proceso -> [Paso -> BOOLEAN]]
        /\ leido' \in [Proceso -> [Paso -> Nat]]
    BY <1>9 DEF Ack, Ir, TypeInv, TypeOK, PC
  <2>2. TypeOK'
    BY <1>9, <2>1 DEF Ack, TypeInv, TypeOK, tablas, peticion
  <2>3. \A r \in Proceso, k \in Paso :
          \/ pc'[r][k] = "libre"
          \/ pc'[r][k] = pc[r][k] /\ actual'[r][k] = actual[r][k] /\ leido'[r][k] = leido[r][k]
    BY <1>9 DEF Ack, Ir, TypeInv, TypeOK
  <2>4. ASSUME NEW r \in Proceso, NEW k \in Paso
        PROVE  PosicionDe(r, k)'
    <3>1. CASE pc'[r][k] = "libre"
      BY <3>1 DEF PosicionDe
    <3>2. CASE /\ pc'[r][k] = pc[r][k]
               /\ actual'[r][k] = actual[r][k]
               /\ leido'[r][k] = leido[r][k]
      BY <3>2 DEF TypeInv, Posicion, PosicionDe
    <3>3. QED
      BY <2>3, <3>1, <3>2
  <2>5. QED
    BY <2>2, <2>4 DEF TypeInv, Posicion
<1>10. QED
  BY <1>1, <1>2, <1>3, <1>4, <1>5, <1>6, <1>7, <1>8, <1>9 DEF Comun

\* A handler reads the stock it is going to write.
LEMMA LeerTipo ==
  ASSUME TypeInv, NEW p \in Proceso, NEW q \in {"RESERVAR_STOCK", "COMPENSAR_STOCK"},
         pc[p][q] # "libre", Ir(p, q, "escribir"), ItemDe[actual[p][q]] \in Item,
         q = "RESERVAR_STOCK" => stock[ItemDe[actual[p][q]]] >= Cantidad[actual[p][q]],
         leido' = [leido EXCEPT ![p][q] = stock[ItemDe[actual[p][q]]]],
         UNCHANGED <<cola, actual, entrega, tablas, peticion, fallos>>
  PROVE  TypeInv'
<1> DEFINE n == stock[ItemDe[actual[p][q]]]
<1>1. q \in Paso
  BY DEF Paso
<1>2. n \in Nat
  BY Tipos
<1>3. pc' \in [Proceso -> [Paso -> PC]] /\ leido' \in [Proceso -> [Paso -> Nat]]
  BY <1>1, <1>2 DEF Ir, TypeInv, TypeOK, PC
<1>4. TypeOK'
  BY <1>3 DEF TypeInv, TypeOK, tablas, peticion
<1>5. Posicion'
  <2>1. pc \in [Proceso -> [Paso -> PC]] /\ leido \in [Proceso -> [Paso -> Nat]]
    BY DEF TypeInv, TypeOK
  <2> SUFFICES ASSUME NEW r \in Proceso, NEW k \in Paso
               PROVE  PosicionDe(r, k)'
    BY DEF Posicion
  <2>2. CASE r = p /\ k = q
    <3>1. pc'[r][k] = "escribir" /\ leido'[r][k] = n /\ actual'[r][k] = actual[r][k]
      BY <1>1, <2>1, <2>2 DEF Ir
    <3>2. actual[r][k] \in Saga
      BY <2>2, Tipos
    <3>3. QED
      BY <2>2, <3>1, <3>2 DEF PosicionDe
  <2>3. CASE ~(r = p /\ k = q)
    <3>1. pc'[r][k] = pc[r][k] /\ leido'[r][k] = leido[r][k]
      BY <1>1, <2>1, <2>3 DEF Ir
    <3>2. QED
      BY <3>1 DEF TypeInv, Posicion, PosicionDe
  <2>4. QED
    BY <2>2, <2>3
<1>6. QED
  BY <1>4, <1>5 DEF TypeInv

LEMMA CerrarTipo ==
  ASSUME TypeInv, NEW p \in Proceso, NEW q \in Paso,
         NEW final \in PedidoEstado, Cerrar(p, q, final)
  PROVE  TypeInv'
<1> DEFINE s == actual[p][q]
<1>1. s \in Saga
  BY Tipos DEF Cerrar
<1>2. estado' = estado \/ estado' = [estado EXCEPT ![s] = final]
  BY DEF Cerrar
<1>3. estado' \in EstadoT
  BY <1>1, <1>2, Tipos DEF EstadoT
<1>4. PICK l \in {"fallo", "completar"} : Ir(p, q, l)
  BY DEF Cerrar
<1>5. QED
  BY <1>3, <1>4, IrTipo, Tipos DEF Cerrar, PC, manejador, peticion

LEMMA TypeInvEfecto ==
  ASSUME TypeInv, NEW p \in Proceso, NEW q \in Paso, Efecto(p, q)
  PROVE  TypeInv'
<1> DEFINE s == actual[p][q]
<1> USE Tipos
<1>1. CASE q = "CREATE_PEDIDO" /\ CrearPedido(p)
  <2>1. s \in Saga
    BY <1>1 DEF CrearPedido
  <2>2. estado' = estado \/ estado' = [estado EXCEPT ![s] = "PENDIENTE"]
    BY <1>1 DEF CrearPedido
  <2>3. estado' \in EstadoT
    BY <2>1, <2>2 DEF EstadoT, PedidoEstado
  <2>4. PICK l \in {"fallo", "completar"} : Ir(p, q, l)
    BY <1>1 DEF CrearPedido
  <2>5. QED
    BY <1>1, <2>3, <2>4, IrTipo DEF CrearPedido, PC, manejador, peticion
<1>2. CASE q = "RESERVAR_STOCK" /\ LeerReserva(p)
  <2>1. CASE PuedeReservar(s)
    BY <1>2, <2>1, LeerTipo DEF LeerReserva, PuedeReservar
  <2>2. CASE ~PuedeReservar(s)
    <3>1. Ir(p, q, "fallo") /\ UNCHANGED leido
      BY <1>2, <2>2 DEF LeerReserva
    <3>2. QED
      BY <1>2, <3>1, IrTipo DEF LeerReserva, PC, tablas, peticion
  <2>3. QED
    BY <2>1, <2>2
<1>3. CASE q = "RESERVAR_STOCK" /\ EscribirReserva(p)
  <2>1. /\ s \in Saga /\ ItemDe[s] \in Item /\ leido[p][q] >= Cantidad[s]
        /\ leido[p][q] \in Nat
    BY <1>3 DEF EscribirReserva, TypeInv, Posicion, PosicionDe
  <2>2. leido[p][q] - Cantidad[s] \in Nat
    BY <2>1, ConstantesOK
  <2>3. stock' \in [Item -> Nat]
    BY <1>3, <2>1, <2>2 DEF EscribirReserva
  <2>4. reservas' \in [Saga -> Nat]
    BY <1>3, <2>1 DEF EscribirReserva
  <2>5. QED
    BY <1>3, <2>3, <2>4, IrTipo DEF EscribirReserva, PC, manejador, peticion
<1>4. CASE q = "COBRAR_PAGO" /\ CobrarPago(p)
  <2>1. PICK l \in {"fallo", "completar"} : Ir(p, q, l)
    BY <1>4 DEF CobrarPago
  <2>2. QED
    BY <1>4, <2>1, IrTipo DEF CobrarPago, PC, manejador, tablas, peticion
<1>5. CASE q = "NOTIFICAR_CLIENTE" /\ NotificarCliente(p)
  <2>1. PICK l \in {"fallo", "completar"} : Ir(p, q, l)
    BY <1>5 DEF NotificarCliente
  <2>2. QED
    BY <1>5, <2>1, IrTipo DEF NotificarCliente, PC, manejador, tablas, peticion
<1>6. CASE q = "CONFIRMAR_PEDIDO" /\ ConfirmarPedido(p)
  BY <1>6, CerrarTipo DEF ConfirmarPedido, PedidoEstado
<1>7. CASE q = "COMPENSAR_STOCK" /\ LeerCompensacion(p)
  <2>1. CASE estado[s] # Ninguno /\ ItemDe[s] \in Item
    BY <1>7, <2>1, LeerTipo DEF LeerCompensacion
  <2>2. CASE ~(estado[s] # Ninguno /\ ItemDe[s] \in Item)
    <3>1. Ir(p, q, "fallo") /\ UNCHANGED leido
      BY <1>7, <2>2 DEF LeerCompensacion
    <3>2. QED
      BY <1>7, <3>1, IrTipo DEF LeerCompensacion, PC, tablas, peticion
  <2>3. QED
    BY <2>1, <2>2
<1>8. CASE q = "COMPENSAR_STOCK" /\ EscribirCompensacion(p)
  <2>1. s \in Saga /\ ItemDe[s] \in Item /\ leido[p][q] \in Nat
    BY <1>8 DEF EscribirCompensacion, TypeInv, Posicion, PosicionDe
  <2>2. leido[p][q] + Cantidad[s] \in Nat
    BY <2>1, ConstantesOK
  <2>3. stock' \in [Item -> Nat]
    BY <1>8, <2>1, <2>2 DEF EscribirCompensacion
  <2>4. liberaciones' \in [Saga -> Nat]
    BY <1>8, <2>1 DEF EscribirCompensacion
  <2>5. QED
    BY <1>8, <2>3, <2>4, IrTipo DEF EscribirCompensacion, PC, manejador, peticion
<1>9. CASE q = "CANCELAR_PEDIDO" /\ CancelarPedido(p)
  BY <1>9, CerrarTipo DEF CancelarPedido, PedidoEstado
<1>10. QED
  BY <1>1, <1>2, <1>3, <1>4, <1>5, <1>6, <1>7, <1>8, <1>9 DEF Efecto

LEMMA TypeInvFallar ==
  ASSUME TypeInv, NEW p \in Proceso, Fallar(p)
  PROVE  TypeInv'
<1> USE Tipos
<1>0. ASSUME NEW tipo, Falla(tipo)  PROVE fallos' \in 0..MaxFallos
  BY <1>0, ConstantesOK DEF Falla
<1>1. ASSUME NEW q \in Paso, FallaPublicar(p, q)  PROVE TypeInv'
  <2>1. fallos' \in 0..MaxFallos
    BY <1>0, <1>1 DEF FallaPublicar
  <2>2. actual[p][q] \in Saga /\ Siguiente(q) \in Paso
    BY <1>1 DEF FallaPublicar, TypeInv, Posicion, PosicionDe
  <2>3. cola' = cola \/ EnCola(Siguiente(q), actual[p][q])
    BY <1>1 DEF FallaPublicar
  <2>4. cola' \in ColaT
    BY <2>2, <2>3, ColaTipo
  <2>5. QED
    BY <1>1, <2>1, <2>4, IrTipo DEF FallaPublicar, PC, manejador, tablas, peticion
<1>2. CASE PasoFinal(p)
  BY <1>2, TypeInvFinal
<1>3. ASSUME NEW q \in Paso, FallaBD(p, q)  PROVE TypeInv'
  <2>1. fallos' \in 0..MaxFallos
    BY <1>0, <1>3 DEF FallaBD
  <2>2. QED
    BY <1>3, <2>1, IrTipo DEF FallaBD, Relee, Sincrono, PC, manejador, tablas, peticion
<1>5. ASSUME NEW q \in Paso, NEW s \in Saga, FallaConsulta(p, q, s)  PROVE TypeInv'
  <2>1. fallos' \in 0..MaxFallos
    BY <1>0, <1>5 DEF FallaConsulta
  <2>2. QED
    BY <1>5, <2>1, TomarTipo DEF FallaConsulta
<1>8. CASE ConexionPerdida(p)
  <2>1. fallos' \in 0..MaxFallos
    BY <1>0, <1>8 DEF ConexionPerdida
  <2>2. cola' \in ColaT
    BY <1>8, DevueltaTipo DEF ConexionPerdida
  <2>3. entrega' \in [Proceso -> [Paso -> BOOLEAN]]
    BY <1>8 DEF ConexionPerdida
  <2>4. QED
    BY <1>8, <2>1, <2>2, <2>3 DEF ConexionPerdida, TypeInv, TypeOK, Posicion, PosicionDe,
                                  ColaT, tablas, peticion
<1>9. QED
  BY <1>1, <1>2, <1>3, <1>5, <1>8 DEF Fallar, PasoFinal

LEMMA TypeInvNext == TypeInv /\ [Next]_vars => TypeInv'
<1> SUFFICES ASSUME TypeInv, [Next]_vars  PROVE TypeInv'
  OBVIOUS
<1>1. ASSUME NEW s \in Saga, NEW F \in Banderas, IniciarSaga(s, F)  PROVE TypeInv'
  <2>1. cola' \in ColaT
    BY <1>1, ColaTipo, Tipos DEF IniciarSaga, Paso
  <2>2. forzadas' \in [Saga -> SUBSET PasoForzable]
    BY <1>1, ConstantesOK DEF IniciarSaga, TypeInv, TypeOK
  <2>3. QED
    BY <1>1, <2>1, <2>2 DEF IniciarSaga, TypeInv, TypeOK, Posicion, PosicionDe, ColaT,
                            manejador, tablas
<1>2. ASSUME NEW p \in Proceso, NEW q \in Paso, Manejar(p, q)  PROVE TypeInv'
  BY <1>2, TypeInvComun, TypeInvEfecto DEF Manejar
<1>3. ASSUME NEW p \in Proceso, Fallar(p)  PROVE TypeInv'
  BY <1>3, TypeInvFallar
<1>4. CASE UNCHANGED vars
  BY <1>4 DEF vars, TypeInv, TypeOK, Posicion, PosicionDe
<1>5. QED
  BY <1>1, <1>2, <1>3, <1>4 DEF Next

\* Every reachable state of the saga is well typed, whatever the faults; in
\* particular RESERVAR_STOCK never commits a negative items.stock.
THEOREM TypeCorrect == Spec => []TypeOK
<1>1. Init => TypeInv
  BY InitTypeInv
<1>2. TypeInv /\ [Next]_vars => TypeInv'
  BY TypeInvNext
<1>3. TypeInv => TypeOK
  BY DEF TypeInv
<1>4. QED
  BY <1>1, <1>2, <1>3, PTL DEF Spec

-----------------------------------------------------------------------------
(* ReservaRespalda.  As it stands it is not inductive: it must also say     *)
(* that nothing of an order without stock is on its way to the steps that   *)
(* come after the reservation.                                              *)

Posterior == {"COBRAR_PAGO", "NOTIFICAR_CLIENTE", "CONFIRMAR_PEDIDO", "COMPENSAR_STOCK"}

SinRespaldo(s) ==
  /\ estado[s] # "CONFIRMADO"
  /\ liberaciones[s] = 0
  /\ \A q \in Posterior : cola[q][s] = 0 /\ log[s][q] = Ninguno
  /\ \A p \in Proceso, q \in Posterior : actual[p][q] # s
  /\ \A p \in Proceso : actual[p]["RESERVAR_STOCK"] = s =>
       pc[p]["RESERVAR_STOCK"] \notin {"completar", "publicar"}

Respaldo == \A s \in Saga : reservas[s] > 0 \/ SinRespaldo(s)

\* The queues that feed a later step are fed by the reservation or by a later step.
LEMMA OrigenPosterior ==
  ASSUME NEW q \in Paso
  PROVE  /\ Siguiente(q) \in Posterior => q = "RESERVAR_STOCK" \/ q \in Posterior
         /\ Compensacion(q) \in Posterior => q \in Posterior
BY DEF Siguiente, Compensacion, Posterior, Paso

\* The typing of functions applied below.
LEMMA Dominios ==
  ASSUME TypeInv
  PROVE  /\ pc \in [Proceso -> [Paso -> PC]]
         /\ actual \in [Proceso -> [Paso -> Saga \cup {Ninguno}]]
         /\ Posterior \subseteq Paso /\ "RESERVAR_STOCK" \in Paso
BY DEF TypeInv, TypeOK, Posterior, Paso

LEMMA MarcarOtro ==
  ASSUME log \in LogT, NEW s \in Saga, NEW k \in Paso, NEW m, NEW q, NEW st,
         log' = log \/ Marcar(m, q, st), k # q \/ s # m
  PROVE  log'[s][k] = log[s][k]
BY DEF LogT, Marcar

LEMMA EnColaOtro ==
  ASSUME cola \in ColaT, NEW s \in Saga, NEW k \in Paso, NEW m, NEW q,
         cola' = cola \/ EnCola(q, m), k # q \/ s # m
  PROVE  cola'[k][s] = cola[k][s]
BY DEF ColaT, EnCola

\* No delivery of s comes back to a queue no handler of which holds it.
LEMMA DevueltaNada ==
  ASSUME TypeInv, NEW s \in Saga, NEW p \in Proceso, NEW k \in Paso, NEW Q, actual[p][k] # s
  PROVE  Devuelta(p, Q)[k][s] = cola[k][s]
BY Tipos DEF Devuelta, ColaT

\* What a step that ends the process leaves in the queues that come after the
\* reservation.
LEMMA FinalPosterior ==
  ASSUME TypeInv, NEW s \in Saga, SinRespaldo(s), NEW p \in Proceso, PasoFinal(p),
         NEW k \in Posterior
  PROVE  cola'[k][s] = 0
<1> USE Tipos, Dominios DEF SinRespaldo
<1>0. k \in Paso /\ actual[p][k] # s /\ cola[k][s] = 0
  OBVIOUS
<1>1. \A Q : Devuelta(p, Q)[k][s] = 0
  BY <1>0, DevueltaNada
<1>2. CASE Caida(p)
  BY <1>1, <1>2 DEF Caida
<1>3. ASSUME NEW q \in Paso, RegistrarFallo(p, q) /\ Compensacion(q) = Ninguno
      PROVE  cola'[k][s] = 0
  BY <1>1, <1>3 DEF RegistrarFallo, Levantar
<1>4. ASSUME NEW q \in Paso, FallaCompensar(p, q)  PROVE cola'[k][s] = 0
  <2> DEFINE d == Devuelta(p, Paso \ {q})
  <2>1. d \in ColaT /\ d[k][s] = 0
    BY <1>1, DevueltaTipo
  <2>2. k # Compensacion(q) \/ s # actual[p][q]
    BY OrigenPosterior
  <2>3. cola' = d \/ cola' = [d EXCEPT ![Compensacion(q)][actual[p][q]] = @ + 1]
    BY <1>4 DEF FallaCompensar
  <2> HIDE DEF d
  <2>4. QED
    BY <2>1, <2>2, <2>3 DEF ColaT
<1>5. ASSUME NEW q \in Paso, FallaRegistro(p, q)  PROVE cola'[k][s] = 0
  BY <1>1, <1>5 DEF FallaRegistro, Levantar
<1>6. QED
  BY <1>2, <1>3, <1>4, <1>5 DEF PasoFinal

LEMMA RespaldoFinal ==
  ASSUME TypeInv, NEW s \in Saga, SinRespaldo(s), NEW p \in Proceso, PasoFinal(p)
  PROVE  SinRespaldo(s)'
<1> USE Tipos, Dominios
<1>1. Parar(p) /\ UNCHANGED <<estado, liberaciones>>
  BY AlcanceFinal
<1>2. \A k \in Posterior : cola'[k][s] = 0
  BY FinalPosterior
<1>3. ASSUME NEW k \in Posterior  PROVE log'[s][k] = Ninguno
  <2>1. log[s][k] = Ninguno
    BY DEF SinRespaldo
  <2>2. ASSUME NEW m \in Saga, NEW q \in Paso, Marcar(m, q, "FAILED"), log[m][q] # Ninguno
        PROVE  log'[s][k] = log[s][k]
    <3>1. k # q \/ s # m
      BY <2>1, <2>2
    <3>2. QED
      BY <2>2, <3>1, MarcarOtro
  <2>3. QED
    BY <2>1, <2>2, AlcanceFinal
<1>4. \A r \in Proceso, k \in Paso :
        \/ pc'[r][k] = "libre" /\ actual'[r][k] = Ninguno
        \/ pc'[r][k] = pc[r][k] /\ actual'[r][k] = actual[r][k]
  BY <1>1 DEF Parar
<1>5. ASSUME NEW r \in Proceso, NEW k \in Posterior  PROVE actual'[r][k] # s
  <2>1. k \in Paso /\ actual[r][k] # s
    BY DEF SinRespaldo
  <2>2. actual'[r][k] \in {Ninguno, actual[r][k]}
    BY <1>4, <2>1
  <2>3. QED
    BY <2>1, <2>2, ConstantesOK
<1>6. QED
  BY <1>1, <1>2, <1>3, <1>4, <1>5 DEF SinRespaldo

LEMMA RespaldoComun ==
  ASSUME TypeInv, NEW s \in Saga, SinRespaldo(s),
         NEW p \in Proceso, NEW q \in Paso, Comun(p, q)
  PROVE  SinRespaldo(s)'
<1> DEFINE m == actual[p][q]
<1> USE Tipos, Dominios DEF ColaT, LogT, SinRespaldo
<1>0. q \in Posterior => m # s
  OBVIOUS
<1>1. ASSUME NEW n \in Saga, Recibir(p, q, n)  PROVE SinRespaldo(s)'
  BY <1>1 DEF Recibir, Ir, tablas
<1>2. ASSUME NEW n \in Saga, Descartar(p, q, n)  PROVE SinRespaldo(s)'
  BY <1>2 DEF Descartar, manejador, tablas
<1>3. CASE CrearPaso(p, q)
  <2>1. log' = log \/ Marcar(m, q, "PENDING")
    BY <1>3 DEF CrearPaso, YaProcesado
  <2>2. PICK l \in {"compensando", "efecto"} : Ir(p, q, l)
    BY <1>3 DEF CrearPaso
  <2>3. ASSUME NEW k \in Posterior  PROVE log'[s][k] = Ninguno
    <3>1. k # q \/ s # m
      BY <1>0
    <3>2. QED
      BY <2>1, <3>1, MarcarOtro
  <2>4. QED
    BY <1>3, <2>2, <2>3 DEF CrearPaso, Ir, manejador
<1>4. CASE MarcarCompensando(p, q)
  BY <1>0, <1>4 DEF MarcarCompensando, Marcar, Ir, manejador
<1>5. CASE Completar(p, q)
  <2>1. PICK st : Marcar(m, q, st)
    BY <1>5 DEF Completar
  <2>2. PICK l \in {"ack", "publicar"} : Ir(p, q, l)
    BY <1>5 DEF Completar
  <2>3. QED
    BY <1>0, <1>5, <2>1, <2>2 DEF Completar, Marcar, Ir, manejador
<1>6. CASE Publicar(p, q)
  <2>1. Siguiente(q) \in Posterior => m # s
    BY <1>0, <1>6, OrigenPosterior DEF Publicar
  <2>2. QED
    BY <1>6, <2>1 DEF Publicar, EnCola, Ir, manejador, tablas
<1>7. CASE RegistrarFallo(p, q)
  <2>1. log' = log \/ Marcar(m, q, "FAILED")
    BY <1>7 DEF RegistrarFallo, YaProcesado
  <2>2. ASSUME NEW k \in Posterior  PROVE log'[s][k] = Ninguno
    <3>1. k # q \/ s # m
      BY <1>0
    <3>2. QED
      BY <2>1, <3>1, MarcarOtro
  <2>3. CASE Compensacion(q) = Ninguno
    BY <1>7, <2>3, RespaldoFinal, ZenonT(40) DEF PasoFinal
  <2>4. CASE Ir(p, q, "compensar") /\ UNCHANGED <<cola, manejador>>
    BY <1>7, <2>2, <2>4 DEF RegistrarFallo, Ir, manejador
  <2>5. QED
    BY <1>7, <2>3, <2>4 DEF RegistrarFallo
<1>8. CASE PublicarCompensacion(p, q)
  <2>1. Compensacion(q) \in Posterior => m # s
    BY <1>0, OrigenPosterior
  <2>2. QED
    BY <1>8, <2>1 DEF PublicarCompensacion, EnCola, Ir, manejador, tablas
<1>9. CASE Ack(p, q)
  BY <1>9, ConstantesOK DEF Ack, Ir, tablas
<1>10. QED
  BY <1>1, <1>2, <1>3, <1>4, <1>5, <1>6, <1>7, <1>8, <1>9 DEF Comun

LEMMA RespaldoEfecto ==
  ASSUME TypeInv, NEW s \in Saga, SinRespaldo(s), reservas'[s] = 0,
         NEW p \in Proceso, NEW q \in Paso, Efecto(p, q)
  PROVE  SinRespaldo(s)'
<1> DEFINE m == actual[p][q]
<1> USE Tipos, Dominios DEF SinRespaldo
<1>1. CASE q = "CREATE_PEDIDO" /\ CrearPedido(p)
  <2>1. estado' = estado \/ estado' = [estado EXCEPT ![m] = "PENDIENTE"]
    BY <1>1 DEF CrearPedido
  <2>2. estado'[s] # "CONFIRMADO"
    BY <2>1 DEF EstadoT
  <2>3. PICK l : Ir(p, q, l)
    BY <1>1 DEF CrearPedido
  <2>4. QED
    BY <1>1, <2>2, <2>3 DEF CrearPedido, Ir, manejador
<1>2. CASE q = "RESERVAR_STOCK" /\ LeerReserva(p)
  <2>1. PICK l \in {"escribir", "fallo"} : Ir(p, q, l)
    BY <1>2 DEF LeerReserva
  <2>2. QED
    BY <1>2, <2>1 DEF LeerReserva, Ir, tablas
<1>3. CASE q = "RESERVAR_STOCK" /\ EscribirReserva(p)
  <2>1. m \in Saga /\ reservas' = [reservas EXCEPT ![m] = @ + 1]
    BY <1>3 DEF EscribirReserva
  <2>2. m # s
    BY <2>1
  <2>3. QED
    BY <1>3, <2>2 DEF EscribirReserva, Ir, manejador
<1>4. CASE q = "COBRAR_PAGO" /\ CobrarPago(p)
  <2>1. PICK l : Ir(p, q, l)
    BY <1>4 DEF CobrarPago
  <2>2. QED
    BY <1>4, <2>1 DEF CobrarPago, Ir, manejador, tablas
<1>5. CASE q = "NOTIFICAR_CLIENTE" /\ NotificarCliente(p)
  <2>1. PICK l : Ir(p, q, l)
    BY <1>5 DEF NotificarCliente
  <2>2. QED
    BY <1>5, <2>1 DEF NotificarCliente, Ir, manejador, tablas
<1>6. CASE q = "CONFIRMAR_PEDIDO" /\ ConfirmarPedido(p)
  <2>1. m # s
    BY <1>6 DEF Posterior
  <2>2. estado' = estado \/ estado' = [estado EXCEPT ![m] = "CONFIRMADO"]
    BY <1>6 DEF ConfirmarPedido, Cerrar
  <2>3. estado'[s] = estado[s]
    BY <2>1, <2>2 DEF EstadoT
  <2>4. PICK l : Ir(p, q, l)
    BY <1>6 DEF ConfirmarPedido, Cerrar
  <2>5. QED
    BY <1>6, <2>3, <2>4 DEF ConfirmarPedido, Cerrar, Ir, manejador
<1>7. CASE q = "COMPENSAR_STOCK" /\ LeerCompensacion(p)
  <2>1. PICK l : Ir(p, q, l)
    BY <1>7 DEF LeerCompensacion
  <2>2. QED
    BY <1>7, <2>1 DEF LeerCompensacion, Ir, tablas
<1>8. CASE q = "COMPENSAR_STOCK" /\ EscribirCompensacion(p)
  <2>1. m # s
    BY <1>8 DEF Posterior
  <2>2. liberaciones'[s] = liberaciones[s]
    BY <1>8, <2>1 DEF EscribirCompensacion
  <2>3. QED
    BY <1>8, <2>2 DEF EscribirCompensacion, Ir, manejador
<1>9. CASE q = "CANCELAR_PEDIDO" /\ CancelarPedido(p)
  <2>1. estado' = estado \/ estado' = [estado EXCEPT ![m] = "CANCELADO"]
    BY <1>9 DEF CancelarPedido, Cerrar
  <2>2. estado'[s] # "CONFIRMADO"
    BY <2>1 DEF EstadoT
  <2>3. PICK l : Ir(p, q, l)
    BY <1>9 DEF CancelarPedido, Cerrar
  <2>4. QED
    BY <1>9, <2>2, <2>3 DEF CancelarPedido, Cerrar, Ir, manejador
<1>10. QED
  BY <1>1, <1>2, <1>3, <1>4, <1>5, <1>6, <1>7, <1>8, <1>9 DEF Efecto

LEMMA RespaldoFallar ==
  ASSUME TypeInv, NEW s \in Saga, SinRespaldo(s), NEW p \in Proceso, Fallar(p)
  PROVE  SinRespaldo(s)'
<1> USE Tipos, Dominios DEF ColaT, SinRespaldo
<1>1. ASSUME NEW q \in Paso, FallaPublicar(p, q)  PROVE SinRespaldo(s)'
  <2>1. Siguiente(q) \in Posterior => actual[p][q] # s
    BY <1>1, OrigenPosterior DEF FallaPublicar
  <2>2. cola' = cola \/ EnCola(Siguiente(q), actual[p][q])
    BY <1>1 DEF FallaPublicar
  <2>3. ASSUME NEW k \in Posterior  PROVE cola'[k][s] = 0
    <3>1. k # Siguiente(q) \/ s # actual[p][q]
      BY <2>1
    <3>2. QED
      BY <2>2, <3>1, EnColaOtro
  <2>4. QED
    BY <1>1, <2>3 DEF FallaPublicar, Ir, manejador, tablas
<1>2. CASE PasoFinal(p)
  BY <1>2, RespaldoFinal
<1>3. ASSUME NEW q \in Paso, FallaBD(p, q)  PROVE SinRespaldo(s)'
  BY <1>3 DEF FallaBD, Ir, manejador, tablas
<1>5. ASSUME NEW q \in Paso, NEW n \in Saga, FallaConsulta(p, q, n)
      PROVE  SinRespaldo(s)'
  BY <1>5 DEF FallaConsulta, Ir, tablas
<1>8. CASE ConexionPerdida(p)
  BY <1>8, DevueltaNada DEF ConexionPerdida, tablas
<1>9. QED
  BY <1>1, <1>2, <1>3, <1>5, <1>8 DEF Fallar, PasoFinal

\* A step of the handler of queue k in p, its faults included, that does not
\* end the process.
PasoDe(p, k) ==
  /\ \/ Manejar(p, k)
     \/ FallaPublicar(p, k)
     \/ FallaBD(p, k)
     \/ \E s \in Saga : FallaConsulta(p, k, s)
  /\ RegistrarFallo(p, k) => Compensacion(k) # Ninguno

LEMMA PasosDelProceso ==
  ASSUME NEW p \in Proceso, Fallar(p) \/ \E k \in Paso : Manejar(p, k)
  PROVE  PasoFinal(p) \/ ConexionPerdida(p) \/ \E k \in Paso : PasoDe(p, k)
BY DEF Fallar, PasoFinal, PasoDe

\* Only two handlers write the stock.
LEMMA QuienEscribe ==
  ASSUME TypeInv, [Next]_vars
  PROVE  \/ UNCHANGED <<stock, reservas, liberaciones>>
         \/ \E p \in Proceso : EscribirReserva(p) \/ EscribirCompensacion(p)
<1>1. ASSUME NEW p \in Proceso, PasoFinal(p)
      PROVE  UNCHANGED <<stock, reservas, liberaciones>>
  BY <1>1, AlcanceFinal
<1>2. ASSUME NEW p \in Proceso, NEW k \in Paso, PasoDe(p, k)
      PROVE  \/ UNCHANGED <<stock, reservas, liberaciones>>
             \/ EscribirReserva(p) \/ EscribirCompensacion(p)
  BY <1>2 DEF PasoDe, Manejar, Comun, Efecto, Recibir, Descartar, CrearPaso,
              MarcarCompensando, Completar, Publicar, RegistrarFallo, PublicarCompensacion,
              Ack, CrearPedido, LeerReserva, CobrarPago, NotificarCliente, ConfirmarPedido,
              CancelarPedido, Cerrar, LeerCompensacion, FallaPublicar, FallaBD,
              FallaConsulta, tablas
<1>3. ASSUME NEW p \in Proceso, ConexionPerdida(p)
      PROVE  UNCHANGED <<stock, reservas, liberaciones>>
  BY <1>3 DEF ConexionPerdida, tablas
<1>4. CASE \E s \in Saga, F \in Banderas : IniciarSaga(s, F)
  BY <1>4 DEF IniciarSaga, tablas
<1>5. CASE UNCHANGED vars
  BY <1>5 DEF vars
<1>6. QED
  BY <1>1, <1>2, <1>3, <1>4, <1>5, PasosDelProceso DEF Next

\* A reservation is never forgotten.
LEMMA ReservasCrecen ==
  ASSUME TypeInv, [Next]_vars, NEW s \in Saga, reservas[s] > 0
  PROVE  reservas'[s] > 0
<1>1. UNCHANGED reservas \/ \E p \in Proceso : EscribirReserva(p)
  BY QuienEscribe DEF EscribirCompensacion
<1>2. reservas \in [Saga -> Nat]
  BY Tipos
<1>3. QED
  BY <1>1, <1>2 DEF EscribirReserva

LEMMA RespaldoNext == TypeInv /\ Respaldo /\ [Next]_vars => Respaldo'
<1> SUFFICES ASSUME TypeInv, Respaldo, [Next]_vars, NEW s \in Saga, ~(reservas'[s] > 0)
             PROVE  SinRespaldo(s)'
  BY DEF Respaldo
<1>1. TypeInv'
  BY TypeInvNext
<1>2. SinRespaldo(s) /\ reservas'[s] = 0
  <2>1. reservas'[s] \in Nat
    BY <1>1 DEF TypeInv, TypeOK
  <2>2. QED
    BY <2>1, ReservasCrecen DEF Respaldo
<1>3. ASSUME NEW m \in Saga, NEW F \in Banderas, IniciarSaga(m, F)
      PROVE  SinRespaldo(s)'
  BY <1>2, <1>3, Tipos DEF IniciarSaga, EnCola, ColaT, SinRespaldo, Posterior, manejador, tablas
<1>4. ASSUME NEW p \in Proceso, NEW q \in Paso, Manejar(p, q)  PROVE SinRespaldo(s)'
  BY <1>2, <1>4, RespaldoComun, RespaldoEfecto DEF Manejar
<1>5. ASSUME NEW p \in Proceso, Fallar(p)  PROVE SinRespaldo(s)'
  BY <1>2, <1>5, RespaldoFallar
<1>6. CASE UNCHANGED vars
  BY <1>2, <1>6 DEF vars, SinRespaldo
<1>7. QED
  BY <1>3, <1>4, <1>5, <1>6 DEF Next

LEMMA RespaldoInit == Init => Respaldo
<1> SUFFICES ASSUME Init, NEW s \in Saga  PROVE SinRespaldo(s)
  BY DEF Respaldo
<1>1. Posterior \subseteq Paso
  BY DEF Posterior, Paso
<1>2. \A k \in Posterior : cola[k][s] = 0 /\ log[s][k] = Ninguno
  BY <1>1 DEF Init
<1>3. \A p \in Proceso, k \in Posterior : pc[p][k] = "libre" /\ actual[p][k] = Ninguno
  BY <1>1 DEF Init
<1>4. estado[s] = Ninguno /\ liberaciones[s] = 0
  BY DEF Init
<1>5. \A p \in Proceso : pc[p]["RESERVAR_STOCK"] = "libre"
  BY DEF Init, Paso
<1>6. QED
  BY <1>2, <1>3, <1>4, <1>5, ConstantesOK DEF SinRespaldo

\* An order is charged, confirmed or compensated only after its stock was
\* taken: for any number of orders, consumer processes and faults, including
\* duplicated messages and publishes whose outcome is unknown.
THEOREM NadaSinReserva == Spec => []ReservaRespalda
<1>1. Init => TypeInv /\ Respaldo
  BY InitTypeInv, RespaldoInit
<1>2. TypeInv /\ Respaldo /\ [Next]_vars => TypeInv' /\ Respaldo'
  BY TypeInvNext, RespaldoNext
<1>3. TypeInv /\ Respaldo => ReservaRespalda
  BY DEF Respaldo, SinRespaldo, ReservaRespalda, Posterior
<1>4. QED
  BY <1>1, <1>2, <1>3, PTL DEF Spec

-----------------------------------------------------------------------------
(* EfectoUnaVez, when only one process consumes the queues.  The row of a   *)
(* step is committed before its effect and looked up before that, so a      *)
(* handler that has not yet written the stock has a row nobody else has     *)
(* acted on.  With two processes the look-up and the insert can interleave. *)

UnProceso == \A a, b \in Proceso : a = b

PasoStock == {"RESERVAR_STOCK", "COMPENSAR_STOCK"}
Cuenta(q) == IF q = "RESERVAR_STOCK" THEN reservas ELSE liberaciones

ManejadorUnaVez(p, q) ==
  /\ pc[p][q] = "crear" => log[actual[p][q]][q] = Ninguno
  /\ pc[p][q] \in {"compensando", "efecto", "escribir"} =>
       log[actual[p][q]][q] # Ninguno /\ Cuenta(q)[actual[p][q]] = 0

FilaUnaVez(s, q) ==
  /\ Cuenta(q)[s] \in {0, 1}
  /\ log[s][q] = Ninguno => Cuenta(q)[s] = 0

UnaVezEn(q) ==
  /\ \A p \in Proceso : ManejadorUnaVez(p, q)
  /\ \A s \in Saga : FilaUnaVez(s, q)

UnaVez == \A q \in PasoStock : UnaVezEn(q)

\* Nothing that UnaVezEn(q) speaks of has changed.
Aparte(q) ==
  /\ \A p \in Proceso : pc'[p][q] = pc[p][q] /\ actual'[p][q] = actual[p][q]
  /\ \A s \in Saga : log'[s][q] = log[s][q] /\ Cuenta(q)'[s] = Cuenta(q)[s]

LEMMA AparteUnaVez ==
  ASSUME TypeInv, NEW q \in PasoStock, UnaVezEn(q), Aparte(q)
  PROVE  UnaVezEn(q)'
<1>0. q \in Paso
  BY DEF PasoStock, Paso
<1>1. ASSUME NEW p \in Proceso  PROVE ManejadorUnaVez(p, q)'
  <2>1. CASE pc[p][q] = "libre"
    BY <2>1 DEF Aparte, ManejadorUnaVez
  <2>2. CASE actual[p][q] \in Saga
    BY <2>2 DEF Aparte, ManejadorUnaVez, UnaVezEn
  <2>3. QED
    BY <1>0, <2>1, <2>2, Tipos
<1>2. ASSUME NEW s \in Saga  PROVE FilaUnaVez(s, q)'
  BY <1>2 DEF Aparte, FilaUnaVez, UnaVezEn
<1>3. QED
  BY <1>1, <1>2 DEF UnaVezEn

\* All that PasoDe touches of the log, the handlers and the counts.
LEMMA AlcancePaso ==
  ASSUME NEW p \in Proceso, NEW k \in Paso, PasoDe(p, k)
  PROVE  /\ UNCHANGED log \/ \E st \in SagaStatus : Marcar(actual[p][k], k, st)
         /\ UNCHANGED pc \/ \E l : Ir(p, k, l)
         /\ UNCHANGED actual \/ \E m : actual' = [actual EXCEPT ![p][k] = m]
         /\ UNCHANGED reservas \/ k = "RESERVAR_STOCK"
         /\ UNCHANGED liberaciones \/ k = "COMPENSAR_STOCK"
<1> USE DEF PasoDe, Manejar, Comun, Efecto, Recibir, Descartar, CrearPaso,
            MarcarCompensando, Completar, Publicar, RegistrarFallo, PublicarCompensacion,
            Ack, CrearPedido, LeerReserva, EscribirReserva, CobrarPago, NotificarCliente,
            ConfirmarPedido, CancelarPedido, Cerrar, LeerCompensacion,
            EscribirCompensacion, FallaPublicar, FallaBD, FallaConsulta, tablas, manejador
<1>1. UNCHANGED log \/ \E st \in SagaStatus : Marcar(actual[p][k], k, st)
  BY DEF SagaStatus
<1>2. UNCHANGED pc \/ \E l : Ir(p, k, l)
  OBVIOUS
<1>3. UNCHANGED actual \/ \E m : actual' = [actual EXCEPT ![p][k] = m]
  OBVIOUS
<1>4. UNCHANGED reservas \/ k = "RESERVAR_STOCK"
  OBVIOUS
<1>5. UNCHANGED liberaciones \/ k = "COMPENSAR_STOCK"
  OBVIOUS
<1>6. QED
  BY <1>1, <1>2, <1>3, <1>4, <1>5

\* The handler of another queue is Aparte.
LEMMA OtroPaso ==
  ASSUME TypeInv, NEW q \in PasoStock, NEW p \in Proceso, NEW k \in Paso, k # q,
         PasoDe(p, k)
  PROVE  Aparte(q)
<1>0. q \in Paso
  BY DEF PasoStock, Paso
<1>1. ASSUME NEW s \in Saga  PROVE log'[s][q] = log[s][q]
  <2>1. UNCHANGED log \/ \E st : Marcar(actual[p][k], k, st)
    BY AlcancePaso
  <2>2. QED
    BY <1>0, <2>1, MarcarOtro, Tipos
<1>2. ASSUME NEW r \in Proceso
      PROVE  pc'[r][q] = pc[r][q] /\ actual'[r][q] = actual[r][q]
  <2>1. UNCHANGED pc \/ \E l : Ir(p, k, l)
    BY AlcancePaso
  <2>2. UNCHANGED actual \/ \E m : actual' = [actual EXCEPT ![p][k] = m]
    BY AlcancePaso
  <2>3. pc'[r][q] = pc[r][q]
    BY <1>0, <2>1, Dominios DEF Ir
  <2>4. actual'[r][q] = actual[r][q]
    BY <1>0, <2>2, Dominios
  <2>5. QED
    BY <2>3, <2>4
<1>3. Cuenta(q)' = Cuenta(q)
  BY AlcancePaso DEF Cuenta, PasoStock
<1>4. QED
  BY <1>1, <1>2, <1>3 DEF Aparte

\* The commit of the stock: its handler is the only one past the look-up.
LEMMA EscribirUnaVez ==
  ASSUME TypeInv, NEW q \in PasoStock, UnaVezEn(q), NEW p \in Proceso, UnProceso,
         pc[p][q] = "escribir", Ir(p, q, "completar"), UNCHANGED <<log, actual>>,
         Cuenta(q)' = [Cuenta(q) EXCEPT ![actual[p][q]] = @ + 1]
  PROVE  UnaVezEn(q)'
<1> DEFINE m == actual[p][q]
<1>1. q \in Paso /\ m \in Saga
  BY Tipos DEF PasoStock, Paso
<1>2. log[m][q] # Ninguno /\ Cuenta(q)[m] = 0
  BY DEF UnaVezEn, ManejadorUnaVez
<1>3. Cuenta(q) \in [Saga -> Nat]
  BY Tipos DEF Cuenta
<1>4. ASSUME NEW r \in Proceso  PROVE ManejadorUnaVez(r, q)'
  <2>1. r = p
    BY DEF UnProceso
  <2>2. pc'[p][q] = "completar"
    BY <1>1, Dominios DEF Ir
  <2>3. QED
    BY <2>1, <2>2 DEF ManejadorUnaVez
<1>5. ASSUME NEW s \in Saga  PROVE FilaUnaVez(s, q)'
  <2>1. CASE s = m
    BY <1>1, <1>2, <1>3, <2>1 DEF FilaUnaVez
  <2>2. CASE s # m
    BY <1>1, <1>3, <2>2 DEF FilaUnaVez, UnaVezEn
  <2>3. QED
    BY <2>1, <2>2
<1>6. QED
  BY <1>4, <1>5 DEF UnaVezEn

\* Any other step of the handler: no count changes, no row disappears, and a
\* position that may still lead to the write is reached with the row it needs.
LEMMA SinEscribirUnaVez ==
  ASSUME TypeInv, NEW q \in PasoStock, UnaVezEn(q), NEW p \in Proceso, UnProceso,
         Cuenta(q)' = Cuenta(q),
         \A s \in Saga : log[s][q] # Ninguno => log'[s][q] # Ninguno,
         ManejadorUnaVez(p, q)'
  PROVE  UnaVezEn(q)'
<1>1. ASSUME NEW r \in Proceso  PROVE ManejadorUnaVez(r, q)'
  BY DEF UnProceso
<1>2. ASSUME NEW s \in Saga  PROVE FilaUnaVez(s, q)'
  BY DEF FilaUnaVez, UnaVezEn
<1>3. QED
  BY <1>1, <1>2 DEF UnaVezEn

\* The positions from which a handler may still write the stock, and the
\* steps that lead there.
Previa == {"crear", "compensando", "efecto", "escribir"}

\* A step that leads to none of them.
LEMMA LejosUnaVez ==
  ASSUME TypeInv, NEW q \in PasoStock, UnaVezEn(q), NEW p \in Proceso, UnProceso,
         PasoDe(p, q), Cuenta(q)' = Cuenta(q), pc'[p][q] \notin Previa
  PROVE  UnaVezEn(q)'
<1>1. q \in Paso
  BY DEF PasoStock, Paso
<1>2. UNCHANGED log \/ \E st \in SagaStatus : Marcar(actual[p][q], q, st)
  BY <1>1, AlcancePaso
<1>3. \A s \in Saga : log[s][q] # Ninguno => log'[s][q] # Ninguno
  <2>1. \A st \in SagaStatus : st # Ninguno
    BY DEF SagaStatus
  <2> SUFFICES ASSUME NEW s \in Saga, log[s][q] # Ninguno  PROVE log'[s][q] # Ninguno
    OBVIOUS
  <2>2. ASSUME NEW st \in SagaStatus, Marcar(actual[p][q], q, st)
        PROVE  log'[s][q] \in {log[s][q], st}
    <3>1. CASE s = actual[p][q]
      BY <1>1, <2>2, <3>1, Tipos DEF Marcar, LogT
    <3>2. CASE s # actual[p][q]
      BY <2>2, <3>2, Tipos DEF Marcar, LogT
    <3>3. QED
      BY <3>1, <3>2
  <2>3. QED
    BY <1>2, <2>1, <2>2
<1>4. ManejadorUnaVez(p, q)'
  BY DEF ManejadorUnaVez, Previa
<1>5. QED
  BY <1>3, <1>4, SinEscribirUnaVez

LEMMA RecibirUnaVez ==
  ASSUME TypeInv, NEW q \in PasoStock, UnaVezEn(q), NEW p \in Proceso, UnProceso,
         NEW s \in Saga, Recibir(p, q, s)
  PROVE  UnaVezEn(q)'
<1>1. q \in Paso
  BY DEF PasoStock, Paso
<1>2. log' = log /\ Cuenta(q)' = Cuenta(q)
  BY DEF Recibir, tablas, Cuenta
<1>3. actual'[p][q] = s /\ pc'[p][q] = "crear"
  BY <1>1, Dominios DEF Recibir, Ir
<1>4. log[s][q] = Ninguno
  BY DEF Recibir, YaProcesado
<1>5. ManejadorUnaVez(p, q)'
  BY <1>2, <1>3, <1>4 DEF ManejadorUnaVez
<1>6. QED
  BY <1>2, <1>5, SinEscribirUnaVez

LEMMA CrearUnaVez ==
  ASSUME TypeInv, NEW q \in PasoStock, UnaVezEn(q), NEW p \in Proceso, UnProceso,
         CrearPaso(p, q)
  PROVE  UnaVezEn(q)'
<1> DEFINE m == actual[p][q]
<1>1. q \in Paso /\ m \in Saga
  BY Tipos DEF CrearPaso, PasoStock, Paso
<1>2. log[m][q] = Ninguno
  BY DEF CrearPaso, UnaVezEn, ManejadorUnaVez
<1>3. Marcar(m, q, "PENDING")
  BY <1>2 DEF CrearPaso, YaProcesado
<1>4. Cuenta(q)' = Cuenta(q) /\ actual' = actual
  BY DEF CrearPaso, Cuenta, manejador
<1>5. PICK l \in {"compensando", "efecto"} : Ir(p, q, l)
  BY DEF CrearPaso
<1>6. log'[m][q] = "PENDING" /\ pc'[p][q] = l
  BY <1>1, <1>3, <1>5, Dominios, Tipos DEF Marcar, Ir, LogT
<1>7. Cuenta(q)[m] = 0
  BY <1>1, <1>2 DEF UnaVezEn, FilaUnaVez
<1>8. ManejadorUnaVez(p, q)'
  BY <1>4, <1>6, <1>7 DEF ManejadorUnaVez
<1>9. \A s \in Saga : log[s][q] # Ninguno => log'[s][q] # Ninguno
  BY <1>1, <1>3, Dominios DEF Marcar
<1>10. QED
  BY <1>4, <1>8, <1>9, SinEscribirUnaVez

LEMMA CompensandoUnaVez ==
  ASSUME TypeInv, NEW q \in PasoStock, UnaVezEn(q), NEW p \in Proceso, UnProceso,
         MarcarCompensando(p, q)
  PROVE  UnaVezEn(q)'
<1> DEFINE m == actual[p][q]
<1>1. q \in Paso /\ m \in Saga
  BY Tipos DEF MarcarCompensando, PasoStock, Paso
<1>2. Cuenta(q)' = Cuenta(q) /\ actual' = actual
  BY DEF MarcarCompensando, Cuenta, manejador
<1>3. log'[m][q] = "COMPENSATING" /\ pc'[p][q] = "efecto"
  BY <1>1, Dominios, Tipos DEF MarcarCompensando, Marcar, Ir, LogT
<1>4. Cuenta(q)[m] = 0
  BY DEF MarcarCompensando, UnaVezEn, ManejadorUnaVez
<1>5. ManejadorUnaVez(p, q)'
  BY <1>2, <1>3, <1>4 DEF ManejadorUnaVez
<1>6. \A s \in Saga : log[s][q] # Ninguno => log'[s][q] # Ninguno
  BY <1>1, Dominios DEF MarcarCompensando, Marcar
<1>7. QED
  BY <1>2, <1>5, <1>6, SinEscribirUnaVez

\* A handler reads the stock, or finds that it must not.
LEMMA LeerUnaVez ==
  ASSUME TypeInv, NEW q \in PasoStock, UnaVezEn(q), NEW p \in Proceso, UnProceso,
         pc[p][q] = "efecto", NEW l \in {"escribir", "fallo"}, Ir(p, q, l),
         UNCHANGED <<actual, tablas>>
  PROVE  UnaVezEn(q)'
<1>1. q \in Paso
  BY DEF PasoStock, Paso
<1>2. log' = log /\ Cuenta(q)' = Cuenta(q)
  BY DEF tablas, Cuenta
<1>3. pc'[p][q] = l
  BY <1>1, Dominios DEF Ir
<1>4. ManejadorUnaVez(p, q)'
  BY <1>2, <1>3 DEF ManejadorUnaVez, UnaVezEn
<1>5. QED
  BY <1>2, <1>4, SinEscribirUnaVez

LEMMA PropioUnaVez ==
  ASSUME TypeInv, NEW q \in PasoStock, UnaVezEn(q), NEW p \in Proceso, UnProceso,
         PasoDe(p, q)
  PROVE  UnaVezEn(q)'
<1>1. q \in Paso
  BY DEF PasoStock, Paso
<1>2. ASSUME NEW l, l \notin Previa, Ir(p, q, l), UNCHANGED <<reservas, liberaciones>>
      PROVE  UnaVezEn(q)'
  <2>1. pc'[p][q] = l
    BY <1>1, <1>2, Dominios DEF Ir
  <2>2. Cuenta(q)' = Cuenta(q)
    BY <1>2 DEF Cuenta
  <2>3. QED
    BY <1>2, <2>1, <2>2, LejosUnaVez
<1>3. CASE \E s \in Saga : Recibir(p, q, s)
  BY <1>3, RecibirUnaVez
<1>4. CASE \E s \in Saga : Descartar(p, q, s)
  <2>1. Aparte(q)
    BY <1>4 DEF Descartar, manejador, tablas, Aparte, Cuenta
  <2>2. QED
    BY <2>1, AparteUnaVez
<1>5. CASE CrearPaso(p, q)
  BY <1>5, CrearUnaVez
<1>6. CASE MarcarCompensando(p, q)
  BY <1>6, CompensandoUnaVez
<1>7. CASE Completar(p, q)
  <2>1. PICK l \in {"ack", "publicar"} : Ir(p, q, l)
    BY <1>7 DEF Completar
  <2>2. QED
    BY <1>2, <1>7, <2>1 DEF Completar, Previa
<1>8. CASE Publicar(p, q) \/ PublicarCompensacion(p, q)
  BY <1>2, <1>8 DEF Publicar, PublicarCompensacion, tablas, Previa
<1>9. CASE RegistrarFallo(p, q)
  <2>1. Ir(p, q, "compensar")
    BY <1>9 DEF PasoDe, RegistrarFallo
  <2>2. QED
    BY <1>2, <1>9, <2>1 DEF RegistrarFallo, Previa
<1>10. CASE Ack(p, q)
  BY <1>2, <1>10 DEF Ack, tablas, Previa
<1>11. CASE Efecto(p, q)
  <2>1. CASE q = "RESERVAR_STOCK" /\ LeerReserva(p)
    <3>1. PICK l \in {"escribir", "fallo"} : Ir(p, q, l)
      BY <2>1 DEF LeerReserva
    <3>2. QED
      BY <2>1, <3>1, LeerUnaVez DEF LeerReserva
  <2>2. CASE q = "COMPENSAR_STOCK" /\ LeerCompensacion(p)
    <3>1. PICK l \in {"escribir", "fallo"} : Ir(p, q, l)
      BY <2>2 DEF LeerCompensacion
    <3>2. QED
      BY <2>2, <3>1, LeerUnaVez DEF LeerCompensacion
  <2>3. CASE q = "RESERVAR_STOCK" /\ EscribirReserva(p)
    BY <2>3, EscribirUnaVez DEF EscribirReserva, Cuenta, manejador
  <2>4. CASE q = "COMPENSAR_STOCK" /\ EscribirCompensacion(p)
    BY <2>4, EscribirUnaVez DEF EscribirCompensacion, Cuenta, manejador
  <2>5. QED
    BY <1>11, <2>1, <2>2, <2>3, <2>4 DEF Efecto, PasoStock
<1>12. CASE FallaPublicar(p, q) \/ FallaBD(p, q)
  BY <1>2, <1>12 DEF FallaPublicar, FallaBD, tablas, Previa
<1>14. CASE \E s \in Saga : FallaConsulta(p, q, s)
  BY <1>2, <1>14 DEF FallaConsulta, tablas, Previa
<1>15. QED
  BY <1>3, <1>4, <1>5, <1>6, <1>7, <1>8, <1>9, <1>10, <1>11, <1>12, <1>14
     DEF PasoDe, Manejar, Comun

LEMMA UnaVezNext ==
  ASSUME TypeInv, UnaVez, UnProceso, [Next]_vars
  PROVE  UnaVez'
<1> SUFFICES ASSUME NEW q \in PasoStock  PROVE UnaVezEn(q)'
  BY DEF UnaVez
<1>0. q \in Paso /\ UnaVezEn(q)
  BY DEF UnaVez, PasoStock, Paso
<1>1. ASSUME NEW p \in Proceso, NEW k \in Paso, PasoDe(p, k)  PROVE UnaVezEn(q)'
  <2>1. CASE k = q
    BY <1>0, <1>1, <2>1, PropioUnaVez
  <2>2. CASE k # q
    BY <1>0, <1>1, <2>2, OtroPaso, AparteUnaVez
  <2>3. QED
    BY <2>1, <2>2
<1>2. CASE UNCHANGED <<pc, actual, tablas>>
  BY <1>0, <1>2, AparteUnaVez DEF Aparte, tablas, Cuenta
<1>3. CASE \E s \in Saga, F \in Banderas : IniciarSaga(s, F)
  BY <1>2, <1>3 DEF IniciarSaga, manejador
<1>4. ASSUME NEW p \in Proceso, ConexionPerdida(p)  PROVE UnaVezEn(q)'
  BY <1>2, <1>4 DEF ConexionPerdida
<1>5. ASSUME NEW p \in Proceso, PasoFinal(p)  PROVE UnaVezEn(q)'
  <2>1. Parar(p) /\ UNCHANGED <<reservas, liberaciones>>
    BY <1>5, AlcanceFinal
  <2>2. pc'[p][q] = "libre"
    BY <1>0, <2>1, Dominios DEF Parar
  <2>3. Cuenta(q)' = Cuenta(q)
    BY <2>1 DEF Cuenta
  <2>4. ManejadorUnaVez(p, q)'
    BY <2>2 DEF ManejadorUnaVez
  <2>5. ASSUME NEW s \in Saga, log[s][q] # Ninguno  PROVE log'[s][q] # Ninguno
    <3>1. ASSUME NEW m \in Saga, NEW k \in Paso, Marcar(m, k, "FAILED")
          PROVE  log'[s][q] \in {log[s][q], "FAILED"}
      BY <1>0, <3>1, Tipos DEF Marcar, LogT
    <3>2. QED
      BY <1>5, <2>5, <3>1, AlcanceFinal
  <2>6. QED
    BY <1>0, <2>3, <2>4, <2>5, SinEscribirUnaVez
<1>6. CASE UNCHANGED vars
  BY <1>2, <1>6 DEF vars, tablas
<1>7. QED
  BY <1>1, <1>3, <1>4, <1>5, <1>6, PasosDelProceso DEF Next

LEMMA UnaVezInit == Init => UnaVez
BY ConstantesOK DEF Init, UnaVez, UnaVezEn, ManejadorUnaVez, FilaUnaVez, PasoStock, Paso, Cuenta

\* While a single process consumes the queues, as run_saga_consumers is
\* deployed, the stock of an order is taken at most once and given back at
\* most once, whatever fails.
THEOREM UnaVezConUnProceso ==
  ASSUME UnProceso
  PROVE  Spec => []EfectoUnaVez
<1>1. Init => TypeInv /\ UnaVez
  BY UnaVezInit, InitTypeInv
<1>2. TypeInv /\ UnaVez /\ [Next]_vars => TypeInv' /\ UnaVez'
  BY TypeInvNext, UnaVezNext
<1>3. TypeInv /\ UnaVez => EfectoUnaVez
  <2> SUFFICES ASSUME UnaVez, NEW s \in Saga
               PROVE  reservas[s] <= 1 /\ liberaciones[s] <= 1
    BY DEF EfectoUnaVez
  <2>1. FilaUnaVez(s, "RESERVAR_STOCK") /\ FilaUnaVez(s, "COMPENSAR_STOCK")
    BY DEF UnaVez, UnaVezEn, PasoStock
  <2>2. QED
    BY <2>1 DEF FilaUnaVez, Cuenta
<1>4. QED
  BY <1>1, <1>2, <1>3, PTL DEF Spec

-----------------------------------------------------------------------------
(* LibroDeStock, when only one process consumes the queues: its handlers    *)
(* yield the event loop only while they publish, so that none of them runs  *)
(* between another's read of the stock and its commit.                      *)

Exclusion == \A p \in Proceso, q, k \in Paso :
               pc[p][q] \in Sincrono /\ pc[p][k] \in Sincrono => q = k

LecturaVigente == \A p \in Proceso, q \in Paso :
  pc[p][q] = "escribir" => leido[p][q] = stock[ItemDe[actual[p][q]]]

Libro == Exclusion /\ LecturaVigente

\* What a step of a handler does to the stock, to what it has read and to
\* its hold of the event loop.
LEMMA AlcanceStock ==
  ASSUME NEW p \in Proceso, NEW k \in Paso, PasoDe(p, k)
  PROVE  /\ UNCHANGED <<stock, reservas, liberaciones>> \/ pc[p][k] = "escribir"
         /\ UNCHANGED leido \/ \E n : leido' = [leido EXCEPT ![p][k] = n]
         /\ \/ pc[p][k] \in Sincrono \/ ~Ocupado(p) \/ UNCHANGED pc
            \/ \E l : l \notin Sincrono /\ Ir(p, k, l)
         /\ \/ k = "RESERVAR_STOCK" /\ LeerReserva(p)
            \/ k = "COMPENSAR_STOCK" /\ LeerCompensacion(p)
            \/ UNCHANGED pc
            \/ \E l : l # "escribir" /\ Ir(p, k, l)
<1> USE DEF PasoDe, Manejar, Comun, Efecto, Recibir, Descartar, CrearPaso,
            MarcarCompensando, Completar, Publicar, RegistrarFallo, PublicarCompensacion,
            Ack, CrearPedido, EscribirReserva, CobrarPago, NotificarCliente,
            ConfirmarPedido, CancelarPedido, Cerrar,
            EscribirCompensacion, FallaPublicar, FallaBD, FallaConsulta, tablas, manejador
<1>1. UNCHANGED <<stock, reservas, liberaciones>> \/ pc[p][k] = "escribir"
  BY DEF LeerReserva, LeerCompensacion
<1>2. UNCHANGED leido \/ \E n : leido' = [leido EXCEPT ![p][k] = n]
  BY DEF LeerReserva, LeerCompensacion
<1>3. \/ pc[p][k] \in Sincrono \/ ~Ocupado(p) \/ UNCHANGED pc
      \/ \E l : l \notin Sincrono /\ Ir(p, k, l)
  BY DEF Sincrono, Relee, LeerReserva, LeerCompensacion
<1>4. \/ k = "RESERVAR_STOCK" /\ LeerReserva(p)
      \/ k = "COMPENSAR_STOCK" /\ LeerCompensacion(p)
      \/ UNCHANGED pc
      \/ \E l : l # "escribir" /\ Ir(p, k, l)
  OBVIOUS
<1>5. QED
  BY <1>1, <1>2, <1>3, <1>4

LEMMA PasoExclusion ==
  ASSUME TypeInv, Exclusion, UnProceso, NEW p \in Proceso, NEW k \in Paso, PasoDe(p, k)
  PROVE  Exclusion'
<1> SUFFICES ASSUME NEW a \in Paso, NEW b \in Paso,
                    pc'[p][a] \in Sincrono, pc'[p][b] \in Sincrono
             PROVE  a = b
  BY DEF Exclusion, UnProceso
<1>1. UNCHANGED pc \/ \E l : Ir(p, k, l)
  BY AlcancePaso
<1>2. \A q \in Paso : q # k => pc'[p][q] = pc[p][q]
  BY <1>1, Dominios DEF Ir
<1>3. CASE pc[p][k] \in Sincrono
  BY <1>2, <1>3 DEF Exclusion
<1>4. CASE ~Ocupado(p)
  BY <1>2, <1>4 DEF Ocupado
<1>5. CASE UNCHANGED pc
  BY <1>5 DEF Exclusion
<1>6. ASSUME NEW l, l \notin Sincrono, Ir(p, k, l)  PROVE a = b
  <2>1. pc'[p][k] \notin Sincrono
    BY <1>6, Dominios DEF Ir
  <2>2. QED
    BY <1>2, <2>1 DEF Exclusion
<1>7. QED
  BY <1>3, <1>4, <1>5, <1>6, AlcanceStock

LEMMA PasoLectura ==
  ASSUME TypeInv, Libro, UnProceso, NEW p \in Proceso, NEW k \in Paso, PasoDe(p, k)
  PROVE  LecturaVigente'
<1> SUFFICES ASSUME NEW q \in Paso, pc'[p][q] = "escribir"
             PROVE  leido'[p][q] = stock'[ItemDe[actual'[p][q]]]
  BY DEF LecturaVigente, UnProceso
<1>1. CASE q # k
  <2>1. UNCHANGED pc \/ \E l : Ir(p, k, l)
    BY AlcancePaso
  <2>2. pc[p][q] = "escribir"
    BY <1>1, <2>1, Dominios DEF Ir
  <2>3. UNCHANGED actual \/ \E m : actual' = [actual EXCEPT ![p][k] = m]
    BY AlcancePaso
  <2>4. actual'[p][q] = actual[p][q]
    BY <1>1, <2>3, Dominios
  <2>5. UNCHANGED leido \/ \E n : leido' = [leido EXCEPT ![p][k] = n]
    BY AlcanceStock
  <2>6. leido'[p][q] = leido[p][q]
    BY <1>1, <2>5, Tipos
  <2>7. pc[p][k] # "escribir"
    BY <1>1, <2>2 DEF Libro, Exclusion, Sincrono
  <2>8. stock' = stock
    BY <2>7, AlcanceStock
  <2>9. QED
    BY <2>2, <2>4, <2>6, <2>8 DEF Libro, LecturaVigente
<1>2. CASE q = k
  <2>1. CASE k = "RESERVAR_STOCK" /\ LeerReserva(p)
    <3>1. Ir(p, k, "escribir") \/ Ir(p, k, "fallo")
      BY <2>1 DEF LeerReserva
    <3>2. ~Ir(p, k, "fallo")
      BY <1>2, Dominios DEF Ir
    <3>3. leido' = [leido EXCEPT ![p][k] = stock[ItemDe[actual[p][k]]]]
      BY <2>1, <3>2 DEF LeerReserva
    <3>4. stock' = stock /\ actual' = actual
      BY <2>1 DEF LeerReserva, tablas
    <3>5. QED
      BY <1>2, <3>3, <3>4, Tipos
  <2>2. CASE k = "COMPENSAR_STOCK" /\ LeerCompensacion(p)
    <3>1. Ir(p, k, "escribir") \/ Ir(p, k, "fallo")
      BY <2>2 DEF LeerCompensacion
    <3>2. ~Ir(p, k, "fallo")
      BY <1>2, Dominios DEF Ir
    <3>3. leido' = [leido EXCEPT ![p][k] = stock[ItemDe[actual[p][k]]]]
      BY <2>2, <3>2 DEF LeerCompensacion
    <3>4. stock' = stock /\ actual' = actual
      BY <2>2 DEF LeerCompensacion, tablas
    <3>5. QED
      BY <1>2, <3>3, <3>4, Tipos
  <2>3. CASE UNCHANGED pc
    <3>1. pc[p][k] = "escribir"
      BY <1>2, <2>3
    <3>2. \E l : l # "escribir" /\ Ir(p, k, l)
      BY <3>1 DEF PasoDe, Manejar, Comun, Efecto, Recibir, Descartar, CrearPaso,
            MarcarCompensando, Completar, Publicar, RegistrarFallo, PublicarCompensacion,
            Ack, CrearPedido, EscribirReserva, CobrarPago, NotificarCliente,
            ConfirmarPedido, CancelarPedido, Cerrar, LeerReserva, LeerCompensacion,
            EscribirCompensacion, FallaPublicar, FallaBD, FallaConsulta
    <3>3. QED
      BY <1>2, <3>2, Dominios DEF Ir
  <2>4. ASSUME NEW l, l # "escribir", Ir(p, k, l)  PROVE FALSE
    BY <1>2, <2>4, Dominios DEF Ir
  <2>5. QED
    BY <2>1, <2>2, <2>3, <2>4, AlcanceStock
<1>3. QED
  BY <1>1, <1>2

LEMMA LibroNext ==
  ASSUME TypeInv, Libro, UnProceso, [Next]_vars
  PROVE  Libro'
<1>1. ASSUME NEW p \in Proceso, NEW k \in Paso, PasoDe(p, k)  PROVE Libro'
  BY <1>1, PasoExclusion, PasoLectura DEF Libro
<1>2. CASE UNCHANGED <<pc, actual, leido, stock>>
  BY <1>2 DEF Libro, Exclusion, LecturaVigente
<1>3. CASE \E s \in Saga, F \in Banderas : IniciarSaga(s, F)
  BY <1>2, <1>3 DEF IniciarSaga, manejador, tablas
<1>4. ASSUME NEW p \in Proceso, ConexionPerdida(p)  PROVE Libro'
  BY <1>2, <1>4 DEF ConexionPerdida, tablas
<1>5. ASSUME NEW p \in Proceso, PasoFinal(p)  PROVE Libro'
  <2>1. Parar(p)
    BY <1>5, AlcanceFinal
  <2>2. \A q \in Paso : pc'[p][q] = "libre"
    BY <2>1, Dominios DEF Parar
  <2>3. QED
    BY <2>2 DEF Libro, Exclusion, LecturaVigente, Sincrono, UnProceso
<1>6. CASE UNCHANGED vars
  BY <1>2, <1>6 DEF vars
<1>7. QED
  BY <1>1, <1>3, <1>4, <1>5, <1>6, PasosDelProceso DEF Next

LEMMA EscribirAsiento ==
  ASSUME TypeInv, LecturaVigente, NEW p \in Proceso,
         EscribirReserva(p) \/ EscribirCompensacion(p)
  PROVE  Asiento
<1>0. "RESERVAR_STOCK" \in Paso /\ "COMPENSAR_STOCK" \in Paso
  BY DEF Paso
<1>1. CASE EscribirReserva(p)
  <2> DEFINE m == actual[p]["RESERVAR_STOCK"]
  <2>1. /\ m \in Saga /\ ItemDe[m] \in Item
        /\ leido[p]["RESERVAR_STOCK"] = stock[ItemDe[m]]
    BY <1>0, <1>1, Tipos DEF EscribirReserva, LecturaVigente, TypeInv, Posicion, PosicionDe
  <2>2. stock'[ItemDe[m]] = stock[ItemDe[m]] - Cantidad[m]
    BY <1>1, <2>1, Tipos DEF EscribirReserva
  <2>3. reservas'[m] # reservas[m]
    BY <1>1, <2>1, Tipos DEF EscribirReserva
  <2>4. \A s \in Saga : s # m => reservas'[s] = reservas[s]
    BY <1>1, Tipos DEF EscribirReserva
  <2>5. \A i \in Item : i # ItemDe[m] => stock'[i] = stock[i]
    BY <1>1, Tipos DEF EscribirReserva
  <2>6. liberaciones' = liberaciones
    BY <1>1 DEF EscribirReserva
  <2>7. QED
    BY <2>1, <2>2, <2>3, <2>4, <2>5, <2>6 DEF Asiento
<1>2. CASE EscribirCompensacion(p)
  <2> DEFINE m == actual[p]["COMPENSAR_STOCK"]
  <2>1. /\ m \in Saga /\ ItemDe[m] \in Item
        /\ leido[p]["COMPENSAR_STOCK"] = stock[ItemDe[m]]
    BY <1>0, <1>2, Tipos DEF EscribirCompensacion, LecturaVigente, TypeInv, Posicion,
                             PosicionDe
  <2>2. stock'[ItemDe[m]] = stock[ItemDe[m]] + Cantidad[m]
    BY <1>2, <2>1, Tipos DEF EscribirCompensacion
  <2>3. liberaciones'[m] # liberaciones[m]
    BY <1>2, <2>1, Tipos DEF EscribirCompensacion
  <2>4. \A s \in Saga : s # m => liberaciones'[s] = liberaciones[s]
    BY <1>2, Tipos DEF EscribirCompensacion
  <2>5. \A i \in Item : i # ItemDe[m] => stock'[i] = stock[i]
    BY <1>2, Tipos DEF EscribirCompensacion
  <2>6. reservas' = reservas
    BY <1>2 DEF EscribirCompensacion
  <2>7. QED
    BY <2>1, <2>2, <2>3, <2>4, <2>5, <2>6 DEF Asiento
<1>3. QED
  BY <1>1, <1>2

\* While a single process consumes the queues, every commit of a stock adds
\* or takes the quantity of one order on the stock it overwrites, for any
\* number of orders of the same item and any faults: no update is lost.
THEOREM LibroConUnProceso ==
  ASSUME UnProceso
  PROVE  Spec => LibroDeStock
<1>1. Init => TypeInv /\ Libro
  <2>1. Init => Libro
    BY DEF Init, Libro, Exclusion, LecturaVigente, Sincrono
  <2>2. QED
    BY <2>1, InitTypeInv
<1>2. TypeInv /\ Libro /\ [Next]_vars => TypeInv' /\ Libro'
  BY TypeInvNext, LibroNext
<1>3. TypeInv /\ Libro /\ [Next]_vars => [Asiento]_vars
  <2> SUFFICES ASSUME TypeInv, Libro, [Next]_vars  PROVE Asiento
    OBVIOUS
  <2>1. \/ UNCHANGED <<stock, reservas, liberaciones>>
        \/ \E p \in Proceso : EscribirReserva(p) \/ EscribirCompensacion(p)
    BY QuienEscribe
  <2>2. CASE UNCHANGED <<stock, reservas, liberaciones>>
    BY <2>2 DEF Asiento
  <2>3. QED
    BY <2>1, <2>2, EscribirAsiento DEF Libro
<1>4. QED
  BY <1>1, <1>2, <1>3, PTL DEF Spec, LibroDeStock
=============================================================================
