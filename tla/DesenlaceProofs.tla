-------------------------- MODULE DesenlaceProofs --------------------------
(***************************************************************************)
(* The outcome of an order saga when one process consumes the queues and   *)
(* neither a database call nor the answer of a publish is lost: the saga   *)
(* takes one way only, its end is final, and it implements CicloPedido.    *)
(* Processes may die, publishes may fail and connections may be lost, any  *)
(* number of times.                                                        *)
(***************************************************************************)
EXTENDS PedidoSagaProofs

USE DEF Ninguno

\* No fault leaves the outcome of a call unknown to the handler.
FallasLimpias == Fallas \cap {"ambigua", "bd"} = {}

-----------------------------------------------------------------------------
(* A saga is on one step of its way at a time.                             *)

\* Something of step q of saga s exists: its row, a message or a handler.
Vivo(s, q) ==
  \/ log[s][q] # Ninguno
  \/ cola[q][s] > 0
  \/ \E p \in Proceso : actual[p][q] = s

\* Step q of saga s may still publish.
Pendiente(s, q) ==
  \/ cola[q][s] > 0 /\ log[s][q] = Ninguno
  \/ \E p \in Proceso : actual[p][q] = s /\ pc[p][q] \notin {"libre", "ack"}

\* The steps that can only come after q, and for COMPENSAR_STOCK the one that
\* its saga has left behind.
Tras(q) ==
  CASE q = "CREATE_PEDIDO"     -> Paso \ {"CREATE_PEDIDO"}
    [] q = "RESERVAR_STOCK"    -> Paso \ {"CREATE_PEDIDO", "RESERVAR_STOCK"}
    [] q = "COBRAR_PAGO"       -> {"NOTIFICAR_CLIENTE", "CONFIRMAR_PEDIDO", "COMPENSAR_STOCK",
                                   "CANCELAR_PEDIDO"}
    [] q = "NOTIFICAR_CLIENTE" -> {"CONFIRMAR_PEDIDO", "COMPENSAR_STOCK", "CANCELAR_PEDIDO"}
    [] q = "COMPENSAR_STOCK"   -> {"CONFIRMAR_PEDIDO", "CANCELAR_PEDIDO"}
    [] OTHER                   -> {}

Camino(s) ==
  /\ \A q \in Paso : Pendiente(s, q) => \A k \in Tras(q) : ~Vivo(s, k)
  /\ Vivo(s, "CONFIRMAR_PEDIDO") =>
       ~Vivo(s, "COMPENSAR_STOCK") /\ ~Vivo(s, "CANCELAR_PEDIDO")
  /\ s \notin iniciadas => \A q \in Paso : ~Vivo(s, q)

\* A handler past create_step has its row, and one that is free no message.
Fila == \A p \in Proceso, q \in Paso :
          /\ pc[p][q] \notin {"libre", "crear"} => log[actual[p][q]][q] # Ninguno
          /\ pc[p][q] = "libre" => actual[p][q] = Ninguno

Caminos == Fila /\ \A s \in Saga : Camino(s)

\* The state of the order is that of the step that set it, and a stock is
\* written only for an order that exists.
Pedido(s) ==
  /\ estado[s] = "CONFIRMADO" => log[s]["CONFIRMAR_PEDIDO"] # Ninguno
  /\ estado[s] = "CANCELADO" => log[s]["CANCELAR_PEDIDO"] # Ninguno
  /\ \A p \in Proceso, q \in PasoStock :
       pc[p][q] = "escribir" /\ actual[p][q] = s => estado[s] # Ninguno

\* While nothing has failed, an order is cancelled only if its stock was never
\* taken or has been given back.
Devuelto(s) ==
  /\ Vivo(s, "CANCELAR_PEDIDO") => reservas[s] = 0 \/ liberaciones[s] > 0
  /\ \A p \in Proceso :
       /\ /\ actual[p]["RESERVAR_STOCK"] = s
          /\ pc[p]["RESERVAR_STOCK"] \in {"fallo", "compensar"}
          => reservas[s] = 0
       /\ /\ actual[p]["COMPENSAR_STOCK"] = s
          /\ pc[p]["COMPENSAR_STOCK"] \in {"completar", "publicar"}
          => liberaciones[s] > 0

Pedidos == \A s \in Saga : Pedido(s) /\ (fallos = 0 => Devuelto(s))

-----------------------------------------------------------------------------
(* How the steps move along the way.                                        *)

\* What a step publishes, if anything, comes after it; the steps that publish
\* are in a row.
LEMMA Orden ==
  ASSUME NEW q \in Paso, NEW d \in Paso, d = Siguiente(q) \/ d = Compensacion(q)
  PROVE  /\ d \in Tras(q) /\ d \notin Tras(d) /\ q # d
         /\ Tras(q) \subseteq Paso /\ Tras(d) \subseteq Tras(q)
         /\ \A u \in Paso : d \in Tras(u) => u = q \/ q \in Tras(u) \/ u \in Tras(q)
         /\ d = "CONFIRMAR_PEDIDO" => {"COMPENSAR_STOCK", "CANCELAR_PEDIDO"} \subseteq Tras(q)
         /\ d \in {"COMPENSAR_STOCK", "CANCELAR_PEDIDO"} => "CONFIRMAR_PEDIDO" \in Tras(q)
<1>0. \/ q = "CREATE_PEDIDO" /\ d = "RESERVAR_STOCK"
      \/ q = "RESERVAR_STOCK" /\ d \in {"COBRAR_PAGO", "CANCELAR_PEDIDO"}
      \/ q = "COBRAR_PAGO" /\ d \in {"NOTIFICAR_CLIENTE", "COMPENSAR_STOCK"}
      \/ q = "NOTIFICAR_CLIENTE" /\ d \in {"CONFIRMAR_PEDIDO", "COMPENSAR_STOCK"}
      \/ q = "COMPENSAR_STOCK" /\ d = "CANCELAR_PEDIDO"
  BY DEF Paso, Siguiente, Compensacion
<1>1. d \in Tras(q) /\ d \notin Tras(d) /\ q # d
  BY <1>0 DEF Tras, Paso
<1>2. /\ d = "CONFIRMAR_PEDIDO" => {"COMPENSAR_STOCK", "CANCELAR_PEDIDO"} \subseteq Tras(q)
      /\ d \in {"COMPENSAR_STOCK", "CANCELAR_PEDIDO"} => "CONFIRMAR_PEDIDO" \in Tras(q)
  BY <1>0 DEF Tras, Paso
<1>3. Tras(q) \subseteq Paso /\ Tras(d) \subseteq Tras(q)
  BY <1>0 DEF Tras, Paso
<1>4. ASSUME NEW u \in Paso, d \in Tras(u)  PROVE u = q \/ q \in Tras(u) \/ u \in Tras(q)
  BY <1>0, <1>4 DEF Tras, Paso
<1>5. QED
  BY <1>1, <1>2, <1>3, <1>4

LEMMA TrasPaso == ASSUME NEW q \in Paso  PROVE Tras(q) \subseteq Paso
BY DEF Paso, Tras

\* Nothing new of step q of saga s.
MenguaEn(s, q) ==
  /\ Vivo(s, q)' => Vivo(s, q)
  /\ Pendiente(s, q)' => Pendiente(s, q)

Mengua(s) == \A q \in Paso : MenguaEn(s, q)

LEMMA MenguaCamino ==
  ASSUME NEW s \in Saga, Camino(s), Mengua(s), iniciadas \subseteq iniciadas'
  PROVE  Camino(s)'
<1> USE DEF Mengua, MenguaEn
<1>1. ASSUME NEW q \in Paso, Pendiente(s, q)', NEW k \in Tras(q)  PROVE ~Vivo(s, k)'
  BY <1>1, TrasPaso DEF Camino
<1>2. Vivo(s, "CONFIRMAR_PEDIDO")' =>
        ~Vivo(s, "COMPENSAR_STOCK")' /\ ~Vivo(s, "CANCELAR_PEDIDO")'
  BY DEF Camino, Paso
<1>3. ASSUME s \notin iniciadas', NEW q \in Paso  PROVE ~Vivo(s, q)'
  BY <1>3 DEF Camino
<1>4. QED
  BY <1>1, <1>2, <1>3 DEF Camino

\* Step q of saga s publishes to d and is done with it.
LEMMA PublicaCamino ==
  ASSUME NEW s \in Saga, Camino(s), NEW q \in Paso, NEW d \in Paso,
         d = Siguiente(q) \/ d = Compensacion(q),
         Pendiente(s, q), Vivo(s, q), ~Pendiente(s, q)', iniciadas' = iniciadas,
         \A k \in Paso : k # d => MenguaEn(s, k)
  PROVE  Camino(s)'
<1> USE Orden DEF MenguaEn
<1>1. \A k \in Tras(q) : ~Vivo(s, k)
  BY DEF Camino
<1>2. ASSUME NEW u \in Paso, Pendiente(s, u)', NEW k \in Tras(u)  PROVE ~Vivo(s, k)'
  <2>1. CASE u = d
    <3>1. k \in Tras(q) /\ k # d
      BY <2>1
    <3>2. QED
      BY <1>1, <3>1
  <2>2. CASE u # d
    <3>1. u # q /\ Pendiente(s, u)
      BY <1>2, <2>2
    <3>2. \A j \in Tras(u) : ~Vivo(s, j)
      BY <3>1 DEF Camino
    <3>3. q \notin Tras(u)
      BY <3>2
    <3>4. Vivo(s, u) \/ u \notin Tras(q)
      BY <3>1 DEF Pendiente, Vivo
    <3>5. d \notin Tras(u)
      BY <1>1, <3>1, <3>3, <3>4
    <3>6. k \in Paso /\ k # d
      BY <3>5, TrasPaso
    <3>7. QED
      BY <3>2, <3>6
  <2>3. QED
    BY <2>1, <2>2
<1>3. ASSUME Vivo(s, "CONFIRMAR_PEDIDO")'
      PROVE  ~Vivo(s, "COMPENSAR_STOCK")' /\ ~Vivo(s, "CANCELAR_PEDIDO")'
  <2>1. {"CONFIRMAR_PEDIDO", "COMPENSAR_STOCK", "CANCELAR_PEDIDO"} \subseteq Paso
    BY DEF Paso
  <2>2. CASE d = "CONFIRMAR_PEDIDO"
    BY <1>1, <2>1, <2>2
  <2>3. CASE d # "CONFIRMAR_PEDIDO"
    <3>1. Vivo(s, "CONFIRMAR_PEDIDO")
      BY <1>3, <2>1, <2>3
    <3>2. d \notin {"COMPENSAR_STOCK", "CANCELAR_PEDIDO"}
      BY <1>1, <3>1
    <3>3. QED
      BY <2>1, <3>1, <3>2 DEF Camino
  <2>4. QED
    BY <2>2, <2>3
<1>4. s \in iniciadas
  BY DEF Camino
<1>5. QED
  BY <1>2, <1>3, <1>4 DEF Camino

\* A queue that a step leaves alone.
LEMMA IgualEn ==
  ASSUME NEW s \in Saga, NEW q \in Paso,
         log'[s][q] = log[s][q], cola'[q][s] = cola[q][s],
         \A r \in Proceso : pc'[r][q] = pc[r][q] /\ actual'[r][q] = actual[r][q]
  PROVE  MenguaEn(s, q)
BY DEF MenguaEn, Vivo, Pendiente

\* What a step of the handler of k does to the log and the handler of another
\* queue: nothing.
LEMMA OtraFila ==
  ASSUME TypeInv, NEW p \in Proceso, NEW k \in Paso, NEW q \in Paso, k # q, PasoDe(p, k)
  PROVE  /\ \A s \in Saga : log'[s][q] = log[s][q]
         /\ \A r \in Proceso : pc'[r][q] = pc[r][q] /\ actual'[r][q] = actual[r][q]
<1>1. ASSUME NEW s \in Saga  PROVE log'[s][q] = log[s][q]
  <2>1. UNCHANGED log \/ \E st : Marcar(actual[p][k], k, st)
    BY AlcancePaso
  <2>2. QED
    BY <2>1, MarcarOtro, Tipos
<1>2. ASSUME NEW r \in Proceso
      PROVE  pc'[r][q] = pc[r][q] /\ actual'[r][q] = actual[r][q]
  <2>1. UNCHANGED pc \/ \E l : Ir(p, k, l)
    BY AlcancePaso
  <2>2. UNCHANGED actual \/ \E m : actual' = [actual EXCEPT ![p][k] = m]
    BY AlcancePaso
  <2>3. pc'[r][q] = pc[r][q]
    BY <2>1, Dominios DEF Ir
  <2>4. actual'[r][q] = actual[r][q]
    BY <2>2, Dominios
  <2>5. QED
    BY <2>3, <2>4
<1>3. QED
  BY <1>1, <1>2

\* A step of a handler under way that publishes nothing: it goes on with its
\* message, and at most updates its row.
Avanza(p, k) ==
  /\ pc[p][k] \notin {"libre", "ack"}
  /\ UNCHANGED <<actual, cola, iniciadas>>
  /\ UNCHANGED log \/ \E st \in SagaStatus : Marcar(actual[p][k], k, st)

\* What FallasLimpias rules out.
LEMMA SinDudas ==
  ASSUME FallasLimpias, NEW p \in Proceso, NEW q \in Paso
  PROVE  /\ ~FallaBD(p, q) /\ ~FallaRegistro(p, q)
         /\ \A s \in Saga : ~FallaConsulta(p, q, s)
         /\ ~Falla("ambigua")
BY DEF FallasLimpias, FallaBD, FallaRegistro, FallaConsulta, Falla

\* The steps of a handler, by what they do to its place on the way.
LEMMA Clases ==
  ASSUME TypeInv, FallasLimpias, NEW p \in Proceso, NEW k \in Paso, PasoDe(p, k)
  PROVE  \/ \E s \in Saga : Recibir(p, k, s) \/ Descartar(p, k, s)
         \/ Avanza(p, k)
         \/ Publicar(p, k) \/ PublicarCompensacion(p, k)
         \/ Ack(p, k)
<1>0. {"PENDING", "COMPENSATING", "COMPENSATED", "COMPLETED", "FAILED"} \subseteq SagaStatus
  BY DEF SagaStatus
<1>1. ASSUME CrearPaso(p, k) \/ MarcarCompensando(p, k) \/ Completar(p, k)
      PROVE  Avanza(p, k)
  BY <1>0, <1>1 DEF CrearPaso, MarcarCompensando, Completar, Avanza, peticion, manejador
<1>2. ASSUME RegistrarFallo(p, k), Compensacion(k) # Ninguno
      PROVE  Avanza(p, k)
  BY <1>0, <1>2 DEF RegistrarFallo, Avanza, peticion, manejador
<1>3. ASSUME Efecto(p, k)  PROVE Avanza(p, k)
  BY <1>3 DEF Efecto, CrearPedido, LeerReserva, EscribirReserva, CobrarPago,
              NotificarCliente, ConfirmarPedido, CancelarPedido, Cerrar, LeerCompensacion,
              EscribirCompensacion, Avanza, peticion, manejador, tablas
<1>4. ASSUME FallaPublicar(p, k)  PROVE Avanza(p, k)
  BY <1>4, SinDudas DEF FallaPublicar, Avanza, peticion, manejador, tablas
<1>5. QED
  BY <1>1, <1>2, <1>3, <1>4, SinDudas DEF PasoDe, Manejar, Comun

LEMMA RecibirMengua ==
  ASSUME TypeInv, UnProceso, NEW p \in Proceso, NEW k \in Paso, NEW m \in Saga,
         Recibir(p, k, m) \/ Descartar(p, k, m), NEW s \in Saga
  PROVE  MenguaEn(s, k)
<1>1. \A r \in Proceso : r = p
  BY DEF UnProceso
<1>2. log' = log /\ m \in Saga /\ cola[k][m] > 0
  BY DEF Recibir, Descartar, tablas
<1>3. cola'[k][s] > 0 => cola[k][s] > 0
  <2>1. cola' = [cola EXCEPT ![k][m] = cola[k][m] - 1]
    BY DEF Recibir, Descartar
  <2>2. cola \in ColaT
    BY Tipos
  <2>3. cola[k][m] \in Nat
    BY <2>2 DEF ColaT
  <2>4. QED
    BY <1>2, <2>1, <2>2, <2>3 DEF ColaT
<1>4. CASE Descartar(p, k, m)
  BY <1>2, <1>3, <1>4 DEF Descartar, manejador, MenguaEn, Vivo, Pendiente
<1>5. CASE Recibir(p, k, m)
  <2>1. actual'[p][k] = m /\ log[m][k] = Ninguno
    BY <1>5, Dominios DEF Recibir, YaProcesado
  <2>2. QED
    BY <1>1, <1>2, <1>3, <2>1 DEF MenguaEn, Vivo, Pendiente
<1>6. QED
  BY <1>4, <1>5

LEMMA AvanzaMengua ==
  ASSUME TypeInv, UnProceso, NEW p \in Proceso, NEW k \in Paso, Avanza(p, k), NEW s \in Saga
  PROVE  MenguaEn(s, k)
<1>1. \A r \in Proceso : r = p
  BY DEF UnProceso
<1>2. actual' = actual /\ cola' = cola
  BY DEF Avanza
<1>3. CASE actual[p][k] = s
  BY <1>3 DEF Avanza, MenguaEn, Vivo, Pendiente
<1>4. CASE actual[p][k] # s
  <2>1. log'[s][k] = log[s][k]
    BY <1>4, Tipos, MarcarOtro DEF Avanza
  <2>2. QED
    BY <1>1, <1>2, <1>4, <2>1 DEF MenguaEn, Vivo, Pendiente
<1>5. QED
  BY <1>3, <1>4

LEMMA AckMengua ==
  ASSUME TypeInv, UnProceso, NEW p \in Proceso, NEW k \in Paso, Ack(p, k), NEW s \in Saga
  PROVE  MenguaEn(s, k)
<1>1. \A r \in Proceso : r = p
  BY DEF UnProceso
<1>2. actual'[p][k] = Ninguno /\ log' = log /\ cola' = cola
  BY Dominios DEF Ack, tablas
<1>3. s # Ninguno
  BY ConstantesOK
<1>4. QED
  BY <1>1, <1>2, <1>3 DEF MenguaEn, Vivo, Pendiente

\* A publish: nothing new but the message.
LEMMA PublicarCamino ==
  ASSUME TypeInv, UnProceso, Fila, NEW p \in Proceso, NEW k \in Paso,
         Publicar(p, k) \/ PublicarCompensacion(p, k), NEW s \in Saga, Camino(s)
  PROVE  Camino(s)'
<1>1. \A r \in Proceso : r = p
  BY DEF UnProceso
<1>2. PICK d \in Paso : (d = Siguiente(k) \/ d = Compensacion(k)) /\ EnCola(d, actual[p][k])
  BY DEF Publicar, PublicarCompensacion, TypeInv, Posicion, PosicionDe
<1>3. /\ actual[p][k] \in Saga /\ log[actual[p][k]][k] # Ninguno
      /\ pc[p][k] \notin {"libre", "ack"}
  BY Tipos DEF Publicar, PublicarCompensacion, Fila
<1>4. /\ pc'[p][k] = "ack" /\ actual' = actual /\ log' = log /\ iniciadas' = iniciadas
      /\ \A r \in Proceso, q \in Paso : q # k => pc'[r][q] = pc[r][q]
  BY Dominios DEF Publicar, PublicarCompensacion, Ir, manejador, tablas, peticion
<1>5. k # d
  BY <1>2, Orden
<1>6. \A q \in Paso : q # d \/ s # actual[p][k] => cola'[q][s] = cola[q][s]
  BY <1>2, EnColaOtro, Tipos
<1>7. CASE s = actual[p][k]
  <2>1. Pendiente(s, k) /\ Vivo(s, k)
    BY <1>3, <1>7 DEF Pendiente, Vivo
  <2>2. ~Pendiente(s, k)'
    BY <1>1, <1>3, <1>4, <1>7 DEF Pendiente
  <2>3. ASSUME NEW q \in Paso, q # d  PROVE MenguaEn(s, q)
    <3>1. CASE q = k
      BY <1>4, <2>1, <2>2, <3>1 DEF MenguaEn
    <3>2. CASE q # k
      BY <1>4, <1>6, <2>3, <3>2, IgualEn
    <3>3. QED
      BY <3>1, <3>2
  <2>4. QED
    BY <1>2, <1>4, <2>1, <2>2, <2>3, PublicaCamino
<1>8. CASE s # actual[p][k]
  <2>1. ASSUME NEW q \in Paso  PROVE MenguaEn(s, q)
    <3>1. cola'[q][s] = cola[q][s] /\ log'[s][q] = log[s][q]
      BY <1>4, <1>6, <1>8
    <3>2. CASE q = k
      BY <1>1, <1>4, <1>8, <3>1, <3>2 DEF MenguaEn, Vivo, Pendiente
    <3>3. CASE q # k
      BY <1>4, <3>1, <3>3, IgualEn
    <3>4. QED
      BY <3>2, <3>3
  <2>2. QED
    BY <1>4, <2>1, MenguaCamino DEF Mengua
<1>9. QED
  BY <1>7, <1>8

\* What comes back to the queues was under way.
LEMMA DevueltaMengua ==
  ASSUME TypeInv, UnProceso, Fila, NEW p \in Proceso, NEW s \in Saga, NEW q \in Paso,
         NEW Q, cola' = Devuelta(p, Q),
         log'[s][q] = Ninguno <=> log[s][q] = Ninguno,
         \/ UNCHANGED <<pc, actual>>
         \/ actual'[p][q] = Ninguno
  PROVE  MenguaEn(s, q)
<1>1. \A r \in Proceso : r = p
  BY DEF UnProceso
<1>2. s # Ninguno
  BY ConstantesOK
<1>3. cola'[q][s] > 0 => cola[q][s] > 0 \/ actual[p][q] = s
  BY Tipos DEF Devuelta, ColaT
<1>4. actual[p][q] = s /\ log[s][q] = Ninguno => pc[p][q] = "crear"
  BY <1>2 DEF Fila
<1>5. Vivo(s, q)' => Vivo(s, q)
  BY <1>1, <1>2, <1>3 DEF Vivo
<1>6. Pendiente(s, q)' => Pendiente(s, q)
  BY <1>1, <1>2, <1>3, <1>4 DEF Pendiente
<1>7. QED
  BY <1>5, <1>6 DEF MenguaEn

\* A step that ends the process, seen from its queues.
LEMMA FinalLimpio ==
  ASSUME TypeInv, FallasLimpias, Fila, NEW p \in Proceso, PasoFinal(p)
  PROVE  /\ \E Q : cola' = Devuelta(p, Q)
         /\ \A s \in Saga, q \in Paso : log'[s][q] = Ninguno <=> log[s][q] = Ninguno
         /\ \A q \in Paso : pc'[p][q] = "libre" /\ actual'[p][q] = Ninguno
         /\ \A q \in Paso, r \in Proceso :
              r # p => pc'[r][q] = pc[r][q] /\ actual'[r][q] = actual[r][q]
         /\ iniciadas' = iniciadas
<1>1. \E Q : cola' = Devuelta(p, Q)
  BY SinDudas DEF PasoFinal, Caida, RegistrarFallo, Levantar, FallaCompensar
<1>2. ASSUME NEW s \in Saga, NEW q \in Paso
      PROVE  log'[s][q] = Ninguno <=> log[s][q] = Ninguno
  <2>1. ASSUME NEW m \in Saga, NEW k \in Paso, Marcar(m, k, "FAILED"), log[m][k] # Ninguno
        PROVE  log'[s][q] = Ninguno <=> log[s][q] = Ninguno
    <3>1. CASE m = s /\ k = q
      BY <2>1, <3>1, Tipos DEF Marcar, LogT
    <3>2. CASE ~(m = s /\ k = q)
      BY <2>1, <3>2, Tipos, MarcarOtro
    <3>3. QED
      BY <3>1, <3>2
  <2>2. QED
    BY <2>1, AlcanceFinal
<1>3. /\ \A q \in Paso : pc'[p][q] = "libre" /\ actual'[p][q] = Ninguno
      /\ \A q \in Paso, r \in Proceso :
           r # p => pc'[r][q] = pc[r][q] /\ actual'[r][q] = actual[r][q]
  BY AlcanceFinal, Dominios DEF Parar
<1>4. iniciadas' = iniciadas
  BY AlcanceFinal DEF peticion
<1>5. QED
  BY <1>1, <1>2, <1>3, <1>4

\* A new saga has nothing but its first message.
LEMMA IniciarCamino ==
  ASSUME TypeInv, NEW m \in Saga, NEW F, IniciarSaga(m, F), NEW s \in Saga, Camino(s)
  PROVE  Camino(s)'
<1>0. "CREATE_PEDIDO" \in Paso
  BY DEF Paso
<1>1. pc' = pc /\ actual' = actual /\ log' = log /\ iniciadas' = iniciadas \cup {m}
  BY DEF IniciarSaga, manejador, tablas
<1>2. \A q \in Paso : q # "CREATE_PEDIDO" \/ s # m => cola'[q][s] = cola[q][s]
  BY EnColaOtro, Tipos, <1>0 DEF IniciarSaga
<1>3. \A q \in Paso : q # "CREATE_PEDIDO" \/ s # m => MenguaEn(s, q)
  BY <1>1, <1>2 DEF MenguaEn, Vivo, Pendiente
<1>4. CASE s # m
  BY <1>1, <1>3, <1>4, MenguaCamino DEF Mengua
<1>5. CASE s = m
  <2>1. \A q \in Paso : ~Vivo(s, q)
    BY <1>5 DEF Camino, IniciarSaga
  <2>2. \A q \in Paso : q # "CREATE_PEDIDO" => ~Vivo(s, q)' /\ ~Pendiente(s, q)'
    <3>1. ASSUME NEW q \in Paso, q # "CREATE_PEDIDO"  PROVE ~Vivo(s, q)' /\ ~Pendiente(s, q)'
      <4>1. ~Vivo(s, q)'
        BY <1>3, <2>1, <3>1 DEF MenguaEn
      <4>2. QED
        BY <4>1 DEF Vivo, Pendiente
    <3>2. QED
      BY <3>1
  <2>3. \A k \in Tras("CREATE_PEDIDO") : k \in Paso /\ k # "CREATE_PEDIDO"
    BY DEF Tras
  <2>4. {"CONFIRMAR_PEDIDO", "COMPENSAR_STOCK", "CANCELAR_PEDIDO"} \subseteq Paso
    BY DEF Paso
  <2>5. s \in iniciadas'
    BY <1>1, <1>5
  <2>6. QED
    BY <2>2, <2>3, <2>4, <2>5 DEF Camino
<1>6. QED
  BY <1>4, <1>5

LEMMA CaminoNext ==
  ASSUME TypeInv, UnProceso, FallasLimpias, Caminos, [Next]_vars, NEW s \in Saga
  PROVE  Camino(s)'
<1> USE DEF Caminos
<1>1. ASSUME NEW p \in Proceso, NEW k \in Paso, PasoDe(p, k)  PROVE Camino(s)'
  <2>1. CASE Publicar(p, k) \/ PublicarCompensacion(p, k)
    BY <2>1, PublicarCamino
  <2>2. ASSUME MenguaEn(s, k), \A q \in Paso : q # k => cola'[q][s] = cola[q][s],
               iniciadas' = iniciadas
        PROVE  Camino(s)'
    <3>1. ASSUME NEW q \in Paso, q # k  PROVE MenguaEn(s, q)
      BY <1>1, <2>2, <3>1, OtraFila, IgualEn
    <3>2. QED
      BY <2>2, <3>1, MenguaCamino DEF Mengua
  <2>3. ASSUME NEW m \in Saga, Recibir(p, k, m) \/ Descartar(p, k, m)  PROVE Camino(s)'
    <3>1. \A q \in Paso : q # k => cola'[q][s] = cola[q][s]
      BY <2>3, Tipos DEF Recibir, Descartar, ColaT
    <3>2. iniciadas' = iniciadas
      BY <2>3 DEF Recibir, Descartar, peticion
    <3>3. QED
      BY <2>2, <2>3, <3>1, <3>2, RecibirMengua
  <2>4. CASE Avanza(p, k)
    BY <2>2, <2>4, AvanzaMengua DEF Avanza
  <2>5. CASE Ack(p, k)
    BY <2>2, <2>5, AckMengua DEF Ack, peticion
  <2>6. QED
    BY <1>1, <2>1, <2>3, <2>4, <2>5, Clases
<1>2. ASSUME NEW m \in Saga, NEW F, IniciarSaga(m, F)  PROVE Camino(s)'
  BY <1>2, IniciarCamino
<1>3. ASSUME NEW p \in Proceso, ConexionPerdida(p)  PROVE Camino(s)'
  <2>1. ASSUME NEW q \in Paso  PROVE MenguaEn(s, q)
    BY <1>3, DevueltaMengua DEF ConexionPerdida, tablas
  <2>2. QED
    BY <1>3, <2>1, MenguaCamino DEF Mengua, ConexionPerdida, peticion
<1>4. ASSUME NEW p \in Proceso, PasoFinal(p)  PROVE Camino(s)'
  <2>1. ASSUME NEW q \in Paso  PROVE MenguaEn(s, q)
    BY <1>4, FinalLimpio, DevueltaMengua
  <2>2. QED
    BY <1>4, <2>1, FinalLimpio, MenguaCamino DEF Mengua
<1>5. CASE UNCHANGED vars
  <2>1. ASSUME NEW q \in Paso  PROVE MenguaEn(s, q)
    BY <1>5 DEF vars, MenguaEn, Vivo, Pendiente
  <2>2. QED
    BY <1>5, <2>1, MenguaCamino DEF Mengua, vars
<1>6. QED
  BY <1>1, <1>2, <1>3, <1>4, <1>5, PasosDelProceso DEF Next

\* No row is ever deleted.
LEMMA FilasQuedan ==
  ASSUME TypeInv, NEW p \in Proceso, NEW k \in Paso, PasoDe(p, k), NEW s \in Saga, NEW q \in Paso,
         log[s][q] # Ninguno
  PROVE  log'[s][q] # Ninguno
<1>1. CASE q # k
  BY <1>1, OtraFila
<1>2. CASE q = k
  <2>1. UNCHANGED log \/ \E st \in SagaStatus : Marcar(actual[p][k], k, st)
    BY AlcancePaso
  <2>2. Ninguno \notin SagaStatus
    BY DEF SagaStatus
  <2>3. CASE s = actual[p][k]
    <3>1. ASSUME NEW st \in SagaStatus, Marcar(s, q, st)  PROVE log'[s][q] = st
      BY <3>1, Tipos DEF Marcar, LogT
    <3>2. QED
      BY <1>2, <2>1, <2>2, <2>3, <3>1
  <2>4. CASE s # actual[p][k]
    BY <2>1, <2>4, Tipos, MarcarOtro
  <2>5. QED
    BY <2>3, <2>4
<1>3. QED
  BY <1>1, <1>2

LEMMA FilaPropia ==
  ASSUME TypeInv, FallasLimpias, Fila, NEW p \in Proceso, NEW k \in Paso, PasoDe(p, k)
  PROVE  /\ pc'[p][k] \notin {"libre", "crear"} => log'[actual'[p][k]][k] # Ninguno
         /\ pc'[p][k] = "libre" => actual'[p][k] = Ninguno
<1> USE Dominios
<1>1. ASSUME NEW m \in Saga, Recibir(p, k, m)
      PROVE  pc'[p][k] = "crear"
  BY <1>1 DEF Recibir, Ir
<1>2. ASSUME NEW m \in Saga, Descartar(p, k, m)
      PROVE  pc' = pc /\ actual' = actual /\ log' = log
  BY <1>2 DEF Descartar, manejador, tablas
<1>3. ASSUME Ack(p, k)  PROVE pc'[p][k] = "libre" /\ actual'[p][k] = Ninguno
  BY <1>3 DEF Ack, Ir
<1>4. ASSUME CrearPaso(p, k)
      PROVE  /\ pc'[p][k] \notin {"libre", "crear"}
             /\ actual' = actual /\ log'[actual[p][k]][k] # Ninguno
  <2>1. actual[p][k] \in Saga /\ actual' = actual
    BY <1>4, Tipos DEF CrearPaso, manejador
  <2>2. log'[actual[p][k]][k] # Ninguno
    BY <1>4, <2>1, Tipos DEF CrearPaso, YaProcesado, Marcar, LogT
  <2>3. pc'[p][k] \notin {"libre", "crear"}
    BY <1>4 DEF CrearPaso, Ir
  <2>4. QED
    BY <2>1, <2>2, <2>3
<1>5. ASSUME Publicar(p, k) \/ PublicarCompensacion(p, k)
      PROVE  /\ actual' = actual /\ log' = log
             /\ pc[p][k] \notin {"libre", "crear"} /\ pc'[p][k] = "ack"
  BY <1>5 DEF Publicar, PublicarCompensacion, Ir, manejador, tablas
<1>6. ASSUME Avanza(p, k), ~CrearPaso(p, k)
      PROVE  /\ pc[p][k] \notin {"libre", "crear"} /\ actual' = actual
             /\ pc'[p][k] \notin {"libre", "crear"} /\ actual[p][k] \in Saga
  <2>1. MarcarCompensando(p, k) \/ Completar(p, k) \/ RegistrarFallo(p, k) \/ Efecto(p, k)
        \/ FallaPublicar(p, k) \/ Publicar(p, k) \/ PublicarCompensacion(p, k)
    BY <1>6, SinDudas DEF PasoDe, Manejar, Comun, Avanza, Recibir, Descartar, Ack
  <2>2. /\ pc[p][k] \notin {"libre", "crear"}
        /\ \E l : l \notin {"libre", "crear"} /\ Ir(p, k, l)
    BY <2>1 DEF PasoDe, MarcarCompensando, Completar, RegistrarFallo, FallaPublicar, Publicar,
                PublicarCompensacion, Efecto, CrearPedido, LeerReserva, EscribirReserva,
                CobrarPago, NotificarCliente, ConfirmarPedido, CancelarPedido, Cerrar,
                LeerCompensacion, EscribirCompensacion
  <2>3. pc'[p][k] \notin {"libre", "crear"}
    BY <2>2 DEF Ir
  <2>4. QED
    BY <1>6, <2>2, <2>3, Tipos DEF Avanza
<1>7. CASE Avanza(p, k) /\ ~CrearPaso(p, k)
  BY <1>6, <1>7, FilasQuedan DEF Fila
<1>8. QED
  BY <1>1, <1>2, <1>3, <1>4, <1>5, <1>7, Clases DEF Fila

LEMMA FilaNext ==
  ASSUME TypeInv, UnProceso, FallasLimpias, Fila, [Next]_vars
  PROVE  Fila'
<1>1. ASSUME NEW p \in Proceso, NEW k \in Paso, PasoDe(p, k)  PROVE Fila'
  <2> SUFFICES ASSUME NEW q \in Paso
               PROVE  /\ pc'[p][q] \notin {"libre", "crear"} => log'[actual'[p][q]][q] # Ninguno
                      /\ pc'[p][q] = "libre" => actual'[p][q] = Ninguno
    BY DEF Fila, UnProceso
  <2>1. CASE q = k
    BY <1>1, <2>1, FilaPropia
  <2>2. CASE q # k
    <3>1. pc'[p][q] = pc[p][q] /\ actual'[p][q] = actual[p][q]
      BY <1>1, <2>2, OtraFila
    <3>2. CASE pc[p][q] = "libre"
      BY <3>1, <3>2 DEF Fila
    <3>3. CASE pc[p][q] # "libre"
      BY <1>1, <3>1, <3>3, FilasQuedan, Tipos, SMTT(30) DEF Fila
    <3>4. QED
      BY <3>2, <3>3
  <2>3. QED
    BY <2>1, <2>2
<1>2. CASE UNCHANGED <<pc, actual, log>>
  BY <1>2 DEF Fila
<1>3. CASE \E s \in Saga, F \in Banderas : IniciarSaga(s, F)
  BY <1>2, <1>3 DEF IniciarSaga, manejador, tablas
<1>4. ASSUME NEW p \in Proceso, ConexionPerdida(p)  PROVE Fila'
  BY <1>2, <1>4 DEF ConexionPerdida, tablas
<1>5. ASSUME NEW p \in Proceso, PasoFinal(p)  PROVE Fila'
  BY <1>5, FinalLimpio DEF Fila, UnProceso
<1>6. CASE UNCHANGED vars
  BY <1>2, <1>6 DEF vars
<1>7. QED
  BY <1>1, <1>3, <1>4, <1>5, <1>6, PasosDelProceso DEF Next

LEMMA CaminosNext ==
  ASSUME TypeInv, UnProceso, FallasLimpias, Caminos, [Next]_vars
  PROVE  Caminos'
BY CaminoNext, FilaNext DEF Caminos

LEMMA CaminosInit == Init => Caminos
<1> SUFFICES ASSUME Init  PROVE Caminos
  OBVIOUS
<1>1. Fila
  BY DEF Init, Fila
<1>2. ASSUME NEW s \in Saga, NEW q \in Paso  PROVE ~Vivo(s, q)
  BY <1>2, ConstantesOK DEF Init, Vivo
<1>3. ASSUME NEW s \in Saga, NEW q \in Paso  PROVE ~Pendiente(s, q)
  BY <1>2, <1>3 DEF Init, Pendiente
<1>4. {"CONFIRMAR_PEDIDO", "COMPENSAR_STOCK", "CANCELAR_PEDIDO"} \subseteq Paso
  BY DEF Paso
<1>5. QED
  BY <1>1, <1>2, <1>3, <1>4 DEF Caminos, Camino

\* While one process consumes the queues and no call is left in doubt, an
\* order that is being confirmed is never compensated or cancelled too, for any
\* number of orders, crashes, failed publishes and lost connections.
THEOREM DesenlaceConUnProceso ==
  ASSUME UnProceso, FallasLimpias
  PROVE  Spec => []DesenlaceUnico
<1>1. Init => TypeInv /\ UnaVez /\ Caminos
  BY InitTypeInv, CaminosInit, UnaVezInit
<1>2. TypeInv /\ UnaVez /\ Caminos /\ [Next]_vars => TypeInv' /\ UnaVez' /\ Caminos'
  BY TypeInvNext, UnaVezNext, CaminosNext
<1>3. TypeInv /\ UnaVez /\ Caminos => DesenlaceUnico
  <2> SUFFICES ASSUME UnaVez, Caminos, NEW s \in Saga, log[s]["CONFIRMAR_PEDIDO"] # Ninguno
               PROVE  /\ log[s]["COMPENSAR_STOCK"] = Ninguno
                      /\ log[s]["CANCELAR_PEDIDO"] = Ninguno
                      /\ liberaciones[s] = 0
    BY DEF DesenlaceUnico
  <2>1. log[s]["COMPENSAR_STOCK"] = Ninguno /\ log[s]["CANCELAR_PEDIDO"] = Ninguno
    BY DEF Caminos, Camino, Vivo
  <2>2. FilaUnaVez(s, "COMPENSAR_STOCK")
    BY DEF UnaVez, UnaVezEn, PasoStock
  <2>3. QED
    BY <2>1, <2>2 DEF FilaUnaVez, Cuenta
<1>4. QED
  BY <1>1, <1>2, <1>3, PTL DEF Spec

-----------------------------------------------------------------------------
(* The state and the stock of the order.                                    *)

\* The steps of a running handler touch one column each.
LEMMA QuienCambia ==
  ASSUME TypeInv, [Next]_vars
  PROVE  \/ UNCHANGED estado
         \/ \E p \in Proceso : CrearPedido(p) \/ ConfirmarPedido(p) \/ CancelarPedido(p)
<1>1. ASSUME NEW p \in Proceso, PasoFinal(p)  PROVE UNCHANGED estado
  BY <1>1, AlcanceFinal
<1>2. ASSUME NEW p \in Proceso, NEW k \in Paso, PasoDe(p, k)
      PROVE  \/ UNCHANGED estado
             \/ CrearPedido(p) \/ ConfirmarPedido(p) \/ CancelarPedido(p)
  BY <1>2 DEF PasoDe, Manejar, Comun, Efecto, Recibir, Descartar, CrearPaso,
              MarcarCompensando, Completar, Publicar, RegistrarFallo, PublicarCompensacion,
              Ack, LeerReserva, EscribirReserva, CobrarPago, NotificarCliente,
              LeerCompensacion, EscribirCompensacion, FallaPublicar, FallaBD,
              FallaConsulta, tablas
<1>3. ASSUME NEW p \in Proceso, ConexionPerdida(p)  PROVE UNCHANGED estado
  BY <1>3 DEF ConexionPerdida, tablas
<1>4. CASE \E s \in Saga, F \in Banderas : IniciarSaga(s, F)
  BY <1>4 DEF IniciarSaga, tablas
<1>5. CASE UNCHANGED vars
  BY <1>5 DEF vars
<1>6. QED
  BY <1>1, <1>2, <1>3, <1>4, <1>5, PasosDelProceso DEF Next

\* No row is deleted by any step.
LEMMA FilasSiempre ==
  ASSUME TypeInv, FallasLimpias, Fila, [Next]_vars, NEW s \in Saga, NEW q \in Paso,
         log[s][q] # Ninguno
  PROVE  log'[s][q] # Ninguno
<1>1. CASE UNCHANGED log
  BY <1>1
<1>2. ASSUME NEW p \in Proceso, NEW k \in Paso, PasoDe(p, k)  PROVE log'[s][q] # Ninguno
  BY <1>2, FilasQuedan
<1>3. ASSUME NEW p \in Proceso, PasoFinal(p)  PROVE log'[s][q] # Ninguno
  BY <1>3, FinalLimpio
<1>4. QED
  BY <1>1, <1>2, <1>3, PasosDelProceso DEF Next, IniciarSaga, ConexionPerdida, tablas, vars

\* What the three writers of estado find and leave.
LEMMA Escritores ==
  ASSUME TypeInv, Fila, NEW p \in Proceso, NEW s \in Saga, estado'[s] # estado[s]
  PROVE  /\ CrearPedido(p) => estado[s] = Ninguno /\ estado'[s] = "PENDIENTE"
         /\ ConfirmarPedido(p) =>
              /\ actual[p]["CONFIRMAR_PEDIDO"] = s /\ log[s]["CONFIRMAR_PEDIDO"] # Ninguno
              /\ estado[s] # Ninguno /\ estado'[s] = "CONFIRMADO"
         /\ CancelarPedido(p) =>
              /\ actual[p]["CANCELAR_PEDIDO"] = s /\ log[s]["CANCELAR_PEDIDO"] # Ninguno
              /\ estado[s] # Ninguno /\ estado'[s] = "CANCELADO"
<1>0. {"CREATE_PEDIDO", "CONFIRMAR_PEDIDO", "CANCELAR_PEDIDO"} \subseteq Paso
  BY DEF Paso
<1>1. ASSUME CrearPedido(p)  PROVE estado[s] = Ninguno /\ estado'[s] = "PENDIENTE"
  BY <1>0, <1>1, Tipos DEF CrearPedido, EstadoT
<1>2. ASSUME NEW q \in {"CONFIRMAR_PEDIDO", "CANCELAR_PEDIDO"}, NEW final, Cerrar(p, q, final)
      PROVE  /\ actual[p][q] = s /\ log[s][q] # Ninguno
             /\ estado[s] # Ninguno /\ estado'[s] = final
  BY <1>0, <1>2, Tipos DEF Cerrar, EstadoT, Fila
<1>3. QED
  BY <1>1, <1>2 DEF ConfirmarPedido, CancelarPedido

\* An end is final: the steps that would set another state are not on the
\* way of that saga.
LEMMA FinalEstable ==
  ASSUME TypeInv, FallasLimpias, Caminos, [Next]_vars, NEW s \in Saga, Pedido(s),
         estado[s] \in Final
  PROVE  estado'[s] = estado[s]
<1> SUFFICES ASSUME estado'[s] # estado[s]  PROVE FALSE
  OBVIOUS
<1>1. PICK p \in Proceso : CrearPedido(p) \/ ConfirmarPedido(p) \/ CancelarPedido(p)
  BY QuienCambia
<1>2. Camino(s) /\ Fila
  BY DEF Caminos
<1>3. CASE CrearPedido(p)
  BY <1>2, <1>3, Escritores DEF Final
<1>4. CASE ConfirmarPedido(p)
  <2>1. Vivo(s, "CONFIRMAR_PEDIDO") /\ estado[s] = "CANCELADO"
    BY <1>2, <1>4, Escritores DEF Vivo, Final
  <2>2. QED
    BY <1>2, <2>1 DEF Pedido, Camino, Vivo
<1>5. CASE CancelarPedido(p)
  <2>1. Vivo(s, "CANCELAR_PEDIDO") /\ estado[s] = "CONFIRMADO"
    BY <1>2, <1>5, Escritores DEF Vivo, Final
  <2>2. QED
    BY <1>2, <2>1 DEF Pedido, Camino, Vivo
<1>6. QED
  BY <1>1, <1>3, <1>4, <1>5

\* A handler reaches the write of a stock from the read, which saw the order.
LEMMA HaciaEscribir ==
  ASSUME TypeInv, [Next]_vars, NEW p \in Proceso, NEW q \in Paso, pc'[p][q] = "escribir"
  PROVE  /\ actual'[p][q] = actual[p][q]
         /\ pc[p][q] = "escribir" \/ estado[actual[p][q]] # Ninguno
<1>1. ASSUME NEW r \in Proceso, NEW k \in Paso, PasoDe(r, k), ~(r = p /\ k = q)
      PROVE  pc'[p][q] = pc[p][q] /\ actual'[p][q] = actual[p][q]
  <2>1. UNCHANGED pc \/ \E l : Ir(r, k, l)
    BY <1>1, AlcancePaso
  <2>2. UNCHANGED actual \/ \E m : actual' = [actual EXCEPT ![r][k] = m]
    BY <1>1, AlcancePaso
  <2>3. pc'[p][q] = pc[p][q]
    BY <1>1, <2>1, Dominios DEF Ir
  <2>4. actual'[p][q] = actual[p][q]
    BY <1>1, <2>2, Dominios
  <2>5. QED
    BY <2>3, <2>4
<1>2. ASSUME PasoDe(p, q)
      PROVE  /\ actual'[p][q] = actual[p][q]
             /\ pc[p][q] = "escribir" \/ estado[actual[p][q]] # Ninguno
  <2>1. \A l : Ir(p, q, l) => l = "escribir"
    BY Dominios DEF Ir
  <2>2. \/ \E s \in Saga : Descartar(p, q, s)
        \/ LeerReserva(p) /\ q = "RESERVAR_STOCK"
        \/ LeerCompensacion(p) /\ q = "COMPENSAR_STOCK"
    BY <1>2, <2>1 DEF PasoDe, Manejar, Comun, Efecto, Recibir, CrearPaso,
                MarcarCompensando, Completar, Publicar, RegistrarFallo, PublicarCompensacion,
                Ack, CrearPedido, EscribirReserva, CobrarPago, NotificarCliente,
                ConfirmarPedido, CancelarPedido, Cerrar, EscribirCompensacion,
                FallaPublicar, FallaBD, FallaConsulta
  <2>3. QED
    BY <2>1, <2>2 DEF Descartar, manejador, LeerReserva, PuedeReservar, LeerCompensacion
<1>3. ASSUME NEW r \in Proceso, PasoFinal(r)
      PROVE  pc'[p][q] = pc[p][q] /\ actual'[p][q] = actual[p][q]
  BY <1>3, AlcanceFinal, Dominios, SMTT(30) DEF Parar
<1>4. CASE UNCHANGED <<pc, actual>>
  BY <1>4
<1>5. QED
  BY <1>1, <1>2, <1>3, <1>4, PasosDelProceso
     DEF Next, IniciarSaga, ConexionPerdida, manejador, vars

LEMMA PedidoNext ==
  ASSUME TypeInv, FallasLimpias, Caminos, [Next]_vars, NEW s \in Saga, Pedido(s)
  PROVE  Pedido(s)'
<1>0. Fila /\ {"CONFIRMAR_PEDIDO", "CANCELAR_PEDIDO"} \subseteq Paso /\ PasoStock \subseteq Paso
  BY DEF Caminos, Paso, PasoStock
<1>1. \A q \in Paso : log[s][q] # Ninguno => log'[s][q] # Ninguno
  BY <1>0, FilasSiempre
<1>2. \/ estado'[s] = estado[s]
      \/ \E p \in Proceso : CrearPedido(p) \/ ConfirmarPedido(p) \/ CancelarPedido(p)
  BY QuienCambia
<1>3. /\ estado'[s] = "CONFIRMADO" => log'[s]["CONFIRMAR_PEDIDO"] # Ninguno
      /\ estado'[s] = "CANCELADO" => log'[s]["CANCELAR_PEDIDO"] # Ninguno
  BY <1>0, <1>1, <1>2, Escritores DEF Pedido
<1>4. estado[s] # Ninguno => estado'[s] # Ninguno
  BY <1>0, <1>2, Escritores
<1>5. ASSUME NEW p \in Proceso, NEW q \in PasoStock, pc'[p][q] = "escribir", actual'[p][q] = s
      PROVE  estado'[s] # Ninguno
  BY <1>0, <1>4, <1>5, HaciaEscribir DEF Pedido
<1>6. QED
  BY <1>3, <1>5 DEF Pedido

\* A step of a handler makes something new of step q only by publishing to it.
LEMMA VivoNuevo ==
  ASSUME TypeInv, UnProceso, FallasLimpias, NEW p \in Proceso, NEW k \in Paso, PasoDe(p, k),
         NEW s \in Saga, NEW q \in Paso, Vivo(s, q)', ~Vivo(s, q)
  PROVE  /\ actual[p][k] = s
         /\ \/ Publicar(p, k) /\ Siguiente(k) = q
            \/ PublicarCompensacion(p, k) /\ Compensacion(k) = q
<1>1. CASE k = q
  <2>1. ~MenguaEn(s, k)
    BY <1>1 DEF MenguaEn
  <2>2. Publicar(p, k) \/ PublicarCompensacion(p, k)
    BY <2>1, Clases, RecibirMengua, AvanzaMengua, AckMengua
  <2>3. PICK d \in Paso : (d = Siguiente(k) \/ d = Compensacion(k)) /\ EnCola(d, actual[p][k])
    BY <2>2 DEF Publicar, PublicarCompensacion, TypeInv, Posicion, PosicionDe
  <2>4. k # d /\ log' = log /\ actual' = actual
    BY <2>2, <2>3, Orden DEF Publicar, PublicarCompensacion, manejador, tablas
  <2>5. cola'[k][s] = cola[k][s]
    BY <2>3, <2>4, EnColaOtro, Tipos
  <2>6. QED
    BY <1>1, <2>4, <2>5 DEF Vivo
<1>2. CASE k # q
  <2>1. cola'[q][s] # cola[q][s]
    BY <1>2, OtraFila DEF Vivo
  <2>2. Publicar(p, k) \/ PublicarCompensacion(p, k)
    <3>1. \A m \in Saga : Recibir(p, k, m) \/ Descartar(p, k, m) => cola'[q][s] = cola[q][s]
      BY <1>2, Tipos DEF Recibir, Descartar, ColaT
    <3>2. QED
      BY <2>1, <3>1, Clases DEF Avanza, Ack
  <2>3. CASE Publicar(p, k)
    BY <2>1, <2>3, EnColaOtro, Tipos DEF Publicar
  <2>4. CASE PublicarCompensacion(p, k)
    BY <2>1, <2>4, EnColaOtro, Tipos DEF PublicarCompensacion
  <2>5. QED
    BY <2>2, <2>3, <2>4
<1>3. QED
  BY <1>1, <1>2

\* The counts of an order change only under its own handlers.
LEMMA CuentasDeOtro ==
  ASSUME TypeInv, NEW p \in Proceso, NEW k \in Paso, Manejar(p, k), NEW s \in Saga
  PROVE  /\ reservas'[s] # reservas[s] =>
              k = "RESERVAR_STOCK" /\ EscribirReserva(p) /\ actual[p][k] = s
         /\ liberaciones'[s] >= liberaciones[s]
<1>1. ASSUME NEW r \in Proceso, EscribirReserva(r)
      PROVE  /\ liberaciones' = liberaciones
             /\ actual[r]["RESERVAR_STOCK"] # s => reservas'[s] = reservas[s]
  BY <1>1, Tipos DEF EscribirReserva
<1>2. ASSUME NEW r \in Proceso, EscribirCompensacion(r)
      PROVE  reservas' = reservas /\ liberaciones'[s] >= liberaciones[s]
  BY <1>2, Tipos DEF EscribirCompensacion
<1>3. \/ UNCHANGED <<reservas, liberaciones>>
      \/ k = "RESERVAR_STOCK" /\ EscribirReserva(p)
      \/ k = "COMPENSAR_STOCK" /\ EscribirCompensacion(p)
  BY DEF Manejar, Comun, Efecto, Recibir, Descartar, CrearPaso,
         MarcarCompensando, Completar, Publicar, RegistrarFallo, PublicarCompensacion,
         Ack, CrearPedido, LeerReserva, CobrarPago, NotificarCliente, ConfirmarPedido,
         CancelarPedido, Cerrar, LeerCompensacion, tablas
<1>4. liberaciones[s] \in Nat
  BY Tipos
<1>5. QED
  BY <1>1, <1>2, <1>3, <1>4

\* How the handlers of the two stock queues reach the places that Devuelto
\* speaks of when nothing fails.
LEMMA HaciaFallo ==
  ASSUME TypeInv, UnaVez, NEW p \in Proceso, Manejar(p, "RESERVAR_STOCK"),
         pc'[p]["RESERVAR_STOCK"] \in {"fallo", "compensar"},
         \A m \in Saga : ~Descartar(p, "RESERVAR_STOCK", m)
  PROVE  /\ UNCHANGED <<actual, reservas>>
         /\ \/ reservas[actual[p]["RESERVAR_STOCK"]] = 0
            \/ pc[p]["RESERVAR_STOCK"] = "fallo"
<1> DEFINE q == "RESERVAR_STOCK"
<1>0. q \in Paso /\ q \in PasoStock
  BY DEF Paso, PasoStock
<1>1. \A l : Ir(p, q, l) => l \in {"fallo", "compensar"}
  BY <1>0, Dominios DEF Ir
<1>2. LeerReserva(p) \/ RegistrarFallo(p, q)
  BY <1>1 DEF Manejar, Comun, Efecto, Recibir, CrearPaso, MarcarCompensando, Completar,
              Publicar, PublicarCompensacion, Ack, EscribirReserva
<1>3. CASE LeerReserva(p)
  <2>1. ManejadorUnaVez(p, q)
    BY <1>0 DEF UnaVez, UnaVezEn
  <2>2. QED
    BY <1>3, <2>1 DEF LeerReserva, ManejadorUnaVez, Cuenta, tablas
<1>4. CASE RegistrarFallo(p, q)
  <2>1. Compensacion(q) # Ninguno
    BY DEF Compensacion
  <2>2. QED
    BY <1>4, <2>1 DEF RegistrarFallo, manejador
<1>5. QED
  BY <1>2, <1>3, <1>4

LEMMA HaciaPublicar ==
  ASSUME TypeInv, NEW p \in Proceso, Manejar(p, "COMPENSAR_STOCK"),
         pc'[p]["COMPENSAR_STOCK"] \in {"completar", "publicar"},
         \A m \in Saga : ~Descartar(p, "COMPENSAR_STOCK", m)
  PROVE  /\ UNCHANGED actual
         /\ \/ UNCHANGED liberaciones /\ pc[p]["COMPENSAR_STOCK"] = "completar"
            \/ liberaciones'[actual[p]["COMPENSAR_STOCK"]] > 0
<1> DEFINE q == "COMPENSAR_STOCK"
<1>0. q \in Paso
  BY DEF Paso
<1>1. \A l : Ir(p, q, l) => l \in {"completar", "publicar"}
  BY <1>0, Dominios DEF Ir
<1>2. Completar(p, q) \/ EscribirCompensacion(p) \/ RegistrarFallo(p, q)
  BY <1>1 DEF Manejar, Comun, Efecto, Recibir, CrearPaso, MarcarCompensando,
              Publicar, PublicarCompensacion, Ack, LeerCompensacion
<1>3. CASE Completar(p, q)
  BY <1>3 DEF Completar, manejador
<1>4. CASE EscribirCompensacion(p)
  BY <1>0, <1>4, Tipos DEF EscribirCompensacion, manejador
<1>5. CASE RegistrarFallo(p, q)
  <2>1. Parar(p)
    BY <1>5 DEF RegistrarFallo, Levantar, Compensacion
  <2>2. pc'[p][q] = "libre"
    BY <1>0, <2>1, Dominios DEF Parar
  <2>3. QED
    BY <2>2
<1>6. QED
  BY <1>2, <1>3, <1>4, <1>5

\* Without a fault the step is one of the client or of a handler.
LEMMA SinFallo ==
  ASSUME TypeInv, [Next]_vars, fallos' = 0
  PROVE  /\ fallos = 0
         /\ \/ \E s \in Saga, F \in Banderas : IniciarSaga(s, F)
            \/ \E p \in Proceso, q \in Paso : Manejar(p, q)
            \/ UNCHANGED vars
<1>1. \A tipo : ~Falla(tipo)
  BY Tipos, ConstantesOK DEF Falla
<1>2. \A p \in Proceso : ~Fallar(p)
  BY <1>1, ZenonT(40) DEF Fallar, FallaPublicar, FallaCompensar, FallaBD, FallaRegistro, FallaConsulta,
              Caida, ConexionPerdida
<1>3. ASSUME NEW p \in Proceso, NEW q \in Paso, Manejar(p, q)  PROVE fallos' = fallos
  BY <1>3 DEF Manejar, Comun, Efecto, Recibir, Descartar, CrearPaso,
         MarcarCompensando, Completar, Publicar, RegistrarFallo, PublicarCompensacion,
         Ack, CrearPedido, LeerReserva, EscribirReserva, CobrarPago, NotificarCliente,
         ConfirmarPedido, CancelarPedido, Cerrar, LeerCompensacion, EscribirCompensacion
<1>4. QED
  BY <1>2, <1>3 DEF Next, IniciarSaga, vars

\* A step of a handler that is not of queue q leaves the handler of q alone.
LEMMA OtroManejador ==
  ASSUME TypeInv, NEW p \in Proceso, NEW k \in Paso, Manejar(p, k), NEW r \in Proceso,
         NEW q \in Paso, pc'[r][q] # "libre", UnProceso
  PROVE  \/ k = q /\ \A m \in Saga : ~Descartar(p, q, m)
         \/ pc'[r][q] = pc[r][q] /\ actual'[r][q] = actual[r][q]
<1>1. r = p
  BY DEF UnProceso
<1>2. CASE RegistrarFallo(p, k) /\ Compensacion(k) = Ninguno
  <2>1. Parar(p)
    BY <1>2 DEF RegistrarFallo, Levantar
  <2>2. pc'[p][q] = "libre"
    BY <2>1, Dominios DEF Parar
  <2>3. QED
    BY <1>1, <2>2
<1>3. CASE k # q /\ ~(RegistrarFallo(p, k) /\ Compensacion(k) = Ninguno)
  BY <1>3, OtraFila DEF PasoDe
<1>4. ASSUME NEW m \in Saga, Descartar(p, q, m)
      PROVE  pc'[r][q] = pc[r][q] /\ actual'[r][q] = actual[r][q]
  BY <1>4 DEF Descartar, manejador
<1>5. QED
  BY <1>2, <1>3, <1>4

LEMMA DevueltoManejar ==
  ASSUME TypeInv, UnProceso, FallasLimpias, UnaVez, Caminos, NEW p \in Proceso, NEW k \in Paso,
         Manejar(p, k), NEW s \in Saga, Devuelto(s)
  PROVE  Devuelto(s)'
<1>0. Camino(s) /\ Fila /\ {"RESERVAR_STOCK", "COMPENSAR_STOCK", "CANCELAR_PEDIDO"} \subseteq Paso
  BY DEF Caminos, Paso
<1>1. reservas'[s] # reservas[s] => Pendiente(s, "RESERVAR_STOCK") /\ EscribirReserva(p)
  BY CuentasDeOtro DEF EscribirReserva, Pendiente
<1>2. /\ reservas[s] \in Nat /\ liberaciones[s] \in Nat
      /\ liberaciones'[s] \in Nat /\ liberaciones'[s] >= liberaciones[s]
  <2>1. TypeInv'
    BY TypeInvNext DEF Next
  <2>2. QED
    BY <2>1, Tipos, CuentasDeOtro DEF TypeInv, TypeOK
<1>3. ASSUME Vivo(s, "CANCELAR_PEDIDO")'
      PROVE  reservas'[s] = 0 \/ liberaciones'[s] > 0
  <2>1. CASE Vivo(s, "CANCELAR_PEDIDO")
    <3>1. "CANCELAR_PEDIDO" \in Tras("RESERVAR_STOCK")
      BY DEF Tras, Paso
    <3>2. reservas'[s] = reservas[s]
      BY <1>0, <1>1, <2>1, <3>1 DEF Camino
    <3>3. QED
      BY <1>2, <2>1, <3>2 DEF Devuelto
  <2>2. CASE ~Vivo(s, "CANCELAR_PEDIDO")
    <3>1. PasoDe(p, k)
      <4>1. CASE RegistrarFallo(p, k) /\ Compensacion(k) = Ninguno
        <5>1. PasoFinal(p)
          BY <4>1 DEF PasoFinal
        <5>2. MenguaEn(s, "CANCELAR_PEDIDO")
          BY <1>0, <5>1, FinalLimpio, DevueltaMengua
        <5>3. QED
          BY <1>3, <2>2, <5>2 DEF MenguaEn
      <4>2. QED
        BY <4>1 DEF PasoDe
    <3>2. /\ actual[p][k] = s
          /\ \/ Publicar(p, k) /\ Siguiente(k) = "CANCELAR_PEDIDO"
             \/ PublicarCompensacion(p, k) /\ Compensacion(k) = "CANCELAR_PEDIDO"
      BY <1>0, <1>3, <2>2, <3>1, VivoNuevo
    <3>3. CASE Publicar(p, k) /\ Siguiente(k) = "CANCELAR_PEDIDO"
      <4>1. k = "COMPENSAR_STOCK"
        BY <3>3 DEF Siguiente, Paso
      <4>2. liberaciones[s] > 0
        BY <3>2, <3>3, <4>1 DEF Devuelto, Publicar
      <4>3. QED
        BY <1>2, <4>2
    <3>4. CASE PublicarCompensacion(p, k) /\ Compensacion(k) = "CANCELAR_PEDIDO"
      <4>1. k = "RESERVAR_STOCK"
        BY <3>4 DEF Compensacion, Paso
      <4>2. reservas[s] = 0 /\ reservas' = reservas
        BY <3>2, <3>4, <4>1 DEF Devuelto, PublicarCompensacion, tablas
      <4>3. QED
        BY <4>2
    <3>5. QED
      BY <3>2, <3>3, <3>4
  <2>3. QED
    BY <2>1, <2>2
<1>4. ASSUME NEW r \in Proceso, actual'[r]["RESERVAR_STOCK"] = s,
             pc'[r]["RESERVAR_STOCK"] \in {"fallo", "compensar"}
      PROVE  reservas'[s] = 0
  <2>1. r = p
    BY DEF UnProceso
  <2>2. CASE k = "RESERVAR_STOCK" /\ \A m \in Saga : ~Descartar(p, k, m)
    BY <1>4, <2>1, <2>2, HaciaFallo DEF Devuelto
  <2>3. CASE /\ pc'[r]["RESERVAR_STOCK"] = pc[r]["RESERVAR_STOCK"]
             /\ actual'[r]["RESERVAR_STOCK"] = actual[r]["RESERVAR_STOCK"]
    <3>1. reservas[s] = 0
      BY <1>4, <2>3 DEF Devuelto
    <3>2. ~EscribirReserva(p)
      BY <1>4, <2>1, <2>3 DEF EscribirReserva
    <3>3. QED
      BY <1>1, <3>1, <3>2
  <2>4. QED
    BY <1>0, <1>4, <2>1, <2>2, <2>3, OtroManejador
<1>5. ASSUME NEW r \in Proceso, actual'[r]["COMPENSAR_STOCK"] = s,
             pc'[r]["COMPENSAR_STOCK"] \in {"completar", "publicar"}
      PROVE  liberaciones'[s] > 0
  <2>1. r = p
    BY DEF UnProceso
  <2>2. CASE k = "COMPENSAR_STOCK" /\ \A m \in Saga : ~Descartar(p, k, m)
    BY <1>2, <1>5, <2>1, <2>2, HaciaPublicar DEF Devuelto
  <2>3. CASE /\ pc'[r]["COMPENSAR_STOCK"] = pc[r]["COMPENSAR_STOCK"]
             /\ actual'[r]["COMPENSAR_STOCK"] = actual[r]["COMPENSAR_STOCK"]
    BY <1>2, <1>5, <2>3 DEF Devuelto
  <2>4. QED
    BY <1>0, <1>5, <2>1, <2>2, <2>3, OtroManejador
<1>6. QED
  BY <1>3, <1>4, <1>5 DEF Devuelto

LEMMA DevueltoNext ==
  ASSUME TypeInv, UnProceso, FallasLimpias, UnaVez, Caminos, Pedidos, [Next]_vars, NEW s \in Saga,
         fallos' = 0
  PROVE  Devuelto(s)'
<1>1. Devuelto(s)
  BY SinFallo DEF Pedidos
<1>2. ASSUME NEW p \in Proceso, NEW k \in Paso, Manejar(p, k)  PROVE Devuelto(s)'
  BY <1>1, <1>2, DevueltoManejar
<1>3. ASSUME UNCHANGED <<log, pc, actual, reservas, liberaciones>>,
             cola'["CANCELAR_PEDIDO"][s] = cola["CANCELAR_PEDIDO"][s]
      PROVE  Devuelto(s)'
  BY <1>1, <1>3 DEF Devuelto, Vivo
<1>4. ASSUME NEW m \in Saga, NEW F, IniciarSaga(m, F)  PROVE Devuelto(s)'
  <2>1. "CANCELAR_PEDIDO" \in Paso /\ "CREATE_PEDIDO" \in Paso
    BY DEF Paso
  <2>2. cola'["CANCELAR_PEDIDO"][s] = cola["CANCELAR_PEDIDO"][s]
    BY <1>4, <2>1, EnColaOtro, Tipos DEF IniciarSaga
  <2>3. QED
    BY <1>3, <1>4, <2>2 DEF IniciarSaga, manejador, tablas
<1>5. CASE UNCHANGED vars
  BY <1>3, <1>5 DEF vars
<1>6. QED
  BY <1>2, <1>4, <1>5, SinFallo

Inv == TypeInv /\ Respaldo /\ UnaVez /\ Caminos /\ Pedidos

LEMMA InvInit == Init => Inv
<1> SUFFICES ASSUME Init  PROVE Inv
  OBVIOUS
<1>1. Respaldo
  BY RespaldoInit
<1>2. ASSUME NEW s \in Saga  PROVE Pedido(s) /\ Devuelto(s)
  <2>1. Pedido(s)
    BY DEF Init, Pedido, PasoStock, Paso
  <2>2. Devuelto(s)
    BY ConstantesOK DEF Init, Devuelto, Vivo, Paso
  <2>3. QED
    BY <2>1, <2>2
<1>3. QED
  BY <1>1, <1>2, InitTypeInv, UnaVezInit, CaminosInit DEF Inv, Pedidos

LEMMA InvNext ==
  ASSUME UnProceso, FallasLimpias
  PROVE  Inv /\ [Next]_vars => Inv'
<1> SUFFICES ASSUME Inv, [Next]_vars  PROVE Inv'
  OBVIOUS
<1>1. TypeInv' /\ Respaldo' /\ UnaVez' /\ Caminos'
  BY TypeInvNext, RespaldoNext, UnaVezNext, CaminosNext DEF Inv
<1>2. Pedidos'
  BY PedidoNext, DevueltoNext DEF Inv, Pedidos
<1>3. QED
  BY <1>1, <1>2 DEF Inv

\* Under the same conditions both ends are final: a confirmed order is not
\* cancelled, a cancelled one not confirmed.
THEOREM FinalEstableConUnProceso ==
  ASSUME UnProceso, FallasLimpias
  PROVE  Spec => EstadoFinalEstable
<1>1. Inv /\ [Next]_vars => [\A s \in Saga : estado[s] \in Final => estado'[s] = estado[s]]_vars
  BY FinalEstable DEF Inv, Pedidos
<1>2. QED
  BY <1>1, InvInit, InvNext, PTL DEF Spec, EstadoFinalEstable

-----------------------------------------------------------------------------
(* The saga implements CicloPedido: a step writes one order, or records the *)
(* first fault, or stutters.                                                *)

saldo == [s \in Saga |-> Saldo(s)]

\* What the write of a stock finds: a pending order, which had its stock not
\* yet, or has it still.
LEMMA EscribeReserva ==
  ASSUME Inv, NEW p \in Proceso, EscribirReserva(p)
  PROVE  LET s == actual[p]["RESERVAR_STOCK"] IN
         /\ s \in Saga /\ estado[s] = "PENDIENTE" /\ reservas[s] = 0 /\ liberaciones[s] = 0
<1> DEFINE q == "RESERVAR_STOCK"
           s == actual[p][q]
<1>0. /\ q \in Paso /\ q \in PasoStock /\ {"CONFIRMAR_PEDIDO", "CANCELAR_PEDIDO"} \subseteq Tras(q)
      /\ pc[p][q] = "escribir"
  BY DEF Paso, PasoStock, Tras, EscribirReserva
<1>1. s \in Saga
  BY <1>0, Tipos DEF Inv
<1>2. reservas[s] = 0
  BY <1>0 DEF Inv, UnaVez, UnaVezEn, ManejadorUnaVez, Cuenta
<1>3. liberaciones[s] = 0
  BY <1>1, <1>2 DEF Inv, Respaldo, SinRespaldo
<1>4. Pendiente(s, q)
  BY <1>0 DEF Pendiente
<1>5. ~Vivo(s, "CONFIRMAR_PEDIDO") /\ ~Vivo(s, "CANCELAR_PEDIDO")
  BY <1>0, <1>1, <1>4 DEF Inv, Caminos, Camino
<1>6. estado[s] \notin {"CONFIRMADO", "CANCELADO", Ninguno}
  BY <1>0, <1>1, <1>5 DEF Inv, Pedidos, Pedido, Vivo
<1>7. estado[s] = "PENDIENTE"
  BY <1>1, <1>6, Tipos DEF Inv, EstadoT, PedidoEstado
<1>8. QED
  BY <1>1, <1>2, <1>3, <1>7

LEMMA EscribeCompensacion ==
  ASSUME Inv, NEW p \in Proceso, EscribirCompensacion(p)
  PROVE  LET s == actual[p]["COMPENSAR_STOCK"] IN
         /\ s \in Saga /\ estado[s] = "PENDIENTE" /\ reservas[s] > 0 /\ liberaciones[s] = 0
<1> DEFINE q == "COMPENSAR_STOCK"
           s == actual[p][q]
<1>0. /\ q \in Paso /\ q \in PasoStock /\ q \in Posterior /\ pc[p][q] = "escribir"
      /\ {"CONFIRMAR_PEDIDO", "CANCELAR_PEDIDO"} \subseteq Tras(q)
  BY DEF Paso, PasoStock, Posterior, Tras, EscribirCompensacion
<1>1. s \in Saga
  BY <1>0, Tipos DEF Inv
<1>2. liberaciones[s] = 0
  BY <1>0 DEF Inv, UnaVez, UnaVezEn, ManejadorUnaVez, Cuenta
<1>3. reservas[s] > 0
  BY <1>0, <1>1 DEF Inv, Respaldo, SinRespaldo
<1>4. Pendiente(s, q)
  BY <1>0 DEF Pendiente
<1>5. ~Vivo(s, "CONFIRMAR_PEDIDO") /\ ~Vivo(s, "CANCELAR_PEDIDO")
  BY <1>0, <1>1, <1>4 DEF Inv, Caminos, Camino
<1>6. estado[s] \notin {"CONFIRMADO", "CANCELADO", Ninguno}
  BY <1>0, <1>1, <1>5 DEF Inv, Pedidos, Pedido, Vivo
<1>7. estado[s] = "PENDIENTE"
  BY <1>1, <1>6, Tipos DEF Inv, EstadoT, PedidoEstado
<1>8. QED
  BY <1>1, <1>2, <1>3, <1>7

\* An order that changes state leaves PENDIENTE, and only as CicloPedido says.
LEMMA Cierra ==
  ASSUME Inv, NEW p \in Proceso, NEW s \in Saga, estado'[s] # estado[s],
         ConfirmarPedido(p) \/ CancelarPedido(p), [Next]_vars, FallasLimpias
  PROVE  /\ estado[s] = "PENDIENTE"
         /\ ConfirmarPedido(p) => Saldo(s) = "retenido"
         /\ CancelarPedido(p) /\ Saldo(s) = "retenido" => fallos > 0
<1> USE DEF Inv
<1>0. Fila /\ Camino(s) /\ Pedido(s)
  BY DEF Caminos, Pedidos
<1>1. estado[s] # Ninguno /\ estado[s] \notin Final
  BY <1>0, Escritores, FinalEstable
<1>2. estado[s] = "PENDIENTE"
  BY <1>1, Tipos DEF EstadoT, PedidoEstado, Final
<1>3. ASSUME ConfirmarPedido(p)  PROVE Saldo(s) = "retenido"
  <2>1. actual[p]["CONFIRMAR_PEDIDO"] = s
    BY <1>0, <1>3, Escritores
  <2>2. reservas[s] > 0
    BY <2>1 DEF Respaldo, SinRespaldo, Posterior
  <2>3. ~Vivo(s, "COMPENSAR_STOCK")
    BY <1>0, <2>1 DEF Camino, Vivo
  <2>4. liberaciones[s] = 0
    BY <2>3 DEF UnaVez, UnaVezEn, FilaUnaVez, Cuenta, PasoStock, Vivo
  <2>5. QED
    BY <2>2, <2>4 DEF Saldo
<1>4. ASSUME CancelarPedido(p), Saldo(s) = "retenido"  PROVE fallos > 0
  <2>1. Vivo(s, "CANCELAR_PEDIDO")
    BY <1>0, <1>4, Escritores DEF Vivo
  <2>2. ~(reservas[s] = 0) /\ ~(liberaciones[s] > 0)
    BY <1>4, Tipos DEF Saldo
  <2>3. fallos # 0
    BY <2>1, <2>2 DEF Pedidos, Devuelto
  <2>4. QED
    BY <2>3, Tipos, ConstantesOK
<1>5. QED
  BY <1>2, <1>3, <1>4

\* Only the stock handlers change the counts, only a fault the fault count.
LEMMA Columnas ==
  ASSUME TypeInv, [Next]_vars
  PROVE  \/ UNCHANGED <<estado, reservas, liberaciones, fallos>>
         \/ UNCHANGED <<estado, reservas, liberaciones>> /\ fallos' > 0
         \/ /\ UNCHANGED <<reservas, liberaciones, fallos>>
            /\ \E p \in Proceso : CrearPedido(p) \/ ConfirmarPedido(p) \/ CancelarPedido(p)
         \/ /\ UNCHANGED <<estado, fallos>>
            /\ \E p \in Proceso : EscribirReserva(p) \/ EscribirCompensacion(p)
<1>1. \A tipo : Falla(tipo) => fallos' > 0
  BY Tipos, ConstantesOK DEF Falla
<1>2. ASSUME NEW p \in Proceso, Fallar(p)
      PROVE  UNCHANGED <<estado, reservas, liberaciones>> /\ fallos' > 0
  BY <1>1, <1>2 DEF Fallar, FallaPublicar, FallaCompensar, FallaBD, FallaRegistro,
              FallaConsulta, Caida, ConexionPerdida, tablas
<1>3. ASSUME NEW p \in Proceso, NEW q \in Paso, Manejar(p, q)
      PROVE  \/ UNCHANGED <<estado, reservas, liberaciones, fallos>>
             \/ /\ UNCHANGED <<reservas, liberaciones, fallos>>
                /\ CrearPedido(p) \/ ConfirmarPedido(p) \/ CancelarPedido(p)
             \/ UNCHANGED <<estado, fallos>> /\ (EscribirReserva(p) \/ EscribirCompensacion(p))
  <2>1. CASE Comun(p, q)
    BY <2>1 DEF Comun, Recibir, Descartar, CrearPaso, MarcarCompensando, Completar, Publicar,
                RegistrarFallo, PublicarCompensacion, Ack, tablas
  <2>2. CASE Efecto(p, q)
    BY <2>2 DEF Efecto, CrearPedido, LeerReserva, EscribirReserva, CobrarPago,
                NotificarCliente, ConfirmarPedido, CancelarPedido, Cerrar, LeerCompensacion,
                EscribirCompensacion, tablas
  <2>3. QED
    BY <1>3, <2>1, <2>2 DEF Manejar
<1>4. QED
  BY <1>2, <1>3 DEF Next, IniciarSaga, tablas, vars

LEMMA SaldoIgual ==
  ASSUME UNCHANGED <<reservas, liberaciones>>
  PROVE  saldo' = saldo
BY DEF saldo, Saldo

\* The two counts of the order p wrote, and no other, have moved.
LEMMA SaldoEscrito ==
  ASSUME Inv, NEW p \in Proceso, EscribirReserva(p) \/ EscribirCompensacion(p)
  PROVE  \E s \in Saga : Ciclo!Retener(s) \/ Ciclo!Devolver(s)
<1> USE DEF Inv
<1>1. CASE EscribirReserva(p)
  <2>1. PICK s \in Saga : /\ s = actual[p]["RESERVAR_STOCK"]
                         /\ estado[s] = "PENDIENTE" /\ reservas[s] = 0 /\ liberaciones[s] = 0
    BY <1>1, EscribeReserva
  <2>2. /\ reservas' = [reservas EXCEPT ![s] = @ + 1] /\ liberaciones' = liberaciones
        /\ UNCHANGED <<estado, fallos>>
    BY <1>1, <2>1 DEF EscribirReserva
  <2>3. Saldo(s) = "libre" /\ Saldo(s)' = "retenido"
    BY <2>1, <2>2, Tipos DEF Saldo
  <2>4. \A m \in Saga : m # s => Saldo(m)' = Saldo(m)
    BY <2>2, Tipos DEF Saldo
  <2>5. saldo' = [saldo EXCEPT ![s] = "retenido"]
    BY <2>1, <2>3, <2>4 DEF saldo
  <2>6. saldo[s] = "libre"
    BY <2>1, <2>3 DEF saldo
  <2>7. Ciclo!Retener(s)
    BY <2>1, <2>2, <2>5, <2>6 DEF Ciclo!Retener, saldo
  <2>8. QED
    BY <2>1, <2>7
<1>2. CASE EscribirCompensacion(p)
  <2>1. PICK s \in Saga : /\ s = actual[p]["COMPENSAR_STOCK"]
                         /\ estado[s] = "PENDIENTE" /\ reservas[s] > 0 /\ liberaciones[s] = 0
    BY <1>2, EscribeCompensacion
  <2>2. /\ liberaciones' = [liberaciones EXCEPT ![s] = @ + 1] /\ reservas' = reservas
        /\ UNCHANGED <<estado, fallos>>
    BY <1>2, <2>1 DEF EscribirCompensacion
  <2>3. Saldo(s) = "retenido" /\ Saldo(s)' = "devuelto"
    BY <2>1, <2>2, Tipos DEF Saldo
  <2>4. \A m \in Saga : m # s => Saldo(m)' = Saldo(m)
    BY <2>2, Tipos DEF Saldo
  <2>5. saldo' = [saldo EXCEPT ![s] = "devuelto"]
    BY <2>1, <2>3, <2>4 DEF saldo
  <2>6. saldo[s] = "retenido"
    BY <2>1, <2>3 DEF saldo
  <2>7. Ciclo!Devolver(s)
    BY <2>1, <2>2, <2>5, <2>6 DEF Ciclo!Devolver, saldo
  <2>8. QED
    BY <2>1, <2>7
<1>3. QED
  BY <1>1, <1>2

LEMMA EstadoEscrito ==
  ASSUME Inv, [Next]_vars, FallasLimpias, UNCHANGED <<reservas, liberaciones, fallos>>,
         NEW p \in Proceso, CrearPedido(p) \/ ConfirmarPedido(p) \/ CancelarPedido(p)
  PROVE  [Ciclo!Next]_(Ciclo!vars)
<1> USE DEF Inv
<1>0. {"CREATE_PEDIDO", "CONFIRMAR_PEDIDO", "CANCELAR_PEDIDO"} \subseteq Paso /\ Fila
  BY DEF Paso, Caminos
<1>1. saldo' = saldo
  BY SaldoIgual
<1>2. CASE estado' = estado
  BY <1>1, <1>2 DEF Ciclo!vars, saldo
<1>3. CASE estado' # estado
  <2>1. PICK m \in Saga, e \in PedidoEstado : estado' = [estado EXCEPT ![m] = e]
    BY <1>0, <1>3, Tipos DEF CrearPedido, ConfirmarPedido, CancelarPedido, Cerrar,
                            PedidoEstado
  <2>2. estado'[m] # estado[m] /\ estado'[m] = e
    BY <1>3, <2>1, Tipos DEF EstadoT
  <2>3. saldo[m] = Saldo(m)
    BY DEF saldo
  <2>4. CASE CrearPedido(p)
    <3>1. estado[m] = Ninguno /\ e = "PENDIENTE"
      BY <1>0, <2>2, <2>4, Escritores
    <3>2. Ciclo!Crear(m)
      BY <1>1, <2>1, <3>1 DEF Ciclo!Crear, saldo
    <3>3. QED
      BY <3>2 DEF Ciclo!Next
  <2>5. CASE ConfirmarPedido(p)
    <3>1. e = "CONFIRMADO" /\ estado[m] = "PENDIENTE" /\ Saldo(m) = "retenido"
      BY <1>0, <2>2, <2>5, Escritores, Cierra
    <3>2. Ciclo!Confirmar(m)
      BY <1>1, <2>1, <2>3, <3>1 DEF Ciclo!Confirmar, saldo
    <3>3. QED
      BY <3>2 DEF Ciclo!Next
  <2>6. CASE CancelarPedido(p)
    <3>1. /\ e = "CANCELADO" /\ estado[m] = "PENDIENTE"
          /\ Saldo(m) = "retenido" => fallos > 0
      BY <1>0, <2>2, <2>6, Escritores, Cierra
    <3>2. Ciclo!Cancelar(m)
      BY <1>1, <2>1, <2>3, <3>1 DEF Ciclo!Cancelar, saldo
    <3>3. QED
      BY <3>2 DEF Ciclo!Next
  <2>7. QED
    BY <2>4, <2>5, <2>6
<1>4. QED
  BY <1>2, <1>3

LEMMA CicloNext ==
  ASSUME FallasLimpias
  PROVE  Inv /\ [Next]_vars => [Ciclo!Next]_(Ciclo!vars)
<1> SUFFICES ASSUME Inv, [Next]_vars  PROVE [Ciclo!Next]_(Ciclo!vars)
  OBVIOUS
<1>1. CASE UNCHANGED <<estado, reservas, liberaciones, fallos>>
  BY <1>1, SaldoIgual DEF Ciclo!vars, saldo
<1>2. CASE UNCHANGED <<estado, reservas, liberaciones>> /\ fallos' > 0
  BY <1>2, SaldoIgual DEF Ciclo!Next, Ciclo!Fallar, saldo
<1>3. ASSUME UNCHANGED <<reservas, liberaciones, fallos>>,
             NEW p \in Proceso, CrearPedido(p) \/ ConfirmarPedido(p) \/ CancelarPedido(p)
      PROVE  [Ciclo!Next]_(Ciclo!vars)
  BY <1>3, EstadoEscrito
<1>4. ASSUME NEW p \in Proceso, EscribirReserva(p) \/ EscribirCompensacion(p)
      PROVE  [Ciclo!Next]_(Ciclo!vars)
  BY <1>4, SaldoEscrito DEF Ciclo!Next
<1>5. QED
  BY <1>1, <1>2, <1>3, <1>4, Columnas DEF Inv

LEMMA CicloInit == Init => Ciclo!Init
BY DEF Init, Ciclo!Init, Saldo

\* While one process consumes the queues and no call is left in doubt, the
\* queues, the log and the handlers do what CicloPedido says and no more: the
\* stock is taken once and given back once, only while the order is pending; it
\* is confirmed only with its stock, and cancelled with it only after a fault.
THEOREM SagaImplementaCiclo ==
  ASSUME UnProceso, FallasLimpias
  PROVE  Spec => ImplementaCiclo
BY InvInit, InvNext, CicloInit, CicloNext, PTL DEF Spec, ImplementaCiclo, Ciclo!Spec
=============================================================================
