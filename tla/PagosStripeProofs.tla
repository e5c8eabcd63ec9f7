-------------------------- MODULE PagosStripeProofs --------------------------
(***************************************************************************)
(* Safety of the payments for any orders, intents and requests in flight,  *)
(* with events repeated and reordered and requests cut short.              *)
(***************************************************************************)
EXTENDS PagosStripe, TLAPS

-----------------------------------------------------------------------------
(* The inductive invariant.                                                *)

\* A request that is going to create an intent owns it: neither Stripe nor
\* pagos knows it, and no other request works on it.
CreaPropio(r) ==
  LET i == pet[r].intento IN
  /\ pet[r].en = "crear" => intento[i] = Ninguno
  /\ pet[r].en = "insertar" => intento[i] \in {"requires_payment_method", "canceled"}
  /\ pet[r].en \in {"crear", "insertar"} =>
       /\ pago[i] = Ninguno
       /\ \A o \in Peticion : pet[o].intento = i => o = r

\* A request works on an intent that has a row.
SobreFila(r) ==
  pet[r].en \in {"confirmar", "consultar", "reembolsar", "pedido", "guardar"} =>
    pago[pet[r].intento] # Ninguno

\* What a request has read of its payment is stale at worst in that the
\* payment has since left pendiente.
LeidoVale(r) ==
  pet[r].en \in {"consultar", "pedido", "guardar"} =>
    /\ pet[r].leido # Ninguno
    /\ pet[r].en = "consultar" => pet[r].evento = Ninguno
    /\ pet[r].leido # "pendiente" => pago[pet[r].intento] # "pendiente"

\* What a request is going to write is backed by Stripe, and answers its event.
MetaVale(r) ==
  pet[r].en \in {"pedido", "guardar"} =>
    LET i == pet[r].intento IN
    /\ pet[r].meta \in {"pagado", "fallido", "reembolsado"}
    /\ pet[r].meta = "pagado" => intento[i] = "succeeded"
    /\ pet[r].meta = "reembolsado" => i \in reembolsados
    /\ pet[r].evento = "payment_intent.succeeded" => pet[r].meta = "pagado"

PetOK(r) ==
  /\ pet[r].en # "libre" => pet[r].intento \in Intento
  /\ CreaPropio(r)
  /\ SobreFila(r)
  /\ LeidoVale(r)
  /\ MetaVale(r)

\* Stripe's events tell the truth and its refunds follow a charge.
EventosCiertos ==
  \A i \in Intento :
    /\ <<i, "payment_intent.succeeded">> \in emitidos => intento[i] = "succeeded"
    /\ <<i, "charge.refunded">> \in emitidos => i \in reembolsados
    /\ i \in reembolsados => intento[i] = "succeeded"

FilaConIntento == \A i \in Intento : pago[i] # Ninguno => intento[i] # Ninguno

Inv ==
  /\ TypeOK
  /\ \A r \in Peticion : PetOK(r)
  /\ EventosCiertos
  /\ FilaConIntento
  /\ PagoRespaldado
  /\ ConfirmadoCobrado
  /\ CobroAvisado

-----------------------------------------------------------------------------
(* The proof.                                                              *)

USE DEF Ninguno

PetT == [en: Paso, intento: Intento \cup {Ninguno}, evento: Evento \cup {Ninguno},
         leido: PagoEstado \cup {Ninguno}, meta: PagoEstado \cup {Ninguno},
         visto: PedidoEstado \cup {Ninguno}]

SinPagar == {"requires_payment_method", "canceled"}

\* What a step may do to intent j under the feet of the requests that work on it.
Ajeno(j) ==
  /\ intento[j] = Ninguno => intento'[j] = Ninguno
  /\ intento[j] = "succeeded" => intento'[j] = "succeeded"
  /\ pago[j] = Ninguno => pago'[j] = Ninguno
  /\ pago[j] = Ninguno /\ intento[j] \in SinPagar => intento'[j] \in SinPagar
  /\ pago[j] # Ninguno => pago'[j] # Ninguno
  /\ pago[j] # Ninguno /\ pago[j] # "pendiente" => pago'[j] # "pendiente"
  /\ j \in reembolsados => j \in reembolsados'

\* A step of Stripe or of the browser leaves the requests as they are.
LEMMA PetExterno ==
  ASSUME Inv, UNCHANGED pet, \A j \in Intento : Ajeno(j)
  PROVE  \A o \in Peticion : PetOK(o)'
BY DEF Inv, PetOK, CreaPropio, SobreFila, LeidoVale, MetaVale, Ajeno, SinPagar

\* A step of request r leaves the others as they are.
LEMMA PetPropio ==
  ASSUME Inv, NEW r \in Peticion, NEW x \in PetT, pet' = [pet EXCEPT ![r] = x],
         \A o \in Peticion : o # r /\ pet[o].en # "libre" => Ajeno(pet[o].intento),
         \/ x.intento = Ninguno
         \/ x.intento = pet[r].intento
         \/ pago[x.intento] # Ninguno
         \/ \A o \in Peticion : pet[o].intento # x.intento,
         PetOK(r)'
  PROVE  pet' \in [Peticion -> PetT] /\ \A o \in Peticion : PetOK(o)'
<1>1. pet \in [Peticion -> PetT]
  BY DEF Inv, TypeOK, PetT
<1>2. pet' \in [Peticion -> PetT] /\ pet'[r] = x
  BY <1>1
<1>3. ASSUME NEW o \in Peticion, o # r  PROVE PetOK(o)'
  <2>1. pet'[o] = pet[o]
    BY <1>1, <1>3
  <2>2. PetOK(o)
    BY DEF Inv
  <2>3. CASE pet[o].en = "libre"
    BY <2>1, <2>3 DEF PetOK, CreaPropio, SobreFila, LeidoVale, MetaVale
  <2>4. CASE pet[o].en # "libre"
    <3>1. Ajeno(pet[o].intento) /\ pet[o].intento \in Intento
      BY <1>3, <2>2, <2>4 DEF PetOK
    <3>2. CreaPropio(o)'
      <4> SUFFICES ASSUME pet[o].en \in {"crear", "insertar"}, NEW p \in Peticion,
                          pet'[p].intento = pet[o].intento
                   PROVE  p = o
        BY <2>1, <2>2, <3>1 DEF PetOK, CreaPropio, Ajeno, SinPagar
      <4>1. /\ pago[pet[o].intento] = Ninguno
            /\ \A q \in Peticion : pet[q].intento = pet[o].intento => q = o
        BY <2>2 DEF PetOK, CreaPropio
      <4>2. CASE p = r
        BY <1>2, <1>3, <3>1, <4>1, <4>2, PagosOK
      <4>3. CASE p # r
        BY <1>1, <4>1, <4>3
      <4>4. QED
        BY <4>2, <4>3
    <3>3. SobreFila(o)' /\ LeidoVale(o)' /\ MetaVale(o)'
      BY <2>1, <2>2, <3>1 DEF PetOK, SobreFila, LeidoVale, MetaVale, Ajeno
    <3>4. QED
      BY <2>1, <3>1, <3>2, <3>3 DEF PetOK
  <2>5. QED
    BY <2>3, <2>4
<1>4. QED
  BY <1>2, <1>3

\* What a step does to Stripe and to the tables, apart from the requests.
EnTablas ==
  /\ intento \in [Intento -> IntentoEstado \cup {Ninguno}]
  /\ reembolsados \in SUBSET Intento
  /\ emitidos \in SUBSET (Intento \X Evento)
  /\ porEntregar \in SUBSET emitidos
  /\ pago \in [Intento -> PagoEstado \cup {Ninguno}]
  /\ pedido \in [Pedido -> PedidoEstado]
  /\ fallos \in 0..MaxFallos
  /\ EventosCiertos
  /\ FilaConIntento
  /\ PagoRespaldado
  /\ ConfirmadoCobrado
  /\ CobroAvisado

LEMMA Partes ==
  Inv <=> EnTablas /\ pet \in [Peticion -> PetT] /\ \A r \in Peticion : PetOK(r)
BY DEF Inv, EnTablas, TypeOK, PetT

LEMMA PartesPrima ==
  ASSUME EnTablas', pet' \in [Peticion -> PetT], \A r \in Peticion : PetOK(r)'
  PROVE  Inv'
BY DEF Inv, EnTablas, TypeOK, PetT

LEMMA TablasIguales ==
  ASSUME EnTablas, UNCHANGED <<stripe, tablas>>, fallos' \in 0..MaxFallos
  PROVE  EnTablas' /\ \A j : Ajeno(j)
<1>1. UNCHANGED <<intento, reembolsados, emitidos, porEntregar, pago, pedido>>
  BY DEF stripe, tablas
<1>2. \A j : Ajeno(j)
  BY <1>1 DEF Ajeno
<1>3. EventosCiertos' /\ FilaConIntento' /\ PagoRespaldado' /\ ConfirmadoCobrado'
      /\ CobroAvisado'
  BY <1>1 DEF EnTablas, EventosCiertos, FilaConIntento, PagoRespaldado, ConfirmadoCobrado,
              CobroAvisado
<1>4. QED
  BY <1>1, <1>2, <1>3 DEF EnTablas

LEMMA ExternoInv ==
  ASSUME Inv, NEW i \in Intento, Externo(i)
  PROVE  Inv'
<1>1. EnTablas /\ pet \in [Peticion -> PetT]
  BY Partes
<1>2. PICK st \in {"processing", "succeeded", "requires_payment_method", "canceled"} :
        /\ intento' = [intento EXCEPT ![i] = st]
        /\ intento[i] \in {"processing", "requires_payment_method"}
        /\ pago[i] = Ninguno /\ intento[i] \in SinPagar => st = "canceled"
  BY DEF SinPagar, Externo, ConfirmarCliente, Cobrar, Rechazar, CancelarIntento
<1>3. UNCHANGED <<reembolsados, pago, pedido, pet, fallos>>
  BY DEF Externo, ConfirmarCliente, Cobrar, Rechazar, CancelarIntento, tablas
<1>4. \/ UNCHANGED <<emitidos, porEntregar>> /\ st # "succeeded"
      \/ Emitir(i, "payment_intent.succeeded") /\ st = "succeeded"
      \/ Emitir(i, "payment_intent.payment_failed") /\ st # "succeeded"
  <2>1. intento'[i] = st
    BY <1>1, <1>2 DEF EnTablas
  <2>2. CASE ConfirmarCliente(i) \/ CancelarIntento(i)
    BY <1>1, <2>1, <2>2 DEF EnTablas, ConfirmarCliente, CancelarIntento
  <2>3. CASE Cobrar(i)
    BY <1>1, <2>1, <2>3 DEF EnTablas, Cobrar
  <2>4. CASE Rechazar(i)
    BY <1>1, <2>1, <2>4 DEF EnTablas, Rechazar
  <2>5. QED
    BY <2>2, <2>3, <2>4 DEF Externo
<1>5. \A j \in Intento : Ajeno(j)
  BY <1>1, <1>2, <1>3 DEF Ajeno, EnTablas, SinPagar
<1>6. EnTablas'
  <2>1. intento' \in [Intento -> IntentoEstado \cup {Ninguno}]
    BY <1>1, <1>2 DEF EnTablas, IntentoEstado
  <2>2. emitidos' \in SUBSET (Intento \X Evento) /\ porEntregar' \in SUBSET emitidos'
    BY <1>1, <1>4 DEF EnTablas, Emitir, Evento
  <2>3. EventosCiertos'
    <3>1. i \notin reembolsados /\ <<i, "payment_intent.succeeded">> \notin emitidos
      BY <1>1, <1>2 DEF EnTablas, EventosCiertos
    <3>2. ASSUME NEW j \in Intento, <<j, "payment_intent.succeeded">> \in emitidos'
          PROVE  intento'[j] = "succeeded"
      <4>1. CASE <<j, "payment_intent.succeeded">> \in emitidos
        BY <1>1, <1>5, <4>1 DEF EnTablas, EventosCiertos, Ajeno
      <4>2. CASE <<j, "payment_intent.succeeded">> \notin emitidos
        <5>1. st = "succeeded" /\ j = i
          BY <1>4, <3>2, <4>2 DEF Emitir
        <5>2. QED
          BY <1>1, <1>2, <5>1 DEF EnTablas
      <4>3. QED
        BY <4>1, <4>2
    <3>3. ASSUME NEW j \in Intento, <<j, "charge.refunded">> \in emitidos'
          PROVE  j \in reembolsados'
      BY <1>1, <1>3, <1>4, <3>3 DEF EnTablas, EventosCiertos, Emitir
    <3>4. ASSUME NEW j \in Intento, j \in reembolsados'
          PROVE  intento'[j] = "succeeded"
      BY <1>1, <1>2, <1>3, <3>1, <3>4 DEF EnTablas, EventosCiertos
    <3>5. QED
      BY <3>2, <3>3, <3>4 DEF EventosCiertos
  <2>4. FilaConIntento'
    BY <1>1, <1>2, <1>3 DEF EnTablas, FilaConIntento
  <2>5. PagoRespaldado'
    BY <1>1, <1>3, <1>5 DEF EnTablas, PagoRespaldado, Ajeno
  <2>6. ConfirmadoCobrado'
    BY <1>1, <1>3, <1>5 DEF EnTablas, ConfirmadoCobrado, Ajeno
  <2>7. CobroAvisado'
    <3> SUFFICES ASSUME NEW j \in Intento, intento'[j] = "succeeded", pago[j] = "pendiente"
                 PROVE  <<j, "payment_intent.succeeded">> \in porEntregar'
      BY <1>3 DEF CobroAvisado
    <3>1. CASE j = i
      BY <1>1, <1>2, <1>4, <3>1 DEF EnTablas, Emitir
    <3>2. CASE j # i
      BY <1>1, <1>2, <1>4, <3>2 DEF EnTablas, Emitir, CobroAvisado
    <3>3. QED
      BY <3>1, <3>2
  <2>8. QED
    BY <1>1, <1>3, <2>1, <2>2, <2>3, <2>4, <2>5, <2>6, <2>7 DEF EnTablas
<1>7. QED
  BY <1>1, <1>3, <1>5, <1>6, PetExterno, PartesPrima

\* A request starts, or goes on, without touching Stripe or the tables.
LEMMA SoloPet ==
  ASSUME Inv, NEW r \in Peticion, NEW x \in PetT, pet' = [pet EXCEPT ![r] = x],
         UNCHANGED <<stripe, tablas>>, fallos' \in 0..MaxFallos,
         \/ x.intento = Ninguno
         \/ x.intento = pet[r].intento
         \/ pago[x.intento] # Ninguno
         \/ \A o \in Peticion : pet[o].intento # x.intento,
         PetOK(r)'
  PROVE  Inv'
<1>1. EnTablas' /\ \A j : Ajeno(j)
  BY TablasIguales, Partes
<1>2. QED
  BY <1>1, PetPropio, PartesPrima

LEMMA LibreOK ==
  ASSUME NEW r \in Peticion, pet'[r] = Libre
  PROVE  PetOK(r)'
BY DEF PetOK, CreaPropio, SobreFila, LeidoVale, MetaVale, Libre

LEMMA LibreTipo == Libre \in PetT
BY DEF Libre, PetT, Paso

LEMMA EntranteInv ==
  ASSUME Inv, NEW r \in Peticion, NEW i \in Intento, Entrante(r, i)
  PROVE  Inv'
<1> DEFINE pon(l) == [Libre EXCEPT !.en = l, !.intento = i]
<1>1. /\ pet \in [Peticion -> PetT] /\ fallos' \in 0..MaxFallos
      /\ pago[i] \in PagoEstado \cup {Ninguno}
      /\ UNCHANGED <<stripe, tablas>> /\ pet[r] = Libre
  BY Partes DEF EnTablas, Entrante, CrearPago, ConfirmarPagoTest, SincronizarPago,
                ReembolsarPago, StripeWebhook, Empezar
<1>2. UNCHANGED <<intento, reembolsados, emitidos, porEntregar, pago, pedido>>
  BY <1>1 DEF stripe, tablas
<1>3. CASE CrearPago(r, i)
  <2>1. pon("crear") \in PetT
    BY DEF PetT, Paso, Libre
  <2>2. pet' = [pet EXCEPT ![r] = pon("crear")]
    BY <1>3 DEF CrearPago, Empezar
  <2>3. \A o \in Peticion : pet[o].intento # i
    BY <1>3 DEF CrearPago
  <2>4. pago[i] = Ninguno /\ intento[i] = Ninguno
    BY <1>3, Partes DEF CrearPago, EnTablas, FilaConIntento
  <2>5. pet'[r].en = "crear" /\ pet'[r].intento = i
    BY <1>1, <2>2 DEF Libre
  <2>6. \A o \in Peticion : pet'[o].intento = i => o = r
    BY <1>1, <2>2, <2>3
  <2>7. PetOK(r)'
    BY <1>2, <2>4, <2>5, <2>6 DEF PetOK, CreaPropio, SobreFila, LeidoVale, MetaVale
  <2>8. QED
    BY <1>1, <2>1, <2>2, <2>3, <2>7, SoloPet DEF Libre
<1>4. CASE ConfirmarPagoTest(r, i) \/ ReembolsarPago(r, i)
  <2>1. PICK l \in {"confirmar", "reembolsar"} : pet' = [pet EXCEPT ![r] = pon(l)]
    BY <1>4 DEF ConfirmarPagoTest, ReembolsarPago, Empezar
  <2>2. pon(l) \in PetT
    BY DEF PetT, Paso, Libre
  <2>3. pago[i] # Ninguno
    BY <1>4 DEF ConfirmarPagoTest, ReembolsarPago
  <2>4. pet'[r].en = l /\ pet'[r].intento = i
    BY <1>1, <2>1 DEF Libre
  <2>5. PetOK(r)'
    BY <1>2, <2>3, <2>4 DEF PetOK, CreaPropio, SobreFila, LeidoVale, MetaVale
  <2>6. QED
    BY <1>1, <2>1, <2>2, <2>3, <2>5, SoloPet DEF Libre
<1>5. CASE SincronizarPago(r, i)
  <2> DEFINE x == [Libre EXCEPT !.en = "consultar", !.intento = i, !.leido = pago[i]]
  <2>1. pet' = [pet EXCEPT ![r] = x] /\ pago[i] # Ninguno
    BY <1>5 DEF SincronizarPago, Empezar
  <2>2. x \in PetT
    BY <1>1 DEF PetT, Paso, Libre
  <2>3. /\ pet'[r].en = "consultar" /\ pet'[r].intento = i /\ pet'[r].leido = pago[i]
        /\ pet'[r].evento = Ninguno
    BY <1>1, <2>1 DEF Libre
  <2>4. PetOK(r)'
    BY <1>2, <2>1, <2>3 DEF PetOK, CreaPropio, SobreFila, LeidoVale, MetaVale
  <2>5. QED
    BY <1>1, <2>1, <2>2, <2>4, SoloPet DEF Libre
<1>6. ASSUME NEW tipo \in Evento, StripeWebhook(r, i, tipo)  PROVE Inv'
  <2> DEFINE x == [Libre EXCEPT !.en = "pedido", !.intento = i, !.evento = tipo,
                                !.leido = pago[i], !.meta = MetaDeEvento(tipo)]
  <2>1. pet' = [pet EXCEPT ![r] = x] /\ pago[i] # Ninguno
    BY <1>6 DEF StripeWebhook, Empezar
  <2>2. MetaDeEvento(tipo) \in {"pagado", "fallido", "reembolsado"}
    BY DEF Evento, MetaDeEvento
  <2>3. x \in PetT
    BY <1>1, <2>2 DEF PetT, Paso, Libre, PagoEstado
  <2>4. /\ pet'[r].en = "pedido" /\ pet'[r].intento = i /\ pet'[r].leido = pago[i]
        /\ pet'[r].evento = tipo /\ pet'[r].meta = MetaDeEvento(tipo)
    BY <1>1, <2>1 DEF Libre
  <2>5. <<i, tipo>> \in emitidos
    BY <1>6, Partes DEF StripeWebhook, Entregables, EnTablas
  <2>6. /\ MetaDeEvento(tipo) = "pagado" => intento[i] = "succeeded"
        /\ MetaDeEvento(tipo) = "reembolsado" => i \in reembolsados
        /\ tipo = "payment_intent.succeeded" => MetaDeEvento(tipo) = "pagado"
    BY <2>5, Partes DEF EnTablas, EventosCiertos, MetaDeEvento, Evento
  <2>7. PetOK(r)'
    BY <1>2, <2>1, <2>2, <2>4, <2>6 DEF PetOK, CreaPropio, SobreFila, LeidoVale, MetaVale
  <2>8. QED
    BY <1>1, <2>1, <2>3, <2>7, SoloPet DEF Libre
<1>7. QED
  BY <1>3, <1>4, <1>5, <1>6 DEF Entrante

\* A request ends without touching Stripe or the tables.
LEMMA AcabarInv ==
  ASSUME Inv, NEW r \in Peticion, Acabar(r), UNCHANGED <<stripe, tablas>>,
         fallos' \in 0..MaxFallos
  PROVE  Inv'
<1>1. pet'[r] = Libre
  BY Partes DEF Acabar
<1>2. QED
  BY <1>1, LibreOK, LibreTipo, SoloPet DEF Acabar, Libre

\* A request ends with a write.
LEMMA AcabarEscribiendo ==
  ASSUME Inv, NEW r \in Peticion, Acabar(r), EnTablas',
         \A o \in Peticion : o # r /\ pet[o].en # "libre" => Ajeno(pet[o].intento)
  PROVE  Inv'
<1>1. pet'[r] = Libre
  BY Partes DEF Acabar
<1>2. Libre.intento = Ninguno
  BY DEF Libre
<1>3. pet' \in [Peticion -> PetT] /\ \A o \in Peticion : PetOK(o)'
  BY <1>1, <1>2, LibreOK, LibreTipo, PetPropio DEF Acabar
<1>4. QED
  BY <1>3, PartesPrima

LEMMA AbortarInv ==
  ASSUME Inv, NEW r \in Peticion, Abortar(r)
  PROVE  Inv'
<1>1. fallos \in 0..MaxFallos
  BY Partes DEF EnTablas
<1>2. fallos' \in 0..MaxFallos
  BY <1>1, PagosOK DEF Abortar
<1>3. QED
  BY <1>2, AcabarInv DEF Abortar

LEMMA CrearIntentoInv ==
  ASSUME Inv, NEW r \in Peticion, CrearIntento(r)
  PROVE  Inv'
<1> DEFINE i == pet[r].intento
           x == [pet[r] EXCEPT !.en = "insertar"]
<1>1. EnTablas /\ pet \in [Peticion -> PetT] /\ PetOK(r) /\ i \in Intento
  BY Partes DEF PetOK, CrearIntento
<1>2. /\ pet[r].en = "crear" /\ intento[i] = Ninguno /\ pago[i] = Ninguno
      /\ \A o \in Peticion : pet[o].intento = i => o = r
  BY <1>1 DEF CrearIntento, PetOK, CreaPropio
<1>3. /\ intento' = [intento EXCEPT ![i] = "requires_payment_method"]
      /\ UNCHANGED <<reembolsados, emitidos, porEntregar, pago, pedido, fallos>>
  BY DEF CrearIntento, tablas
<1>4. pet' = [pet EXCEPT ![r] = x] /\ x \in PetT /\ x.intento = i /\ x.en = "insertar"
  BY <1>1 DEF CrearIntento, PetT, Paso
<1>5. \A j \in Intento : j # i => Ajeno(j)
  BY <1>1, <1>3 DEF Ajeno, EnTablas
<1>6. \A o \in Peticion : o # r /\ pet[o].en # "libre" => Ajeno(pet[o].intento)
  BY <1>2, <1>5, Partes DEF PetOK
<1>7. PetOK(r)'
  <2>1. pet'[r] = x
    BY <1>1, <1>4
  <2>2. \A o \in Peticion : pet'[o].intento = i => o = r
    BY <1>1, <1>2, <1>4
  <2>3. QED
    BY <1>1, <1>2, <1>3, <1>4, <2>1, <2>2
       DEF PetOK, CreaPropio, SobreFila, LeidoVale, MetaVale, EnTablas, SinPagar
<1>8. EnTablas'
  <2>1. intento' \in [Intento -> IntentoEstado \cup {Ninguno}]
    BY <1>1, <1>3 DEF EnTablas, IntentoEstado
  <2>2. \A j \in Intento : intento[j] = "succeeded" <=> intento'[j] = "succeeded"
    BY <1>1, <1>2, <1>3 DEF EnTablas
  <2>3. \A j \in Intento : intento[j] # Ninguno => intento'[j] # Ninguno
    BY <1>1, <1>3 DEF EnTablas
  <2>4. EventosCiertos' /\ FilaConIntento' /\ PagoRespaldado' /\ ConfirmadoCobrado'
        /\ CobroAvisado'
    BY <1>1, <1>3, <2>2, <2>3 DEF EnTablas, EventosCiertos, FilaConIntento, PagoRespaldado,
       ConfirmadoCobrado, CobroAvisado
  <2>5. QED
    BY <1>1, <1>3, <2>1, <2>4 DEF EnTablas
<1>9. pet' \in [Peticion -> PetT] /\ \A o \in Peticion : PetOK(o)'
  BY <1>4, <1>6, <1>7, PetPropio
<1>10. QED
  BY <1>8, <1>9, PartesPrima

LEMMA InsertarPagoInv ==
  ASSUME Inv, NEW r \in Peticion, InsertarPago(r)
  PROVE  Inv'
<1> DEFINE i == pet[r].intento
<1>1. EnTablas /\ PetOK(r) /\ i \in Intento
  BY Partes DEF PetOK, InsertarPago
<1>2. /\ pago[i] = Ninguno
      /\ \A o \in Peticion : pet[o].intento = i => o = r
  BY <1>1 DEF InsertarPago, PetOK, CreaPropio
<1>3. /\ pago' = [pago EXCEPT ![i] = "pendiente"]
      /\ UNCHANGED <<intento, reembolsados, emitidos, porEntregar, pedido, fallos>>
  BY DEF InsertarPago, stripe
<1>4. \A j \in Intento : j # i => Ajeno(j)
  BY <1>1, <1>3 DEF Ajeno, EnTablas
<1>5. \A o \in Peticion : o # r /\ pet[o].en # "libre" => Ajeno(pet[o].intento)
  BY <1>2, <1>4, Partes DEF PetOK
<1>6. intento[i] \notin {Ninguno, "succeeded"}
  BY <1>1 DEF InsertarPago, PetOK, CreaPropio
<1>7. EnTablas'
  <2>1. pago' \in [Intento -> PagoEstado \cup {Ninguno}]
    BY <1>1, <1>3 DEF EnTablas, PagoEstado
  <2>2. FilaConIntento' /\ PagoRespaldado'
    BY <1>1, <1>3, <1>6 DEF EnTablas, FilaConIntento, PagoRespaldado
  <2>3. EventosCiertos' /\ ConfirmadoCobrado' /\ CobroAvisado'
    BY <1>1, <1>3, <1>6 DEF EnTablas, EventosCiertos, ConfirmadoCobrado, CobroAvisado
  <2>4. QED
    BY <1>1, <1>3, <2>1, <2>2, <2>3 DEF EnTablas
<1>8. QED
  BY <1>5, <1>7, AcabarEscribiendo DEF InsertarPago

LEMMA ConfirmarIntentoInv ==
  ASSUME Inv, NEW r \in Peticion, ConfirmarIntento(r)
  PROVE  Inv'
<1> DEFINE i == pet[r].intento
<1>1. EnTablas /\ i \in Intento /\ pago[i] # Ninguno
  BY Partes DEF PetOK, SobreFila, ConfirmarIntento
<1>2. UNCHANGED <<reembolsados, emitidos, porEntregar, pago, pedido, fallos>>
  BY DEF ConfirmarIntento, tablas
<1>3. \/ intento' = intento
      \/ /\ intento[i] = "requires_payment_method"
         /\ intento' = [intento EXCEPT ![i] = "processing"]
  BY DEF ConfirmarIntento
<1>4. \A j \in Intento : Ajeno(j)
  BY <1>1, <1>2, <1>3 DEF Ajeno, EnTablas, SinPagar
<1>5. EnTablas'
  <2>1. intento' \in [Intento -> IntentoEstado \cup {Ninguno}]
    BY <1>1, <1>3 DEF EnTablas, IntentoEstado
  <2>2. \A j \in Intento : intento[j] = "succeeded" <=> intento'[j] = "succeeded"
    BY <1>1, <1>3 DEF EnTablas
  <2>3. \A j \in Intento : intento[j] # Ninguno => intento'[j] # Ninguno
    BY <1>1, <1>3 DEF EnTablas
  <2>4. EventosCiertos' /\ FilaConIntento' /\ PagoRespaldado' /\ ConfirmadoCobrado'
        /\ CobroAvisado'
    BY <1>1, <1>2, <2>2, <2>3 DEF EnTablas, EventosCiertos, FilaConIntento, PagoRespaldado,
       ConfirmadoCobrado, CobroAvisado
  <2>5. QED
    BY <1>1, <1>2, <2>1, <2>4 DEF EnTablas
<1>6. QED
  BY <1>4, <1>5, AcabarEscribiendo, Partes DEF ConfirmarIntento, PetOK

LEMMA ReembolsarIntentoInv ==
  ASSUME Inv, NEW r \in Peticion, ReembolsarIntento(r)
  PROVE  Inv'
<1> DEFINE i == pet[r].intento
<1>1. EnTablas /\ i \in Intento
  BY Partes DEF PetOK, ReembolsarIntento
<1>2. UNCHANGED <<intento, pago, pedido, fallos>>
  BY DEF ReembolsarIntento, tablas
<1>3. \/ UNCHANGED <<reembolsados, emitidos, porEntregar>>
      \/ /\ intento[i] = "succeeded"
         /\ reembolsados' = reembolsados \cup {i}
         /\ emitidos' = emitidos \cup {<<i, "charge.refunded">>}
         /\ porEntregar' = porEntregar \cup {<<i, "charge.refunded">>}
  BY DEF ReembolsarIntento, Emitir
<1>4. \A j \in Intento : Ajeno(j)
  BY <1>2, <1>3 DEF Ajeno
<1>5. EnTablas'
  <2>1. /\ reembolsados' \in SUBSET Intento
        /\ emitidos' \in SUBSET (Intento \X Evento) /\ porEntregar' \in SUBSET emitidos'
    BY <1>1, <1>3 DEF EnTablas, Evento
  <2>2. EventosCiertos'
    <3> SUFFICES ASSUME NEW j \in Intento
                 PROVE  /\ <<j, "payment_intent.succeeded">> \in emitidos' =>
                             intento[j] = "succeeded"
                        /\ <<j, "charge.refunded">> \in emitidos' => j \in reembolsados'
                        /\ j \in reembolsados' => intento[j] = "succeeded"
      BY <1>2 DEF EventosCiertos
    <3>1. <<j, "payment_intent.succeeded">> \in emitidos' =>
            <<j, "payment_intent.succeeded">> \in emitidos
      BY <1>3
    <3>2. <<j, "charge.refunded">> \in emitidos' =>
            <<j, "charge.refunded">> \in emitidos \/ (j = i /\ i \in reembolsados')
      BY <1>3
    <3>3. j \in reembolsados' => j \in reembolsados \/ (j = i /\ intento[i] = "succeeded")
      BY <1>3
    <3>4. reembolsados \subseteq reembolsados'
      BY <1>3
    <3>5. QED
      BY <1>1, <3>1, <3>2, <3>3, <3>4 DEF EnTablas, EventosCiertos
  <2>3. FilaConIntento' /\ PagoRespaldado' /\ ConfirmadoCobrado' /\ CobroAvisado'
    BY <1>1, <1>2, <1>3 DEF EnTablas, FilaConIntento, PagoRespaldado, ConfirmadoCobrado,
                            CobroAvisado
  <2>4. QED
    BY <1>1, <1>2, <2>1, <2>2, <2>3 DEF EnTablas
<1>6. QED
  BY <1>4, <1>5, AcabarEscribiendo, Partes DEF ReembolsarIntento, PetOK

LEMMA ConsultarIntentoInv ==
  ASSUME Inv, NEW r \in Peticion, ConsultarIntento(r)
  PROVE  Inv'
<1> DEFINE i == pet[r].intento
           meta == MetaDeEstado(intento[i])
<1>1. /\ EnTablas /\ pet \in [Peticion -> PetT] /\ PetOK(r) /\ i \in Intento
      /\ pet[r].en = "consultar"
  BY Partes DEF PetOK, ConsultarIntento
<1>2. UNCHANGED <<intento, reembolsados, emitidos, porEntregar, pago, pedido>>
      /\ fallos' \in 0..MaxFallos
  BY <1>1 DEF ConsultarIntento, stripe, tablas, EnTablas
<1>3. CASE meta = Ninguno
  BY <1>2, <1>3, AcabarInv DEF ConsultarIntento
<1>4. CASE meta # Ninguno
  <2> DEFINE x == [pet[r] EXCEPT !.en = "pedido", !.meta = meta]
  <2>1. meta \in {"pagado", "fallido"} /\ (meta = "pagado" => intento[i] = "succeeded")
    BY <1>4 DEF MetaDeEstado
  <2>2. /\ pet' = [pet EXCEPT ![r] = x] /\ x \in PetT
    BY <1>1, <1>4, <2>1 DEF ConsultarIntento, PetT, Paso, PagoEstado
  <2>3. /\ pet'[r].en = "pedido" /\ pet'[r].intento = i /\ pet'[r].meta = meta
        /\ pet'[r].leido = pet[r].leido /\ pet'[r].evento = pet[r].evento
    BY <1>1, <2>2 DEF PetT
  <2>4. pet[r].evento = "payment_intent.succeeded" => meta = "pagado"
    BY <1>1 DEF PetOK, LeidoVale
  <2>5. PetOK(r)'
    BY <1>1, <1>2, <2>1, <2>3, <2>4 DEF PetOK, CreaPropio, SobreFila, LeidoVale, MetaVale
  <2>6. QED
    BY <1>1, <1>2, <2>2, <2>5, SoloPet DEF ConsultarIntento, PetT
<1>5. QED
  BY <1>3, <1>4

LEMMA LeerPedidoInv ==
  ASSUME Inv, NEW r \in Peticion, LeerPedido(r)
  PROVE  Inv'
<1> DEFINE i == pet[r].intento
           x == [pet[r] EXCEPT !.en = "guardar", !.visto = pedido[PedidoDe[i]]]
<1>1. /\ EnTablas /\ pet \in [Peticion -> PetT] /\ PetOK(r) /\ i \in Intento
      /\ pet[r].en = "pedido"
  BY Partes DEF PetOK, LeerPedido
<1>2. UNCHANGED <<intento, reembolsados, emitidos, porEntregar, pago, pedido>>
      /\ fallos' \in 0..MaxFallos
  BY <1>1 DEF LeerPedido, stripe, tablas, EnTablas
<1>3. pedido[PedidoDe[i]] \in PedidoEstado
  BY <1>1, PagosOK DEF EnTablas
<1>4. pet' = [pet EXCEPT ![r] = x] /\ x \in PetT
  BY <1>1, <1>3 DEF LeerPedido, PetT, Paso
<1>5. /\ pet'[r].en = "guardar" /\ pet'[r].intento = i /\ pet'[r].meta = pet[r].meta
      /\ pet'[r].leido = pet[r].leido /\ pet'[r].evento = pet[r].evento
  BY <1>1, <1>4 DEF PetT
<1>6. PetOK(r)'
  BY <1>1, <1>2, <1>5 DEF PetOK, CreaPropio, SobreFila, LeidoVale, MetaVale
<1>7. QED
  BY <1>1, <1>2, <1>4, <1>6, SoloPet DEF LeerPedido, PetT

LEMMA GuardarInv ==
  ASSUME Inv, NEW r \in Peticion, Guardar(r)
  PROVE  Inv'
<1> DEFINE i == pet[r].intento
           d == PedidoDe[i]
           meta == pet[r].meta
<1>1. EnTablas /\ PetOK(r) /\ i \in Intento /\ d \in Pedido /\ pet[r].en = "guardar"
  BY Partes, PagosOK DEF PetOK, Guardar
<1>2. /\ meta \in {"pagado", "fallido", "reembolsado"}
      /\ meta = "pagado" => intento[i] = "succeeded"
      /\ meta = "reembolsado" => i \in reembolsados
      /\ pet[r].evento = "payment_intent.succeeded" => meta = "pagado"
      /\ pago[i] # Ninguno
      /\ pet[r].leido = meta => pago[i] # "pendiente"
  BY <1>1 DEF PetOK, MetaVale, SobreFila, LeidoVale
<1>3. /\ UNCHANGED <<intento, reembolsados, emitidos, fallos>>
      /\ porEntregar' = porEntregar \ {<<i, pet[r].evento>>}
  BY DEF Guardar
<1>4. /\ \A j \in Intento : j # i => pago'[j] = pago[j]
      /\ pago'[i] = meta \/ (pago'[i] = pago[i] /\ pet[r].leido = meta)
      /\ pago' \in [Intento -> PagoEstado \cup {Ninguno}]
  BY <1>1, <1>2 DEF Guardar, EnTablas, PagoEstado
<1>5. /\ \A e \in Pedido : e # d => pedido'[e] = pedido[e]
      /\ pedido'[d] \in {pedido[d], EstadoDelPedido(meta)}
      /\ pedido' \in [Pedido -> PedidoEstado]
  BY <1>1 DEF Guardar, EnTablas, EstadoDelPedido, PedidoEstado
<1>6. pago'[i] \notin {Ninguno, "pendiente"}
  BY <1>2, <1>4
<1>7. \A j \in Intento : Ajeno(j)
  BY <1>2, <1>3, <1>4, <1>6 DEF Ajeno
<1>8. EnTablas'
  <2>1. EventosCiertos'
    BY <1>1, <1>3 DEF EnTablas, EventosCiertos
  <2>2. FilaConIntento'
    BY <1>1, <1>2, <1>3, <1>4 DEF EnTablas, FilaConIntento
  <2>3. PagoRespaldado'
    BY <1>1, <1>2, <1>3, <1>4 DEF EnTablas, PagoRespaldado
  <2>4. ConfirmadoCobrado'
    <3> SUFFICES ASSUME NEW e \in Pedido, pedido'[e] = "CONFIRMADO"
                 PROVE  \E j \in Intento : PedidoDe[j] = e /\ intento[j] = "succeeded"
      BY <1>3 DEF ConfirmadoCobrado
    <3>1. CASE pedido[e] = "CONFIRMADO"
      BY <1>1, <3>1 DEF EnTablas, ConfirmadoCobrado
    <3>2. CASE pedido[e] # "CONFIRMADO"
      <4>1. e = d /\ EstadoDelPedido(meta) = "CONFIRMADO"
        BY <1>5, <3>2
      <4>2. meta = "pagado"
        BY <4>1 DEF EstadoDelPedido
      <4>3. QED
        BY <1>1, <1>2, <4>1, <4>2
    <3>3. QED
      BY <3>1, <3>2
  <2>5. CobroAvisado'
    <3> SUFFICES ASSUME NEW j \in Intento, intento[j] = "succeeded", pago'[j] = "pendiente"
                 PROVE  <<j, "payment_intent.succeeded">> \in porEntregar'
      BY <1>3 DEF CobroAvisado
    <3>1. j # i
      BY <1>6
    <3>2. <<j, "payment_intent.succeeded">> \in porEntregar
      BY <1>1, <1>4, <3>1 DEF EnTablas, CobroAvisado
    <3>3. QED
      BY <1>3, <3>1, <3>2
  <2>6. porEntregar' \in SUBSET emitidos'
    BY <1>1, <1>3 DEF EnTablas
  <2>7. QED
    BY <1>1, <1>3, <1>4, <1>5, <2>1, <2>2, <2>3, <2>4, <2>5, <2>6 DEF EnTablas
<1>9. QED
  BY <1>7, <1>8, AcabarEscribiendo, Partes DEF Guardar, PetOK

LEMMA InvNext == Inv /\ [Next]_vars => Inv'
<1> SUFFICES ASSUME Inv, [Next]_vars  PROVE Inv'
  OBVIOUS
<1>1. ASSUME NEW i \in Intento, Externo(i)  PROVE Inv'
  BY <1>1, ExternoInv
<1>2. ASSUME NEW r \in Peticion, NEW i \in Intento, Entrante(r, i)  PROVE Inv'
  BY <1>2, EntranteInv
<1>3. ASSUME NEW r \in Peticion, Avanzar(r)  PROVE Inv'
  BY <1>3, CrearIntentoInv, InsertarPagoInv, ConfirmarIntentoInv, ConsultarIntentoInv,
     ReembolsarIntentoInv, LeerPedidoInv, GuardarInv DEF Avanzar
<1>4. ASSUME NEW r \in Peticion, Abortar(r)  PROVE Inv'
  BY <1>4, AbortarInv
<1>5. CASE UNCHANGED vars
  <2>1. /\ UNCHANGED <<intento, reembolsados, emitidos, porEntregar, pago, pedido, pet, fallos>>
    BY <1>5 DEF vars, stripe, tablas
  <2>2. EnTablas' /\ \A j : Ajeno(j)
    BY <2>1, TablasIguales, Partes DEF stripe, tablas, EnTablas
  <2>3. QED
    BY <2>1, <2>2, PetExterno, PartesPrima, Partes
<1>6. QED
  BY <1>1, <1>2, <1>3, <1>4, <1>5 DEF Next

LEMMA InitInv == Init => Inv
<1> SUFFICES ASSUME Init  PROVE Inv
  OBVIOUS
<1>1. \A r \in Peticion : PetOK(r)
  BY DEF Init, PetOK, CreaPropio, SobreFila, LeidoVale, MetaVale, Libre
<1>2. pet \in [Peticion -> PetT]
  BY LibreTipo DEF Init
<1>3. EnTablas
  BY PagosOK DEF Init, EnTablas, EventosCiertos, FilaConIntento, PagoRespaldado,
     ConfirmadoCobrado, CobroAvisado, PedidoEstado
<1>4. QED
  BY <1>1, <1>2, <1>3, Partes

LEMMA Invariante == Spec => []Inv
BY InitInv, InvNext, PTL DEF Spec

\* Every variable of the payments has its type.
THEOREM PagosTipos == Spec => []TypeOK
<1>1. Inv => TypeOK
  BY DEF Inv
<1>2. QED
  BY <1>1, Invariante, PTL

\* For any number of orders, intents and concurrent requests, and whatever
\* events Stripe repeats or reorders: a payment is pagado only if its intent
\* was charged, and reembolsado only if it was refunded.
THEOREM PagosRespaldados == Spec => []PagoRespaldado
<1>1. Inv => PagoRespaldado
  BY DEF Inv
<1>2. QED
  BY <1>1, Invariante, PTL

\* No order is confirmed by a payment that Stripe has not charged.
THEOREM ConfirmadosCobrados == Spec => []ConfirmadoCobrado
<1>1. Inv => ConfirmadoCobrado
  BY DEF Inv
<1>2. QED
  BY <1>1, Invariante, PTL

\* No crash, error or concurrent request loses the webhook of a charge that
\* the payment does not show.
THEOREM CobrosAvisados == Spec => []CobroAvisado
<1>1. Inv => CobroAvisado
  BY DEF Inv
<1>2. QED
  BY <1>1, Invariante, PTL
=============================================================================
