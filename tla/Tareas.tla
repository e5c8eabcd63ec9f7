------------------------------- MODULE Tareas -------------------------------
(***************************************************************************)
(* What runs behind the requests: the notifications that a new item sends  *)
(* (crear_item, app/workers/tasks.py, app/notifications) and the hourly    *)
(* import of the files of the old system (app/tasks), both taken by Celery *)
(* workers from a broker.  With task_acks_late a task is handed out again  *)
(* when the worker that had it dies; but Celery acknowledges it when only  *)
(* the pool process that ran it dies, as task_reject_on_worker_lost is not *)
(* set, and rejects for good a task of a module it does not import, which  *)
(* is what the deployed worker does to every notification.                 *)
(*                                                                         *)
(* The import shares the table of items with the requests, and its UNIQUE  *)
(* column sku: a failed insert leaves the session of the job in need of a  *)
(* rollback that nobody calls, so that every later use of it fails.        *)
(*                                                                         *)
(* A file is its rows' skus, and its hash is its contents.  Left out: the  *)
(* text of the messages, the wait between attempts, the response files,    *)
(* and rows without a sku.                                                 *)
(***************************************************************************)
EXTENDS Naturals, Sequences, FiniteSets

CONSTANTS
  Worker,       \* pool processes of the workers of Celery
  Alta,         \* requests that create an item
  SkuDe,        \* SkuDe[a]: the sku that request a gives
  Sku,
  Escenarios,   \* what to start from: CELERY_ENABLED, whether the workers import
                \* app.workers.tasks, the requests with a stock under the threshold, the
                \* files of the folder in the order of os.listdir
  MaxReintentos,\* max_retries of the task
  MaxCola,      \* bound on the imports that wait
  MaxFallos     \* bound on what dies, is lost or fails, SendGrid aside

Archivo == [legible: BOOLEAN, skus: Seq(Sku)]

ASSUME TareasOK ==
  /\ IsFiniteSet(Worker) /\ IsFiniteSet(Alta) /\ Worker \cap Alta = {}
  /\ SkuDe \in [Alta -> Sku]
  /\ MaxReintentos \in Nat /\ MaxCola \in Nat /\ MaxFallos \in Nat

ASSUME EscenariosOK ==
  Escenarios \subseteq [celery: BOOLEAN, importa: BOOLEAN, bajo: SUBSET Alta, carpeta: Seq(Archivo)]

Proceso == Worker \cup Alta
Aviso == Alta \X {"item_creado", "stock_bajo"}
TareaAviso == [aviso: Aviso, intento: 0..MaxReintentos]
Sftp == [aviso |-> <<>>, intento |-> 0]
Tarea == TareaAviso \cup {Sftp}

VARIABLES
  esc,       \* the scenario, which does not change
  proc,      \* proc[p]: what process p does
  cola,      \* cola[t]: messages of task t at the broker
  intentos,  \* history: calls to SendGrid for each notification
  envios,    \* those it accepted
  filas,     \* notificaciones_enviadas: rows of each notification
  agotados,  \* notifications given up: no attempt left, or the retry was lost
  perdidos,  \* history: notifications whose message Celery threw away unfinished
  tabla,     \* items.sku
  registro,  \* integraciones_legacy
  ajenos,    \* history: skus that did not come from a file
  trunco,    \* history: an import was cut short, or the database failed it
  fallos     \* counter of the bound

finales == <<agotados, perdidos>>
avisos == <<intentos, envios, filas, finales>>
importacion == <<tabla, registro, ajenos, trunco>>
vars == <<esc, proc, cola, avisos, importacion, fallos>>

\* k and j: file and row of the import; rota: its session needs a rollback.
Libre == [en |-> "libre", tarea |-> Sftp, k |-> 1, j |-> 1, rota |-> FALSE, mal |-> 0]

Init ==
  /\ esc \in Escenarios
  /\ proc = [p \in Proceso |-> Libre]
  /\ cola = [t \in Tarea |-> 0]
  /\ intentos = [n \in Aviso |-> 0] /\ envios = intentos
  /\ filas = [n \in Aviso |-> [enviado |-> 0, error |-> 0]] 
  /\ agotados = {} /\ perdidos = {}
  /\ tabla = {} /\ ajenos = {}
  /\ registro = {} /\ trunco = FALSE /\ fallos = 0

carpeta == esc.carpeta
Falla == fallos < MaxFallos /\ fallos' = fallos + 1
Ir(p, en) == proc' = [proc EXCEPT ![p].en = en]
Encola(t) == cola' = [cola EXCEPT ![t] = @ + 1]

-----------------------------------------------------------------------------
(* crear_item.                                                             *)

Primera(a, tipo) == [aviso |-> <<a, tipo>>, intento |-> 0]

\* The commit of the item; a sku that is taken is an IntegrityError.
Crear(a) ==
  /\ proc[a].en = "libre"
  /\ IF SkuDe[a] \in tabla THEN Ir(a, "error") /\ UNCHANGED <<tabla, ajenos>>
     ELSE /\ tabla' = tabla \cup {SkuDe[a]} /\ ajenos' = ajenos \cup {SkuDe[a]}
          /\ proc' = [proc EXCEPT ![a].tarea = Primera(a, "item_creado"),
                                  ![a].en = IF esc.celery THEN "encolar" ELSE "enviar"]
  /\ UNCHANGED <<esc, cola, avisos, registro, trunco, fallos>>

\* The first delay is in a try; the one of the low stock is not.
Encolar(a) ==
  /\ \/ /\ proc[a].en = "encolar"
        /\ Encola(Primera(a, "item_creado")) /\ UNCHANGED fallos
        /\ Ir(a, IF a \in esc.bajo THEN "encolar_bajo" ELSE "hecha")
     \/ /\ proc[a].en = "encolar"
        /\ Falla /\ UNCHANGED cola
        /\ Ir(a, IF a \in esc.bajo THEN "encolar_bajo" ELSE "hecha")
     \/ /\ proc[a].en = "encolar_bajo"
        /\ Encola(Primera(a, "stock_bajo")) /\ UNCHANGED fallos
        /\ Ir(a, "hecha")
     \/ /\ proc[a].en = "encolar_bajo"
        /\ Falla /\ UNCHANGED cola
        /\ Ir(a, "error")
  /\ UNCHANGED <<esc, avisos, importacion>>

-----------------------------------------------------------------------------
(* A worker and the broker.                                                *)

EnAviso == {"enviar", "anotar", "anotar_error", "reintentar"}
AvisoDe(p) == proc[p].tarea.aviso

\* The tasks in the modules that the workers import: the import always is.
Conoce(t) == t = Sftp \/ esc.importa

Tomar(w, t) ==
  /\ proc[w].en = "libre" /\ cola[t] > 0 /\ Conoce(t)
  /\ cola' = [cola EXCEPT ![t] = @ - 1]
  /\ proc' = [proc EXCEPT ![w] = [Libre EXCEPT !.tarea = t,
                                    !.en = IF t = Sftp THEN "mirar" ELSE "enviar"]]
  /\ UNCHANGED <<esc, avisos, importacion, fallos>>

\* The message of a task that is not registered is rejected, without requeue.
Descartar(t) ==
  /\ cola[t] > 0 /\ ~Conoce(t)
  /\ cola' = [cola EXCEPT ![t] = @ - 1]
  /\ perdidos' = perdidos \cup {t.aviso}
  /\ UNCHANGED <<esc, proc, intentos, envios, filas, agotados, importacion, fallos>>

\* The task has returned or raised: only now is its message acknowledged.
Confirmar(w) ==
  /\ proc[w].en = "confirmar"
  /\ proc' = [proc EXCEPT ![w] = Libre]
  /\ UNCHANGED <<esc, cola, avisos, importacion, fallos>>

\* Mutant: the message was acknowledged when it was received.
SinReentrega(t) == UNCHANGED cola
Reentrega(t) == Encola(t)

\* A process stops with a task in hand.
Cae(w) ==
  /\ proc[w].en # "libre" /\ Falla
  /\ trunco' = (trunco \/ proc[w].en = "importar")
  /\ proc' = [proc EXCEPT ![w] = Libre]
  /\ UNCHANGED <<esc, intentos, envios, filas, agotados, tabla, registro, ajenos>>

\* The worker dies, and its message, not acknowledged, is handed out again.  A
\* worker with several processes is a death, and a failure, of each.
Morir(w) == Cae(w) /\ Reentrega(proc[w].tarea) /\ UNCHANGED perdidos

\* Only the process dies: the worker sees it lost and acknowledges the message.
MorirProceso(w) ==
  /\ Cae(w)
  /\ perdidos' = IF proc[w].en \in EnAviso THEN perdidos \cup {AvisoDe(w)} ELSE perdidos
  /\ UNCHANGED cola

\* An API process dies: what the request had left is not done.
MorirAlta(a) ==
  /\ proc[a].en \notin {"libre", "hecha", "error"} /\ Falla
  /\ Ir(a, "error")
  /\ UNCHANGED <<esc, cola, avisos, importacion>>

\* Celery Beat, every hour.
Programar ==
  /\ cola[Sftp] < MaxCola
  /\ Encola(Sftp)
  /\ UNCHANGED <<esc, proc, avisos, importacion, fallos>>

-----------------------------------------------------------------------------
(* NotificationService.send, in a worker or, without Celery, in a request.  *)

\* SendGrid takes the message or does not.
send(p) ==
  LET n == AvisoDe(p) IN
  /\ proc[p].en = "enviar"
  /\ intentos' = [intentos EXCEPT ![n] = @ + 1]
  /\ \/ envios' = [envios EXCEPT ![n] = @ + 1] /\ Ir(p, "anotar")
     \/ Ir(p, "anotar_error") /\ UNCHANGED envios
  /\ UNCHANGED <<esc, cola, filas, finales, importacion, fallos>>

\* Mutant: every attempt is written as sent.
SiempreEnviado(n, estado) == filas' = [filas EXCEPT ![n].enviado = @ + 1]
FilaCon(n, estado) == filas' = [filas EXCEPT ![n][estado] = @ + 1]

\* _save, in the try of send: when it fails it is tried again with the error.
save_enviado(p) ==
  /\ proc[p].en = "anotar"
  /\ \/ FilaCon(AvisoDe(p), "enviado") /\ UNCHANGED fallos
        /\ Ir(p, IF p \in Worker THEN "confirmar" ELSE "hecha")
     \/ Falla /\ Ir(p, "anotar_error") /\ UNCHANGED filas
  /\ UNCHANGED <<esc, cola, intentos, envios, finales, importacion>>

\* _save of the error; whether it is stored or not, send raises.
save_error(p) ==
  /\ proc[p].en = "anotar_error"
  /\ \/ FilaCon(AvisoDe(p), "error") /\ UNCHANGED fallos
     \/ Falla /\ UNCHANGED filas
  /\ Ir(p, IF p \in Worker THEN "reintentar" ELSE "error")
  /\ UNCHANGED <<esc, cola, intentos, envios, finales, importacion>>

\* Mutant: a retry does not count.
SinContar(t) == t
Siguiente(t) == [t EXCEPT !.intento = @ + 1]

\* self.retry: a message of its own, published before this one is acknowledged.
\* Without an attempt left the error is raised; when the broker does not take
\* the message, the task is rejected.
Reintentar(w) ==
  LET t == proc[w].tarea IN
  /\ proc[w].en = "reintentar"
  /\ \/ /\ t.intento < MaxReintentos
        /\ Encola(Siguiente(t)) /\ UNCHANGED <<agotados, fallos>>
     \/ /\ t.intento = MaxReintentos
        /\ agotados' = agotados \cup {t.aviso} /\ UNCHANGED <<cola, fallos>>
     \/ /\ t.intento < MaxReintentos /\ Falla
        /\ agotados' = agotados \cup {t.aviso} /\ UNCHANGED cola
  /\ Ir(w, "confirmar")
  /\ UNCHANGED <<esc, intentos, envios, filas, perdidos, importacion>>

-----------------------------------------------------------------------------
(* procesar_archivos_sftp.                                                 *)

Registrado(skus) == \E r \in registro : r.skus = skus
FilaK(w) == carpeta[proc[w].k]

\* Mutant: a file that is not as it should be is imported.
SinFormato(a) == Registrado(a.skus)
\* Mutant: a file with no rows is passed over.
SinFilas(a) == Registrado(a.skus) \/ ~a.legible \/ a.skus = <<>>
\* Registered before, or without the columns: parse_edi_csv raises.
Saltar(a) == Registrado(a.skus) \/ ~a.legible

\* The next file.  The query of its hash is out of the try: with a session in
\* need of a rollback the task ends here.  A file that is registered is passed
\* over, and one that cannot be parsed is reported, in each run again.
Mirar(w) ==
  LET p == proc[w] IN
  /\ p.en = "mirar"
  /\ proc' = [proc EXCEPT ![w] =
       IF p.k > Len(carpeta) \/ p.rota THEN [p EXCEPT !.en = "confirmar"]
       ELSE IF Saltar(FilaK(w)) THEN [p EXCEPT !.k = @ + 1]
       ELSE [p EXCEPT !.en = "importar", !.j = 1, !.mal = 0]]
  /\ UNCHANGED <<esc, cola, avisos, importacion, fallos>>

\* Mutant: the error of an item is swallowed and nobody counts it.
SinContarFallo(p) == [p EXCEPT !.j = @ + 1]
ItemFallido(p) == [p EXCEPT !.j = @ + 1, !.mal = @ + 1, !.rota = TRUE]

\* crear_item_async: an item has a commit of its own, and its error is counted.
\* What fails in the database may have been stored or not; a row that it refuses
\* each time, as codigo_sku is shorter than sku, is here a failure of each time.
Importar(w) ==
  LET p == proc[w]
      s == FilaK(w).skus[p.j]
  IN /\ p.en = "importar" /\ p.j <= Len(FilaK(w).skus)
     /\ \/ /\ ~p.rota /\ s \notin tabla
           /\ tabla' = tabla \cup {s}
           /\ proc' = [proc EXCEPT ![w].j = @ + 1]
           /\ UNCHANGED <<trunco, fallos>>
        \/ /\ p.rota \/ s \in tabla
           /\ proc' = [proc EXCEPT ![w] = ItemFallido(p)]
           /\ UNCHANGED <<tabla, trunco, fallos>>
        \/ /\ ~p.rota /\ s \notin tabla /\ Falla
           /\ tabla' \in {tabla, tabla \cup {s}} /\ trunco' = TRUE
           /\ proc' = [proc EXCEPT ![w] = ItemFallido(p)]
     /\ UNCHANGED <<esc, cola, avisos, registro, ajenos>>

\* The commit of the record needs a good session, and a hash that is new.
Registrable(p, skus) == ~p.rota /\ ~Registrado(skus)

\* The record of the file; its error is caught, the session stays as it is.
Registrar(w) ==
  LET p == proc[w]
      skus == FilaK(w).skus
      sigue == [p EXCEPT !.en = "mirar", !.k = @ + 1]
  IN /\ p.en = "importar" /\ p.j > Len(skus)
     /\ \/ /\ Registrable(p, skus)
           /\ registro' = registro \cup {[skus |-> skus, mal |-> p.mal]}
           /\ proc' = [proc EXCEPT ![w] = sigue]
           /\ UNCHANGED <<trunco, fallos>>
        \/ /\ ~Registrable(p, skus)
           /\ proc' = [proc EXCEPT ![w] = [sigue EXCEPT !.rota = TRUE]]
           /\ UNCHANGED <<registro, trunco, fallos>>
        \/ /\ Registrable(p, skus) /\ Falla
           /\ trunco' = TRUE
           /\ proc' = [proc EXCEPT ![w] = [sigue EXCEPT !.rota = TRUE]]
           /\ UNCHANGED registro
     /\ UNCHANGED <<esc, cola, avisos, tabla, ajenos>>

-----------------------------------------------------------------------------
Avisar(p) == send(p) \/ save_enviado(p) \/ save_error(p)
PasoAlta(a) == Encolar(a) \/ Avisar(a)
PasoWorker(w) ==
  \/ Avisar(w) \/ Reintentar(w) \/ Confirmar(w)
  \/ Mirar(w) \/ Importar(w) \/ Registrar(w)

Next ==
  \/ \E a \in Alta : Crear(a) \/ PasoAlta(a) \/ MorirAlta(a)
  \/ \E w \in Worker :
       (\E t \in Tarea : Tomar(w, t)) \/ PasoWorker(w) \/ Morir(w) \/ MorirProceso(w)
  \/ \E t \in TareaAviso : Descartar(t)
  \/ Programar

Spec == Init /\ [][Next]_vars

\* What runs goes on, the clock of Beat ticks, and a message at the broker is
\* handed out if there is a free worker time and again: the list is a queue.
\* A worker that does not know its task needs no free process to throw it away.
Justicia ==
  /\ \A a \in Alta : WF_vars(PasoAlta(a))
  /\ \A w \in Worker : WF_vars(PasoWorker(w))
  /\ WF_vars(Programar)
  /\ \A t \in Tarea : SF_vars(\E w \in Worker : Tomar(w, t))
  /\ \A t \in TareaAviso : WF_vars(Descartar(t))

SpecJusta == Spec /\ Justicia

-----------------------------------------------------------------------------
EnCarpeta == {"mirar", "importar"}

\* Types, that who works on a notification holds one and who imports is at a
\* file of the folder, and that only files that could be parsed are registered.
TypeOK ==
  /\ cola \in [Tarea -> Nat] /\ intentos \in [Aviso -> Nat] /\ envios \in [Aviso -> Nat]
  /\ filas \in [Aviso -> [enviado: Nat, error: Nat]]
  /\ agotados \subseteq Aviso /\ perdidos \subseteq Aviso
  /\ \A p \in Proceso :
       /\ proc[p].en \in EnAviso => proc[p].tarea \in TareaAviso
       /\ proc[p].en \in EnCarpeta => p \in Worker /\ proc[p].tarea = Sftp
       /\ proc[p].en = "importar" => proc[p].k \in DOMAIN carpeta
       /\ proc[p].mal \in Nat /\ proc[p].rota \in BOOLEAN
  /\ tabla \subseteq Sku /\ ajenos \subseteq tabla
  /\ registro \subseteq [skus: {carpeta[k].skus : k \in {m \in DOMAIN carpeta : carpeta[m].legible}},
                           mal: Nat]
  /\ fallos \in 0..MaxFallos

\* Who is between a call to SendGrid and its row, for notification n.
Anotando(n, en) == {p \in Proceso : proc[p].en \in en /\ AvisoDe(p) = n}

\* The table of what was sent can be believed, however many retries, deaths and
\* redeliveries there were: no row says "enviado" without a message that
\* SendGrid took, no more rows than calls, and a call without a row, a message
\* without an "enviado" or a second message each need a failure of their own.
AvisosContados ==
  \A n \in Aviso :
    LET f == filas[n]
        abiertas == Cardinality(Anotando(n, {"anotar", "anotar_error"}))
        sinFila == Cardinality(Anotando(n, {"anotar"}))
    IN /\ f.enviado <= envios[n]
       /\ f.enviado + f.error <= intentos[n]
       /\ intentos[n] <= f.enviado + f.error + abiertas + fallos
       /\ envios[n] <= f.enviado + sinFila + fallos
       /\ envios[n] <= 1 + fallos

\* A notification is tried max_retries times more at most, and each failure
\* can at most start that sequence once again: a retry that was published by
\* a worker that then died is run beside the redelivered attempt.
IntentosAcotados == \A n \in Aviso : intentos[n] <= (MaxReintentos + 1) * (1 + fallos)

\* A record without failed items means what it says: whatever failed or died,
\* and however many imports ran at once, every row of the file is in the table.
RegistroEntero ==
  \A r \in registro : r.mal = 0 => \A i \in DOMAIN r.skus : r.skus[i] \in tabla

\* A notification at the broker or with a worker.
Pendiente(n) ==
  \/ \E t \in TareaAviso : t.aviso = n /\ cola[t] > 0
  \/ \E w \in Worker : proc[w].en \in EnAviso /\ AvisoDe(w) = n

\* It is delivered or given up in the end, through deaths, retries and
\* redeliveries, unless Celery threw its message away.
AvisoTermina == \A n \in Aviso : Pendiente(n) ~> (envios[n] > 0 \/ n \in agotados \cup perdidos)

\* The rows of the readable files up to k: no sku twice, none of someone else.
SinChoques(k) ==
  LET legibles == {m \in 1..k : carpeta[m].legible}
      lugar == {m \in legibles : \A l \in legibles : carpeta[l].skus = carpeta[m].skus => m <= l}
      filasDe == UNION {{<<m, j>> : j \in DOMAIN carpeta[m].skus} : m \in lugar}
      sku(f) == carpeta[f[1]].skus[f[2]]
  IN \A f, g \in filasDe : sku(f) \notin ajenos /\ (sku(f) = sku(g) => f = g)

\* With no import cut short, every readable file is registered in the end,
\* whatever the unreadable files before it and however many imports overlap,
\* unless a sku of it, or of a file before it, was taken.
ImportacionCompleta ==
  <>(trunco \/ \A k \in DOMAIN carpeta :
                  carpeta[k].legible => Registrado(carpeta[k].skus) \/ ~SinChoques(k))
=============================================================================
