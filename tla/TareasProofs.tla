---------------------------- MODULE TareasProofs ----------------------------
(***************************************************************************)
(* The types of Tareas, that the register of imported files only has whole *)
(* ones, and that the notifications are counted and tried no more often    *)
(* than their failures allow, for any workers, requests, folders and       *)
(* bounds.                                                                 *)
(***************************************************************************)
EXTENDS Tareas, Sumas

-----------------------------------------------------------------------------
(* The inductive invariant.                                                *)

En == {"libre", "encolar", "encolar_bajo", "enviar", "anotar", "anotar_error", "reintentar",
       "confirmar", "mirar", "importar", "hecha", "error"}
ProcT == [en: En, tarea: Tarea, k: Nat \ {0}, j: Nat \ {0}, rota: BOOLEAN, mal: Nat]

\* What x, the state of process p, says is true of the tables: an import is at
\* a file that was parsed, an item that failed has left the session without a
\* rollback, and without one every row before the current is stored.
EstadoOK(p, x) ==
  /\ x.en \in EnAviso \cup {"encolar", "encolar_bajo"} => x.tarea \in TareaAviso
  /\ x.en \in EnCarpeta => p \in Worker /\ x.tarea = Sftp
  /\ x.en = "importar" =>
       /\ x.k \in DOMAIN carpeta /\ carpeta[x.k].legible
       /\ x.mal # 0 => x.rota
       /\ ~x.rota => \A i \in DOMAIN carpeta[x.k].skus : i < x.j => carpeta[x.k].skus[i] \in tabla

Tipos ==
  /\ esc \in Escenarios
  /\ proc \in [Proceso -> ProcT]
  /\ \A p \in Proceso : EstadoOK(p, proc[p])

\* TypeOK without the processes.
Tablas ==
  /\ cola \in [Tarea -> Nat] /\ intentos \in [Aviso -> Nat] /\ envios \in [Aviso -> Nat]
  /\ filas \in [Aviso -> [enviado: Nat, error: Nat]]
  /\ agotados \subseteq Aviso /\ perdidos \subseteq Aviso
  /\ tabla \subseteq Sku /\ ajenos \subseteq tabla
  /\ registro \subseteq [skus: {carpeta[k].skus : k \in {m \in DOMAIN carpeta : carpeta[m].legible}},
                           mal: Nat]
  /\ fallos \in 0..MaxFallos

Inv == Tipos /\ Tablas /\ RegistroEntero

-----------------------------------------------------------------------------
(* The proof.                                                              *)

USE TareasOK

\* What a task or a file is made of.
LEMMA TareaT ==
  /\ Sftp \in Tarea /\ TareaAviso \subseteq Tarea
  /\ Sftp \notin TareaAviso
  /\ \A t \in TareaAviso : t.aviso \in Aviso /\ t.intento \in 0..MaxReintentos
BY DEF Tarea, TareaAviso, Sftp, Aviso

LEMMA CarpetaT ==
  ASSUME Tipos
  PROVE  /\ carpeta \in Seq(Archivo)
         /\ \A k \in DOMAIN carpeta : carpeta[k].skus \in Seq(Sku) /\ carpeta[k].legible \in BOOLEAN
<1>1. carpeta \in Seq(Archivo)
  BY EscenariosOK DEF Tipos, carpeta
<1>2. ASSUME NEW k \in DOMAIN carpeta  PROVE carpeta[k] \in Archivo
  BY <1>1, <1>2
<1>3. QED
  BY <1>1, <1>2 DEF Archivo

\* What the states of a process are made of.
LEMMA CambioJ ==
  ASSUME NEW x \in ProcT, NEW j \in Nat \ {0}
  PROVE  [x EXCEPT !.j = j] \in ProcT
BY DEF ProcT

LEMMA CambioK ==
  ASSUME NEW x \in ProcT, NEW en \in En, NEW k \in Nat \ {0}
  PROVE  [x EXCEPT !.en = en, !.k = k] \in ProcT
BY DEF ProcT

LEMMA CambioArchivo ==
  ASSUME NEW x \in ProcT, NEW k \in Nat \ {0}
  PROVE  [x EXCEPT !.k = k] \in ProcT
BY DEF ProcT

LEMMA CambioImportar ==
  ASSUME NEW x \in ProcT, NEW en \in En, NEW j \in Nat \ {0}, NEW mal \in Nat
  PROVE  [x EXCEPT !.en = en, !.j = j, !.mal = mal] \in ProcT
BY DEF ProcT

LEMMA CambioFallido ==
  ASSUME NEW x \in ProcT, NEW j \in Nat \ {0}, NEW mal \in Nat, NEW rota \in BOOLEAN
  PROVE  [x EXCEPT !.j = j, !.mal = mal, !.rota = rota] \in ProcT
BY DEF ProcT

\* A step of process p that sets its state to x leaves the others true.
LEMMA UnProceso ==
  ASSUME Tipos, NEW p \in Proceso, NEW x \in ProcT, proc' = [proc EXCEPT ![p] = x],
         esc' = esc, tabla \subseteq tabla', EstadoOK(p, x)'
  PROVE  Tipos'
<1>1. proc \in [Proceso -> ProcT] /\ proc' \in [Proceso -> ProcT]
  BY DEF Tipos
<1>2. ASSUME NEW q \in Proceso  PROVE EstadoOK(q, proc[q])'
  <2>1. CASE q = p
    BY <1>1, <2>1
  <2>2. CASE q # p
    <3>1. proc'[q] = proc[q] /\ EstadoOK(q, proc[q])
      BY <1>1, <2>2 DEF Tipos
    <3>2. QED
      BY <3>1 DEF EstadoOK, carpeta
  <2>3. QED
    BY <2>1, <2>2
<1>3. QED
  BY <1>1, <1>2 DEF Tipos

LEMMA DaTypeOK ==
  ASSUME Inv
  PROVE  TypeOK
BY DEF Inv, Tipos, Tablas, TypeOK, EstadoOK, ProcT

LEMMA Inicio == Init => Inv
<1> SUFFICES ASSUME Init  PROVE Inv
  OBVIOUS
<1>1. Libre \in ProcT /\ Libre.en = "libre"
  BY TareaT DEF Libre, ProcT, En
<1>2. Tipos
  BY <1>1 DEF Init, Tipos, EstadoOK, EnAviso, EnCarpeta
<1>3. Tablas
  BY DEF Init, Tablas
<1>4. QED
  BY <1>2, <1>3 DEF Inv, RegistroEntero, Init

\* What a step that registers nothing has to show.
LEMMA SinRegistro ==
  ASSUME Inv, UNCHANGED <<esc, registro>>, tabla \subseteq tabla', Tipos',
         cola' \in [Tarea -> Nat], intentos' \in [Aviso -> Nat], envios' \in [Aviso -> Nat],
         filas' \in [Aviso -> [enviado: Nat, error: Nat]], agotados' \subseteq Aviso, perdidos' \subseteq Aviso,
         tabla' \subseteq Sku, ajenos' \subseteq tabla', fallos' \in 0..MaxFallos
  PROVE  Inv'
<1>1. carpeta' = carpeta
  BY DEF carpeta
<1>2. Tablas'
  BY <1>1 DEF Inv, Tablas
<1>3. RegistroEntero'
  BY DEF Inv, RegistroEntero
<1>4. QED
  BY <1>2, <1>3 DEF Inv

LEMMA FallaT ==
  ASSUME Inv
  PROVE  /\ Falla => fallos' \in 0..MaxFallos
         /\ \A t \in Tarea : Encola(t) => cola' \in [Tarea -> Nat]
<1>1. Falla => fallos' \in 0..MaxFallos
  BY DEF Inv, Tablas, Falla
<1>2. \A t \in Tarea : Encola(t) => cola' \in [Tarea -> Nat]
  BY DEF Inv, Tablas, Encola
<1>3. QED
  BY <1>1, <1>2

LEMMA PrimeraT == \A a \in Alta : \A tipo \in {"item_creado", "stock_bajo"} :
                    Primera(a, tipo) \in TareaAviso /\ Primera(a, tipo) \in Tarea
BY TareaT DEF Primera, TareaAviso, Aviso

-----------------------------------------------------------------------------
(* The requests.                                                           *)

LEMMA PasoCrear ==
  ASSUME Inv, NEW a \in Alta, Crear(a)
  PROVE  Inv'
<1>1. a \in Proceso /\ proc[a] \in ProcT /\ proc \in [Proceso -> ProcT]
  BY DEF Inv, Tipos, Proceso
<1>2. PICK x \in ProcT :
        /\ proc' = [proc EXCEPT ![a] = x]
        /\ x.en \in {"error", "encolar", "enviar"}
        /\ x.en # "error" => x.tarea \in TareaAviso
  <2>1. CASE SkuDe[a] \in tabla
    <3>1. [proc[a] EXCEPT !.en = "error"] \in ProcT
      BY <1>1 DEF ProcT, En
    <3>2. QED
      BY <1>1, <2>1, <3>1 DEF Crear, Ir, ProcT
  <2>2. CASE SkuDe[a] \notin tabla
    <3> DEFINE en == IF esc.celery THEN "encolar" ELSE "enviar"
               t == Primera(a, "item_creado")
    <3>1. [proc[a] EXCEPT !.tarea = t, !.en = en] \in ProcT /\ t \in TareaAviso
      BY <1>1, PrimeraT DEF ProcT, En
    <3>2. proc' = [proc EXCEPT ![a] = [proc[a] EXCEPT !.tarea = t, !.en = en]]
      BY <1>1, <2>2 DEF Crear, ProcT
    <3>3. [proc[a] EXCEPT !.tarea = t, !.en = en].en = en /\ [proc[a] EXCEPT !.tarea = t, !.en = en].tarea = t
      BY <1>1 DEF ProcT
    <3>4. QED
      BY <3>1, <3>2, <3>3
  <2>3. QED
    BY <2>1, <2>2
<1>3. /\ tabla \subseteq tabla' /\ tabla' \subseteq Sku /\ ajenos' \subseteq tabla'
      /\ esc' = esc /\ UNCHANGED <<cola, avisos, registro, fallos>>
  BY DEF Crear, Inv, Tablas
<1>4. EstadoOK(a, x)'
  BY <1>2 DEF EstadoOK, EnAviso, EnCarpeta
<1>5. Tipos'
  BY <1>1, <1>2, <1>3, <1>4, UnProceso DEF Inv
<1>6. QED
  BY <1>3, <1>5, SinRegistro DEF Inv, Tablas, avisos, finales

\* A step that only moves a process on, to states that ask for less.
LEMMA SoloIr ==
  ASSUME Inv, NEW p \in Proceso, NEW en \in En \ EnCarpeta, Ir(p, en), UNCHANGED <<esc, importacion>>,
         en \in EnAviso \cup {"encolar", "encolar_bajo"} => proc[p].tarea \in TareaAviso
  PROVE  Tipos'
<1>1. proc[p] \in ProcT /\ proc \in [Proceso -> ProcT]
  BY DEF Inv, Tipos
<1>2. PICK x \in ProcT : x = [proc[p] EXCEPT !.en = en]
  BY <1>1 DEF ProcT
<1>3. proc' = [proc EXCEPT ![p] = x] /\ x.en = en /\ x.tarea = proc[p].tarea
  BY <1>1, <1>2 DEF Ir, ProcT
<1>4. EstadoOK(p, x)'
  BY <1>3 DEF EstadoOK, EnCarpeta
<1>5. QED
  BY <1>3, <1>4, UnProceso DEF Inv, importacion

LEMMA PasoEncolar ==
  ASSUME Inv, NEW a \in Alta, Encolar(a)
  PROVE  Inv'
<1>1. a \in Proceso /\ EstadoOK(a, proc[a])
  BY DEF Inv, Tipos, Proceso
<1>2. proc[a].tarea \in TareaAviso
  BY <1>1 DEF Encolar, EstadoOK
<1>3. /\ esc' = esc /\ UNCHANGED <<avisos, importacion>>
      /\ cola' \in [Tarea -> Nat] /\ fallos' \in 0..MaxFallos
  BY FallaT, PrimeraT DEF Encolar, Inv, Tablas
<1>4. \E en \in {"encolar_bajo", "hecha", "error"} : Ir(a, en)
  BY DEF Encolar
<1>5. Tipos'
  BY <1>1, <1>2, <1>3, <1>4, SoloIr DEF En, EnCarpeta
<1>6. QED
  BY <1>3, <1>5, SinRegistro DEF Inv, Tablas, avisos, finales, importacion

LEMMA PasoMorirAlta ==
  ASSUME Inv, NEW a \in Alta, MorirAlta(a)
  PROVE  Inv'
<1>1. a \in Proceso /\ Ir(a, "error") /\ esc' = esc /\ UNCHANGED <<cola, avisos, importacion>>
      /\ fallos' \in 0..MaxFallos
  BY FallaT DEF MorirAlta, Proceso
<1>2. Tipos'
  BY <1>1, SoloIr DEF En, EnCarpeta, EnAviso
<1>3. QED
  BY <1>1, <1>2, SinRegistro DEF Inv, Tablas, avisos, finales, importacion

-----------------------------------------------------------------------------
(* The workers and the broker.                                             *)

LEMMA ALibre ==
  ASSUME Inv, NEW w \in Worker, proc' = [proc EXCEPT ![w] = Libre], UNCHANGED <<esc, tabla>>
  PROVE  Tipos'
<1>0. Libre \in ProcT
  BY TareaT DEF Libre, ProcT, En
<1>1. PICK x \in ProcT : x = Libre
  BY <1>0
<1>2. EstadoOK(w, x)'
  BY <1>1 DEF EstadoOK, EnAviso, EnCarpeta, Libre
<1>3. QED
  BY <1>1, <1>2, UnProceso DEF Inv, Proceso

LEMMA PasoConfirmar ==
  ASSUME Inv, NEW w \in Worker, Confirmar(w)
  PROVE  Inv'
<1>1. UNCHANGED <<esc, cola, avisos, importacion, fallos>>
  BY DEF Confirmar
<1>2. Tipos'
  BY <1>1, ALibre DEF Confirmar, importacion
<1>3. QED
  BY <1>1, <1>2, SinRegistro DEF Inv, Tablas, avisos, finales, importacion

\* Who works on a notification holds one.
LEMMA AvisoT ==
  ASSUME Inv, NEW p \in Proceso, proc[p].en \in EnAviso
  PROVE  AvisoDe(p) \in Aviso /\ proc[p].tarea \in TareaAviso
BY TareaT DEF Inv, Tipos, EstadoOK, AvisoDe

LEMMA PasoMorir ==
  ASSUME Inv, NEW w \in Worker, Morir(w) \/ MorirProceso(w)
  PROVE  Inv'
<1>1. /\ UNCHANGED <<esc, intentos, envios, filas, agotados, tabla, registro, ajenos>>
      /\ fallos' \in 0..MaxFallos /\ proc' = [proc EXCEPT ![w] = Libre]
  BY FallaT DEF Morir, MorirProceso, Cae
<1>2. proc[w].tarea \in Tarea /\ w \in Proceso
  BY DEF Inv, Tipos, Proceso, ProcT
<1>3. cola' \in [Tarea -> Nat]
  BY <1>2, FallaT DEF Morir, MorirProceso, Reentrega, Inv, Tablas
<1>4. perdidos' \subseteq Aviso
  BY <1>2, AvisoT DEF Morir, MorirProceso, Inv, Tablas
<1>5. Tipos'
  BY <1>1, ALibre
<1>6. QED
  BY <1>1, <1>3, <1>4, <1>5, SinRegistro DEF Inv, Tablas

LEMMA PasoDescartar ==
  ASSUME Inv, NEW t \in TareaAviso, Descartar(t)
  PROVE  Inv'
<1>1. /\ UNCHANGED <<esc, proc, intentos, envios, filas, agotados, importacion, fallos>>
      /\ perdidos' \subseteq Aviso /\ cola' \in [Tarea -> Nat]
  BY TareaT DEF Descartar, Inv, Tablas
<1>2. Tipos'
  BY <1>1 DEF Inv, Tipos, EstadoOK, carpeta, importacion
<1>3. QED
  BY <1>1, <1>2, SinRegistro DEF Inv, Tablas, importacion

LEMMA PasoProgramar ==
  ASSUME Inv, Programar
  PROVE  Inv'
<1>1. UNCHANGED <<esc, proc, avisos, importacion, fallos>> /\ cola' \in [Tarea -> Nat]
  BY FallaT, TareaT DEF Programar
<1>2. Tipos'
  BY <1>1 DEF Inv, Tipos, EstadoOK, carpeta, importacion
<1>3. QED
  BY <1>1, <1>2, SinRegistro DEF Inv, Tablas, avisos, finales, importacion

LEMMA PasoTomar ==
  ASSUME Inv, NEW w \in Worker, NEW t \in Tarea, Tomar(w, t)
  PROVE  Inv'
<1>1. /\ UNCHANGED <<esc, avisos, importacion, fallos>>
      /\ cola' \in [Tarea -> Nat]
  BY DEF Tomar, Inv, Tablas
<1>2. PICK x \in ProcT :
        /\ proc' = [proc EXCEPT ![w] = x] /\ x.tarea = t
        /\ x.en = IF t = Sftp THEN "mirar" ELSE "enviar"
  <2> DEFINE e == IF t = Sftp THEN "mirar" ELSE "enviar"
             y == [Libre EXCEPT !.tarea = t, !.en = e]
  <2>1. e \in En
    BY DEF En
  <2>2. proc' = [proc EXCEPT ![w] = y]
    BY DEF Tomar
  <2>3. Libre \in ProcT
    BY TareaT DEF Libre, ProcT, En
  <2> HIDE DEF e
  <2>4. y \in ProcT /\ y.tarea = t /\ y.en = e
    BY <2>1, <2>3 DEF ProcT
  <2>5. QED
    BY <2>2, <2>4 DEF e
<1>3. EstadoOK(w, x)'
  BY <1>2, TareaT DEF EstadoOK, EnAviso, EnCarpeta, Tarea
<1>4. Tipos'
  BY <1>1, <1>2, <1>3, UnProceso DEF Inv, Proceso, importacion
<1>5. QED
  BY <1>1, <1>4, SinRegistro DEF Inv, Tablas, avisos, finales, importacion

-----------------------------------------------------------------------------
(* The notifications.                                                      *)

LEMMA PasoSend ==
  ASSUME Inv, NEW p \in Proceso, send(p)
  PROVE  Inv'
<1>1. AvisoDe(p) \in Aviso /\ proc[p].tarea \in TareaAviso
  BY AvisoT DEF send, EnAviso
<1>2. /\ UNCHANGED <<esc, cola, filas, finales, importacion, fallos>>
      /\ intentos' \in [Aviso -> Nat] /\ envios' \in [Aviso -> Nat]
  <2>1. intentos \in [Aviso -> Nat] /\ envios \in [Aviso -> Nat]
    BY DEF Inv, Tablas
  <2>2. UNCHANGED <<esc, cola, filas, finales, importacion, fallos>>
    BY DEF send
  <2>3. intentos' \in [Aviso -> Nat] /\ envios' \in [Aviso -> Nat]
    BY <1>1, <2>1 DEF send
  <2>4. QED
    BY <2>2, <2>3
<1>3. \E en \in {"anotar", "anotar_error"} : Ir(p, en)
  BY DEF send
<1>4. Tipos'
  BY <1>1, <1>2, <1>3, SoloIr DEF En, EnCarpeta
<1>5. QED
  BY <1>2, <1>4, SinRegistro DEF Inv, Tablas, importacion, finales

LEMMA FilaConT ==
  ASSUME Inv, NEW n \in Aviso, NEW estado \in {"enviado", "error"},
         FilaCon(n, estado) \/ UNCHANGED filas
  PROVE  filas' \in [Aviso -> [enviado: Nat, error: Nat]]
<1>1. filas \in [Aviso -> [enviado: Nat, error: Nat]]
  BY DEF Inv, Tablas
<1>2. CASE UNCHANGED filas
  BY <1>1, <1>2
<1>3. CASE FilaCon(n, estado)
  <2>1. [filas[n] EXCEPT ![estado] = @ + 1] \in [enviado: Nat, error: Nat]
    BY <1>1
  <2>2. filas' = [filas EXCEPT ![n] = [filas[n] EXCEPT ![estado] = @ + 1]]
    BY <1>3 DEF FilaCon
  <2>3. QED
    BY <1>1, <2>1, <2>2
<1>4. QED
  BY <1>2, <1>3

LEMMA PasoSave ==
  ASSUME Inv, NEW p \in Proceso, save_enviado(p) \/ save_error(p)
  PROVE  Inv'
<1>1. AvisoDe(p) \in Aviso /\ proc[p].tarea \in TareaAviso
  BY AvisoT DEF save_enviado, save_error, EnAviso
<1>2. /\ esc' = esc /\ UNCHANGED <<cola, intentos, envios, finales, importacion>>
      /\ fallos' \in 0..MaxFallos
  BY FallaT DEF save_enviado, save_error, Inv, Tablas
<1>3. filas' \in [Aviso -> [enviado: Nat, error: Nat]]
  BY <1>1, FilaConT DEF save_enviado, save_error
<1>4. \E en \in {"confirmar", "hecha", "anotar_error", "reintentar", "error"} : Ir(p, en)
  BY DEF save_enviado, save_error
<1>5. Tipos'
  BY <1>1, <1>2, <1>4, SoloIr DEF En, EnCarpeta
<1>6. QED
  BY <1>2, <1>3, <1>5, SinRegistro DEF Inv, Tablas, importacion, finales

LEMMA PasoReintentar ==
  ASSUME Inv, NEW w \in Worker, Reintentar(w)
  PROVE  Inv'
<1> DEFINE t == proc[w].tarea
<1>1. t \in TareaAviso /\ t.aviso \in Aviso /\ w \in Proceso
  BY AvisoT, TareaT DEF Reintentar, EnAviso, Proceso
<1>2. t.intento < MaxReintentos => Siguiente(t) \in Tarea
  BY <1>1, TareaT DEF Siguiente, TareaAviso
<1>3. /\ esc' = esc /\ UNCHANGED <<intentos, envios, filas, importacion>>
      /\ cola' \in [Tarea -> Nat] /\ fallos' \in 0..MaxFallos /\ agotados' \subseteq Aviso
      /\ Ir(w, "confirmar") /\ perdidos' = perdidos
  BY <1>1, <1>2, FallaT DEF Reintentar, Inv, Tablas
<1>4. Tipos'
  BY <1>1, <1>3, SoloIr DEF En, EnCarpeta, EnAviso
<1>5. QED
  BY <1>3, <1>4, SinRegistro DEF Inv, Tablas, importacion, finales

-----------------------------------------------------------------------------
(* The import.                                                             *)

LEMMA PasoMirar ==
  ASSUME Inv, NEW w \in Worker, Mirar(w)
  PROVE  Inv'
<1>1. /\ w \in Proceso /\ proc[w] \in ProcT /\ proc \in [Proceso -> ProcT]
      /\ proc[w].tarea = Sftp /\ proc[w].en = "mirar"
  BY DEF Inv, Tipos, EstadoOK, EnCarpeta, Proceso, Mirar
<1>2. UNCHANGED <<esc, cola, avisos, importacion, fallos>>
  BY DEF Mirar
<1>3. carpeta' = carpeta
  BY <1>2 DEF carpeta
<1>4. CASE proc[w].k > Len(carpeta) \/ proc[w].rota
  <2>1. Ir(w, "confirmar")
    BY <1>1, <1>4 DEF Mirar, Ir, ProcT
  <2>2. Tipos'
    BY <1>1, <1>2, <2>1, SoloIr DEF En, EnCarpeta, EnAviso
  <2>3. QED
    BY <1>2, <2>2, SinRegistro DEF Inv, Tablas, avisos, finales, importacion
<1>5. CASE ~(proc[w].k > Len(carpeta) \/ proc[w].rota)
  <2>1. proc[w].k \in DOMAIN carpeta
    BY <1>1, <1>5, CarpetaT DEF Inv, ProcT
  <2>2. PICK x \in ProcT :
          /\ proc' = [proc EXCEPT ![w] = x] /\ x.tarea = Sftp
          /\ \/ x.en = "mirar"
             \/ /\ x.en = "importar" /\ x.k = proc[w].k /\ x.j = 1 /\ x.mal = 0
                /\ ~Saltar(FilaK(w))
    <3>1. CASE Saltar(FilaK(w))
      <4>0. proc[w].k + 1 \in Nat \ {0}
        BY <1>1 DEF ProcT
      <4>1. [proc[w] EXCEPT !.k = proc[w].k + 1] \in ProcT
        BY <1>1, <4>0, CambioArchivo, Zenon
      <4>2. QED
        BY <1>1, <1>5, <3>1, <4>1 DEF Mirar, ProcT
    <3>2. CASE ~Saltar(FilaK(w))
      <4> DEFINE y == [proc[w] EXCEPT !.en = "importar", !.j = 1, !.mal = 0]
      <4>0. "importar" \in En /\ 1 \in Nat \ {0} /\ 0 \in Nat
        BY DEF En
      <4>1. y \in ProcT
        BY <1>1, <4>0, CambioImportar, Zenon
      <4>5. y.en = "importar" /\ y.j = 1 /\ y.mal = 0 /\ y.k = proc[w].k /\ y.tarea = Sftp
        BY <1>1 DEF ProcT
      <4>2. proc' = [proc EXCEPT ![w] = y]
        BY <1>5, <3>2 DEF Mirar
      <4>3. QED
        BY <3>2, <4>1, <4>2, <4>5
    <3>3. QED
      BY <3>1, <3>2
  <2>3. EstadoOK(w, x)'
    BY <1>3, <2>1, <2>2, CarpetaT DEF Inv, EstadoOK, EnAviso, EnCarpeta, Saltar, FilaK
  <2>4. Tipos'
    BY <1>1, <1>2, <2>2, <2>3, UnProceso DEF Inv, importacion
  <2>5. QED
    BY <1>2, <2>4, SinRegistro DEF Inv, Tablas, avisos, finales, importacion
<1>6. QED
  BY <1>4, <1>5

\* Who imports is at a row, or at the end, of a file of the folder.
LEMMA ImportaT ==
  ASSUME Inv, NEW w \in Worker, proc[w].en = "importar"
  PROVE  /\ w \in Proceso /\ proc[w] \in ProcT /\ proc \in [Proceso -> ProcT]
         /\ proc[w].tarea = Sftp
         /\ proc[w].k \in DOMAIN carpeta /\ carpeta[proc[w].k].legible
         /\ FilaK(w).skus \in Seq(Sku)
         /\ proc[w].mal # 0 => proc[w].rota
         /\ ~proc[w].rota => \A i \in DOMAIN FilaK(w).skus : i < proc[w].j => FilaK(w).skus[i] \in tabla
BY CarpetaT DEF Inv, Tipos, EstadoOK, EnCarpeta, Proceso, FilaK

LEMMA PasoImportar ==
  ASSUME Inv, NEW w \in Worker, Importar(w)
  PROVE  Inv'
<1> DEFINE p == proc[w]
           s == FilaK(w).skus[p.j]
<1>1. /\ w \in Proceso /\ p \in ProcT /\ proc \in [Proceso -> ProcT] /\ p.tarea = Sftp
      /\ p.k \in DOMAIN carpeta /\ carpeta[p.k].legible /\ FilaK(w).skus \in Seq(Sku)
      /\ p.mal # 0 => p.rota
      /\ ~p.rota => \A i \in DOMAIN FilaK(w).skus : i < p.j => FilaK(w).skus[i] \in tabla
      /\ p.en = "importar"
  BY ImportaT DEF Importar
<1>2. s \in Sku
  BY <1>1 DEF Importar, ProcT
<1>3. /\ esc' = esc /\ UNCHANGED <<cola, avisos, registro, ajenos>>
      /\ tabla' \in {tabla, tabla \cup {s}} /\ fallos' \in 0..MaxFallos
  BY FallaT DEF Importar, Inv, Tablas
<1>4. carpeta' = carpeta
  BY <1>3 DEF carpeta
<1>5. PICK x \in ProcT :
        /\ proc' = [proc EXCEPT ![w] = x]
        /\ x.en = "importar" /\ x.tarea = Sftp /\ x.k = p.k /\ x.j = p.j + 1
        /\ \/ x.rota
           \/ ~p.rota /\ x.mal = p.mal /\ tabla' = tabla \cup {s}
  <2>1. CASE ~p.rota /\ tabla' = tabla \cup {s} /\ proc' = [proc EXCEPT ![w].j = @ + 1]
    <3> DEFINE y == [p EXCEPT !.j = p.j + 1]
    <3>1. p.j + 1 \in Nat \ {0}
      BY <1>1 DEF ProcT
    <3>2. y \in ProcT
      BY <1>1, <3>1, CambioJ
    <3>3. y.en = p.en /\ y.tarea = p.tarea /\ y.k = p.k /\ y.j = p.j + 1 /\ y.mal = p.mal
      BY <1>1 DEF ProcT
    <3>4. proc' = [proc EXCEPT ![w] = y]
      BY <2>1
    <3>5. QED
      BY <1>1, <2>1, <3>2, <3>3, <3>4
  <2>2. CASE proc' = [proc EXCEPT ![w] = ItemFallido(p)]
    <3> DEFINE y == [p EXCEPT !.j = p.j + 1, !.mal = p.mal + 1, !.rota = TRUE]
    <3>1. p.j + 1 \in Nat \ {0} /\ p.mal + 1 \in Nat
      BY <1>1 DEF ProcT
    <3>2. y \in ProcT
      BY <1>1, <3>1, CambioFallido
    <3>3. y.en = p.en /\ y.tarea = p.tarea /\ y.k = p.k /\ y.j = p.j + 1 /\ y.rota
      BY <1>1 DEF ProcT
    <3>4. proc' = [proc EXCEPT ![w] = y]
      BY <2>2 DEF ItemFallido
    <3>5. QED
      BY <1>1, <3>2, <3>3, <3>4
  <2>3. QED
    BY <2>1, <2>2 DEF Importar
<1>6. EstadoOK(w, x)'
  <2>1. ASSUME ~x.rota, NEW i \in DOMAIN FilaK(w).skus, i < x.j
        PROVE  FilaK(w).skus[i] \in tabla'
    <3>1. i < p.j \/ i = p.j
      BY <1>1, <1>5, <2>1 DEF ProcT
    <3>2. QED
      BY <1>1, <1>5, <2>1, <3>1
  <2>2. x.mal # 0 => x.rota
    BY <1>1, <1>5
  <2>3. QED
    BY <1>1, <1>4, <1>5, <2>1, <2>2 DEF EstadoOK, EnAviso, EnCarpeta, FilaK
<1>7. Tipos'
  BY <1>1, <1>3, <1>5, <1>6, UnProceso DEF Inv
<1>8. QED
  BY <1>2, <1>3, <1>7, SinRegistro DEF Inv, Tablas, avisos, finales

LEMMA PasoRegistrar ==
  ASSUME Inv, NEW w \in Worker, Registrar(w)
  PROVE  Inv'
<1> DEFINE p == proc[w]
           skus == FilaK(w).skus
<1>1. /\ w \in Proceso /\ p \in ProcT /\ proc \in [Proceso -> ProcT] /\ p.tarea = Sftp
      /\ p.k \in DOMAIN carpeta /\ carpeta[p.k].legible /\ skus \in Seq(Sku)
      /\ p.mal # 0 => p.rota
      /\ ~p.rota => \A i \in DOMAIN skus : i < p.j => skus[i] \in tabla
      /\ p.j > Len(skus)
  BY ImportaT DEF Registrar
<1>2. /\ esc' = esc /\ UNCHANGED <<cola, avisos, tabla, ajenos>> /\ fallos' \in 0..MaxFallos
  BY FallaT DEF Registrar, Inv, Tablas
<1>3. carpeta' = carpeta
  BY <1>2 DEF carpeta
<1>4. PICK x \in ProcT : proc' = [proc EXCEPT ![w] = x] /\ x.en = "mirar" /\ x.tarea = Sftp
  <2> DEFINE y == [p EXCEPT !.en = "mirar", !.k = p.k + 1]
             z == [y EXCEPT !.rota = TRUE]
  <2>0. "mirar" \in En /\ p.k + 1 \in Nat \ {0}
    BY <1>1 DEF En, ProcT
  <2>1. y \in ProcT /\ y.en = "mirar" /\ y.tarea = Sftp
    <3>1. y \in ProcT
      BY <1>1, <2>0, CambioK
    <3>2. y.en = "mirar" /\ y.tarea = Sftp
      BY <1>1 DEF ProcT
    <3>3. QED
      BY <3>1, <3>2
  <2>2. proc' = [proc EXCEPT ![w] = y] \/ proc' = [proc EXCEPT ![w] = z]
    BY DEF Registrar
  <2> HIDE DEF y
  <2>3. z \in ProcT /\ z.en = "mirar" /\ z.tarea = Sftp
    BY <2>1 DEF ProcT
  <2>4. QED
    BY <2>1, <2>2, <2>3
<1>5. EstadoOK(w, x)'
  BY <1>4 DEF EstadoOK, EnAviso, EnCarpeta
<1>6. Tipos'
  BY <1>1, <1>2, <1>4, <1>5, UnProceso DEF Inv
<1>7. CASE registro' = registro
  BY <1>2, <1>6, <1>7, SinRegistro DEF Inv, Tablas, avisos, finales
<1>8. CASE Registrable(p, skus) /\ registro' = registro \cup {[skus |-> skus, mal |-> p.mal]}
  <2>1. \A i \in DOMAIN skus : skus[i] \in tabla
    <3>1. \A i \in DOMAIN skus : i < p.j
      BY <1>1 DEF ProcT
    <3>2. QED
      BY <1>1, <1>8, <3>1 DEF Registrable
  <2>2. RegistroEntero'
    BY <1>2, <1>8, <2>1 DEF Inv, RegistroEntero
  <2>3. Tablas'
    <3> DEFINE R == [skus: {carpeta[k].skus : k \in {m \in DOMAIN carpeta : carpeta[m].legible}},
                     mal: Nat]
    <3>1. [skus |-> skus, mal |-> p.mal] \in R
      BY <1>1 DEF FilaK, ProcT
    <3>2. registro \subseteq R
      BY DEF Inv, Tablas
    <3>3. registro' \subseteq R
      BY <1>8, <3>1, <3>2
    <3> HIDE DEF R
    <3>4. R' = R
      BY <1>3 DEF R
    <3>5. (registro \subseteq R)'
      BY <3>3, <3>4
    <3>6. QED
      BY <1>2, <3>5 DEF Inv, Tablas, avisos, finales, R
  <2>4. QED
    BY <1>6, <2>2, <2>3 DEF Inv
<1>9. QED
  BY <1>7, <1>8 DEF Registrar

-----------------------------------------------------------------------------
(* The theorems.                                                           *)

LEMMA Invariante == Spec => []Inv
<1>1. Inv /\ [Next]_vars => Inv'
  <2> SUFFICES ASSUME Inv, [Next]_vars  PROVE Inv'
    OBVIOUS
  <2>1. ASSUME NEW a \in Alta, Crear(a) \/ PasoAlta(a) \/ MorirAlta(a)  PROVE Inv'
    BY <2>1, PasoCrear, PasoEncolar, PasoSend, PasoSave, PasoMorirAlta
       DEF PasoAlta, Avisar, Proceso
  <2>2. ASSUME NEW w \in Worker, (\E t \in Tarea : Tomar(w, t)) \/ PasoWorker(w) \/ Morir(w)
                            \/ MorirProceso(w)
        PROVE  Inv'
    BY <2>2, PasoTomar, PasoMorir, PasoSend, PasoSave, PasoReintentar, PasoConfirmar,
       PasoMirar, PasoImportar, PasoRegistrar DEF PasoWorker, Avisar, Proceso
  <2>3. CASE UNCHANGED vars
    <3>1. Tipos'
      BY <2>3 DEF Inv, Tipos, EstadoOK, carpeta, vars, importacion
    <3>2. QED
      BY <2>3, <3>1, SinRegistro DEF Inv, Tablas, vars, avisos, finales, importacion
  <2>4. QED
    BY <2>1, <2>2, <2>3, PasoProgramar, PasoDescartar DEF Next
<1>2. QED
  BY <1>1, Inicio, PTL DEF Spec

\* Types, and that only files that could be parsed are registered.
THEOREM TareasTipos == Spec => []TypeOK
<1>1. Inv => TypeOK
  BY DaTypeOK
<1>2. QED
  BY <1>1, Invariante, PTL

\* A record without failed items means what it says: whatever fails or dies, and
\* however many imports overlap, every row of the file is in the table.
THEOREM RegistrosEnteros == Spec => []RegistroEntero
<1>1. Inv => RegistroEntero
  BY DEF Inv
<1>2. QED
  BY <1>1, Invariante, PTL

-----------------------------------------------------------------------------
(* The accounts of a notification: what has happened and what may still    *)
(* happen to it.  An attempt that is under way, one that waits at the      *)
(* broker and one that has not begun weigh what they can still give, and   *)
(* no step adds to the sum more than its failure pays for.                 *)

Es(b) == IF b THEN 1 ELSE 0

\* A process in state x has notification n in hand, and is at one of en.
Lleva(x, n, en) == x.en \in en /\ x.tarea.aviso = n

\* Process p, in state x, has not yet asked for notification n.
PorEmpezar(p, x, n) ==
  /\ p = n[1] /\ p \in Alta
  /\ x.en \in {"libre", "encolar"} \/ (x.en = "encolar_bajo" /\ n[2] = "stock_bajo")

\* The calls to SendGrid, and the messages, that it can still come to.
IntentosDe(p, x, n) ==
  IF PorEmpezar(p, x, n) THEN MaxReintentos + 1
  ELSE IF Lleva(x, n, {"enviar"}) THEN MaxReintentos + 1 - x.tarea.intento
  ELSE IF Lleva(x, n, {"anotar", "anotar_error", "reintentar"}) THEN MaxReintentos - x.tarea.intento
  ELSE 0
EnviosDe(p, x, n) ==
  Es(PorEmpezar(p, x, n) \/ Lleva(x, n, {"enviar", "anotar_error", "reintentar"}))

\* The same of a message t, if it is of notification n.
Resta(t, n) == IF t.aviso = n THEN MaxReintentos + 1 - t.intento ELSE 0

IntentosProc(n) == SumaDe([p \in Proceso |-> IntentosDe(p, proc[p], n)])
EnviosProc(n) == SumaDe([p \in Proceso |-> EnviosDe(p, proc[p], n)])
IntentosCola(n) == SumaDe([t \in TareaAviso |-> cola[t] * Resta(t, n)])
EnviosCola(n) == SumaDe([t \in TareaAviso |-> cola[t] * Es(t.aviso = n)])
SinFila(n) == Cardinality(Anotando(n, {"anotar"}))
Abiertas(n) == Cardinality(Anotando(n, {"anotar", "anotar_error"}))
Tope(k) == (MaxReintentos + 1) * (1 + k)

ContadoDe(n) ==
  /\ filas[n].enviado + SinFila(n) <= envios[n]
  /\ envios[n] <= filas[n].enviado + SinFila(n) + fallos
  /\ filas[n].enviado + filas[n].error + Abiertas(n) <= intentos[n]
  /\ intentos[n] <= filas[n].enviado + filas[n].error + Abiertas(n) + fallos
  /\ intentos[n] + IntentosProc(n) + IntentosCola(n) <= Tope(fallos)
  /\ envios[n] + EnviosProc(n) + EnviosCola(n) <= 1 + fallos

Contado == \A n \in Aviso : ContadoDe(n)

LEMMA Finitos == IsFiniteSet(Proceso) /\ IsFiniteSet(TareaAviso)
<1>1. IsFiniteSet(Proceso)
  BY FS_Union DEF Proceso
<1>2. IsFiniteSet({"item_creado", "stock_bajo"})
  <2>1. IsFiniteSet({} \cup {"item_creado"})
    BY FS_EmptySet, FS_AddElement
  <2>2. IsFiniteSet(({} \cup {"item_creado"}) \cup {"stock_bajo"})
    BY <2>1, FS_AddElement
  <2>3. ({} \cup {"item_creado"}) \cup {"stock_bajo"} = {"item_creado", "stock_bajo"}
    OBVIOUS
  <2>4. QED
    BY <2>2, <2>3
<1>3. IsFiniteSet(Aviso \X (0..MaxReintentos))
  <2>1. IsFiniteSet(Aviso)
    BY <1>2, FS_Product DEF Aviso
  <2>2. IsFiniteSet(0..MaxReintentos)
    BY FS_Interval
  <2>3. QED
    BY <2>1, <2>2, FS_Product
<1> DEFINE f == [q \in Aviso \X (0..MaxReintentos) |-> [aviso |-> q[1], intento |-> q[2]]]
<1>4. f \in Surjection(Aviso \X (0..MaxReintentos), TareaAviso)
  <2>1. f \in [Aviso \X (0..MaxReintentos) -> TareaAviso]
    BY DEF TareaAviso
  <2>2. ASSUME NEW t \in TareaAviso
        PROVE  \E q \in Aviso \X (0..MaxReintentos) : f[q] = t
    <3>1. <<t.aviso, t.intento>> \in Aviso \X (0..MaxReintentos)
      BY DEF TareaAviso
    <3>2. f[<<t.aviso, t.intento>>] = t
      BY <3>1 DEF TareaAviso
    <3>3. QED
      BY <3>1, <3>2
  <2>3. QED
    BY <2>1, <2>2 DEF Surjection
<1>5. QED
  BY <1>1, <1>3, <1>4, FS_Surjection

LEMMA TopeT ==
  ASSUME NEW k \in Nat
  PROVE  /\ Tope(k) \in Nat /\ Tope(0) = MaxReintentos + 1
         /\ Tope(k + 1) = Tope(k) + MaxReintentos + 1
BY DEF Tope

\* What can still come is a natural number.
LEMMA PesoT ==
  ASSUME NEW p, NEW x, NEW n \in Aviso, x.en \in EnAviso => x.tarea \in TareaAviso
  PROVE  IntentosDe(p, x, n) \in Nat /\ EnviosDe(p, x, n) \in Nat
<1>1. x.en \in EnAviso => x.tarea.intento \in 0..MaxReintentos
  BY TareaT
<1>2. QED
  BY <1>1 DEF IntentosDe, EnviosDe, Es, Lleva, EnAviso

LEMMA PesosT ==
  ASSUME Inv, NEW n \in Aviso
  PROVE  /\ \A p \in Proceso : IntentosDe(p, proc[p], n) \in Nat /\ EnviosDe(p, proc[p], n) \in Nat
         /\ \A t \in TareaAviso : /\ cola[t] \in Nat
                                  /\ Resta(t, n) \in Nat /\ Es(t.aviso = n) \in Nat
                                  /\ cola[t] * Resta(t, n) \in Nat
                                  /\ cola[t] * Es(t.aviso = n) \in Nat
<1>1. ASSUME NEW p \in Proceso
      PROVE  IntentosDe(p, proc[p], n) \in Nat /\ EnviosDe(p, proc[p], n) \in Nat
  <2>1. proc[p].en \in EnAviso => proc[p].tarea \in TareaAviso
    BY DEF Inv, Tipos, EstadoOK
  <2>2. QED
    BY <2>1, PesoT
<1>2. ASSUME NEW t \in TareaAviso
      PROVE  cola[t] \in Nat /\ Resta(t, n) \in Nat /\ Es(t.aviso = n) \in Nat
  BY TareaT DEF Inv, Tablas, Resta, Es
<1>3. \A i, j \in Nat : i * j \in Nat
  OBVIOUS
<1>4. QED
  BY <1>1, <1>2, <1>3

LEMMA SumasT ==
  ASSUME Inv, NEW n \in Aviso
  PROVE  /\ IntentosProc(n) \in Nat /\ EnviosProc(n) \in Nat
         /\ IntentosCola(n) \in Nat /\ EnviosCola(n) \in Nat
<1>1. /\ [p \in Proceso |-> IntentosDe(p, proc[p], n)] \in [Proceso -> Nat]
      /\ [p \in Proceso |-> EnviosDe(p, proc[p], n)] \in [Proceso -> Nat]
      /\ [t \in TareaAviso |-> cola[t] * Resta(t, n)] \in [TareaAviso -> Nat]
      /\ [t \in TareaAviso |-> cola[t] * Es(t.aviso = n)] \in [TareaAviso -> Nat]
  BY PesosT
<1>2. QED
  BY <1>1, Finitos, SumaNat DEF IntentosProc, EnviosProc, IntentosCola, EnviosCola

LEMMA AnotandoT ==
  ASSUME NEW n \in Aviso, NEW en
  PROVE  IsFiniteSet(Anotando(n, en)) /\ Cardinality(Anotando(n, en)) \in Nat
<1>1. Anotando(n, en) \in SUBSET Proceso
  BY DEF Anotando
<1>2. IsFiniteSet(Anotando(n, en))
  BY <1>1, Finitos, FS_Subset
<1>3. QED
  BY <1>2, FS_CardinalityType

\* The two invariants follow.
LEMMA DaContados ==
  ASSUME Inv, Contado
  PROVE  AvisosContados /\ IntentosAcotados
<1>1. ASSUME NEW n \in Aviso
      PROVE  /\ filas[n].enviado <= envios[n]
             /\ filas[n].enviado + filas[n].error <= intentos[n]
             /\ intentos[n] <= filas[n].enviado + filas[n].error + Abiertas(n) + fallos
             /\ envios[n] <= filas[n].enviado + SinFila(n) + fallos
             /\ envios[n] <= 1 + fallos
             /\ intentos[n] <= (MaxReintentos + 1) * (1 + fallos)
  <2>1. /\ filas[n].enviado \in Nat /\ filas[n].error \in Nat /\ envios[n] \in Nat
        /\ intentos[n] \in Nat /\ fallos \in Nat
    BY DEF Inv, Tablas
  <2>2. SinFila(n) \in Nat /\ Abiertas(n) \in Nat
    BY AnotandoT DEF SinFila, Abiertas
  <2>3. /\ IntentosProc(n) \in Nat /\ EnviosProc(n) \in Nat
        /\ IntentosCola(n) \in Nat /\ EnviosCola(n) \in Nat
    BY SumasT
  <2>4. Tope(fallos) \in Nat
    BY <2>1, TopeT
  <2>5. ContadoDe(n)
    BY DEF Contado
  <2>6. intentos[n] <= Tope(fallos)
    BY <2>1, <2>3, <2>4, <2>5 DEF ContadoDe
  <2>7. intentos[n] <= (MaxReintentos + 1) * (1 + fallos)
    BY <2>6 DEF Tope
  <2>8. envios[n] <= 1 + fallos
    BY <2>1, <2>3, <2>5 DEF ContadoDe
  <2>9. filas[n].enviado <= envios[n] /\ filas[n].enviado + filas[n].error <= intentos[n]
    <3>1. filas[n].enviado <= envios[n]
      BY <2>1, <2>2, <2>5 DEF ContadoDe
    <3>2. filas[n].enviado + filas[n].error <= intentos[n]
      BY <2>1, <2>2, <2>5 DEF ContadoDe
    <3>3. QED
      BY <3>1, <3>2
  <2>10. QED
    BY <2>5, <2>7, <2>8, <2>9 DEF ContadoDe
<1>2. QED
  BY <1>1 DEF AvisosContados, IntentosAcotados, Abiertas, SinFila
-----------------------------------------------------------------------------
(* What a step changes of the sums.                                        *)

\* Only process p may have changed.
Solo(p) == \A q \in Proceso \ {p} : proc'[q] = proc[q]

\* What process p weighs more for notification n, and how many more it is
\* among those without a row.
MasIntentos(p, n) == IntentosDe(p, proc'[p], n) - IntentosDe(p, proc[p], n)
MasEnvios(p, n) == EnviosDe(p, proc'[p], n) - EnviosDe(p, proc[p], n)
MasAnotando(p, n, en) == Es(Lleva(proc'[p], n, en)) - Es(Lleva(proc[p], n, en))

LEMMA CambiaSuma ==
  ASSUME Inv, Inv', NEW p \in Proceso, Solo(p), NEW n \in Aviso
  PROVE  /\ MasIntentos(p, n) \in Int /\ MasEnvios(p, n) \in Int
         /\ IntentosProc(n)' = IntentosProc(n) + MasIntentos(p, n)
         /\ EnviosProc(n)' = EnviosProc(n) + MasEnvios(p, n)
<1> DEFINE wi == [q \in Proceso |-> IntentosDe(q, proc[q], n)]
           vi == [q \in Proceso |-> IntentosDe(q, proc'[q], n)]
           we == [q \in Proceso |-> EnviosDe(q, proc[q], n)]
           ve == [q \in Proceso |-> EnviosDe(q, proc'[q], n)]
<1>1. wi \in [Proceso -> Int] /\ we \in [Proceso -> Int]
  BY PesosT
<1>2. vi \in [Proceso -> Int] /\ ve \in [Proceso -> Int]
  <2>1. \A q \in Proceso : proc'[q].en \in EnAviso => proc'[q].tarea \in TareaAviso
    BY DEF Inv, Tipos, EstadoOK
  <2>2. \A q \in Proceso : IntentosDe(q, proc'[q], n) \in Nat /\ EnviosDe(q, proc'[q], n) \in Nat
    BY <2>1, PesoT
  <2>3. QED
    BY <2>2
<1>3. /\ IntentosProc(n) = SumaDe(wi) /\ IntentosProc(n)' = SumaDe(vi)
      /\ EnviosProc(n) = SumaDe(we) /\ EnviosProc(n)' = SumaDe(ve)
  BY DEF IntentosProc, EnviosProc, IntentosDe, EnviosDe, PorEmpezar, Lleva, Es
<1>4. \A q \in Proceso \ {p} : wi[q] = vi[q] /\ we[q] = ve[q]
  BY DEF Solo
<1>5. MasIntentos(p, n) = vi[p] - wi[p] /\ MasEnvios(p, n) = ve[p] - we[p]
  BY DEF MasIntentos, MasEnvios
<1>6. IsFiniteSet(Proceso)
  BY Finitos
<1> HIDE TareasOK DEF wi, vi, we, ve
<1>7. SumaDe(vi) = SumaDe(wi) + (vi[p] - wi[p])
  BY <1>1, <1>2, <1>4, <1>6, SumaMas
<1>8. SumaDe(ve) = SumaDe(we) + (ve[p] - we[p])
  BY <1>1, <1>2, <1>4, <1>6, SumaMas
<1>9. vi[p] \in Int /\ wi[p] \in Int /\ ve[p] \in Int /\ we[p] \in Int
  BY <1>1, <1>2
<1>10. QED
  BY <1>3, <1>5, <1>7, <1>8, <1>9

LEMMA CambiaAnotando ==
  ASSUME Inv, Inv', NEW p \in Proceso, Solo(p), NEW n \in Aviso, NEW en
  PROVE  /\ MasAnotando(p, n, en) \in Int
         /\ Cardinality(Anotando(n, en)') = Cardinality(Anotando(n, en)) + MasAnotando(p, n, en)
<1> DEFINE A == Anotando(n, en)
           B == {q \in Proceso : proc'[q].en \in en /\ proc'[q].tarea.aviso = n}
           C == A \ {p}
<1>1. Anotando(n, en)' = B
  BY DEF Anotando, AvisoDe
<1>2. IsFiniteSet(A)
  BY AnotandoT
<1>3. C = B \ {p}
  BY DEF Solo, Anotando, AvisoDe
<1>4. (p \in A <=> Lleva(proc[p], n, en)) /\ (p \in B <=> Lleva(proc'[p], n, en))
  BY DEF Anotando, AvisoDe, Lleva
<1>5. IsFiniteSet(C) /\ Cardinality(C) = IF p \in A THEN Cardinality(A) - 1 ELSE Cardinality(A)
  BY <1>2, FS_RemoveElement
<1>6. Cardinality(C \cup {p}) = Cardinality(C) + 1
  BY <1>5, FS_AddElement
<1>7. B = IF p \in B THEN C \cup {p} ELSE C
  BY <1>3
<1>8. Cardinality(A) \in Nat /\ Cardinality(C) \in Nat
  BY <1>2, <1>5, FS_CardinalityType
<1>9. Cardinality(B) = IF p \in B THEN Cardinality(C) + 1 ELSE Cardinality(C)
  BY <1>6, <1>7
<1> HIDE DEF A, B, C
<1>10. MasAnotando(p, n, en) \in Int /\ Cardinality(B) = Cardinality(A) + MasAnotando(p, n, en)
  BY <1>4, <1>5, <1>8, <1>9 DEF Es, MasAnotando
<1>11. QED
  BY <1>1, <1>10 DEF A

\* The messages: k more of t.
LEMMA CambiaCola ==
  ASSUME Inv, Inv', NEW t \in TareaAviso, NEW k \in Int, NEW n \in Aviso,
         cola' = [cola EXCEPT ![t] = @ + k]
  PROVE  /\ IntentosCola(n)' = IntentosCola(n) + k * Resta(t, n)
         /\ EnviosCola(n)' = EnviosCola(n) + k * Es(t.aviso = n)
<1> DEFINE wi == [u \in TareaAviso |-> cola[u] * Resta(u, n)]
           vi == [u \in TareaAviso |-> cola'[u] * Resta(u, n)]
           we == [u \in TareaAviso |-> cola[u] * Es(u.aviso = n)]
           ve == [u \in TareaAviso |-> cola'[u] * Es(u.aviso = n)]
<1>0. t \in Tarea /\ cola \in [Tarea -> Nat] /\ TareaAviso \subseteq Tarea
  BY TareaT DEF Inv, Tablas
<1>1. wi \in [TareaAviso -> Int] /\ we \in [TareaAviso -> Int]
  BY PesosT
<1>2. vi \in [TareaAviso -> Int] /\ ve \in [TareaAviso -> Int]
  <2>1. \A u \in TareaAviso : cola'[u] \in Nat
    BY <1>0 DEF Inv, Tablas
  <2>2. \A u \in TareaAviso : Resta(u, n) \in Nat /\ Es(u.aviso = n) \in Nat
    BY PesosT
  <2>3. \A i, j \in Nat : i * j \in Int
    OBVIOUS
  <2>4. QED
    BY <2>1, <2>2, <2>3
<1>3. /\ IntentosCola(n) = SumaDe(wi) /\ IntentosCola(n)' = SumaDe(vi)
      /\ EnviosCola(n) = SumaDe(we) /\ EnviosCola(n)' = SumaDe(ve)
  BY DEF IntentosCola, EnviosCola, Resta, Es
<1>4. \A u \in TareaAviso \ {t} : wi[u] = vi[u] /\ we[u] = ve[u]
  BY <1>0
<1>5. vi[t] = wi[t] + k * Resta(t, n) /\ ve[t] = we[t] + k * Es(t.aviso = n)
  <2>1. cola'[t] = cola[t] + k /\ cola[t] \in Int
    BY <1>0
  <2>2. Resta(t, n) \in Int /\ Es(t.aviso = n) \in Int
    BY PesosT
  <2>3. \A c, i \in Int : (c + k) * i = c * i + k * i
    OBVIOUS
  <2>4. QED
    BY <2>1, <2>2, <2>3
<1>6. IsFiniteSet(TareaAviso)
  BY Finitos
<1>7. k * Resta(t, n) \in Int /\ k * Es(t.aviso = n) \in Int
  <2>1. \A i \in Int : k * i \in Int
    OBVIOUS
  <2>2. QED
    BY <2>1, PesosT
<1> DEFINE a == k * Resta(t, n)
           b == k * Es(t.aviso = n)
<1> HIDE TareasOK DEF wi, vi, we, ve, a, b
<1>8. SumaDe(vi) = SumaDe(wi) + (vi[t] - wi[t])
  BY <1>1, <1>2, <1>4, <1>6, SumaMas
<1>9. SumaDe(ve) = SumaDe(we) + (ve[t] - we[t])
  BY <1>1, <1>2, <1>4, <1>6, SumaMas
<1>10. /\ vi[t] = wi[t] + a /\ ve[t] = we[t] + b /\ a \in Int /\ b \in Int
       /\ vi[t] \in Int /\ wi[t] \in Int /\ ve[t] \in Int /\ we[t] \in Int
  BY <1>1, <1>2, <1>5, <1>7 DEF a, b
<1>11. IntentosCola(n)' = IntentosCola(n) + a /\ EnviosCola(n)' = EnviosCola(n) + b
  BY <1>3, <1>8, <1>9, <1>10
<1>12. QED
  BY <1>11 DEF a, b

\* The others do not change them.
LEMMA MismaCola ==
  ASSUME Inv, Inv', NEW n \in Aviso, \A t \in TareaAviso : cola'[t] = cola[t]
  PROVE  IntentosCola(n)' = IntentosCola(n) /\ EnviosCola(n)' = EnviosCola(n)
<1>1. /\ [u \in TareaAviso |-> cola[u] * Resta(u, n)] = [u \in TareaAviso |-> cola'[u] * Resta(u, n)]
      /\ [u \in TareaAviso |-> cola[u] * Es(u.aviso = n)]
           = [u \in TareaAviso |-> cola'[u] * Es(u.aviso = n)]
  OBVIOUS
<1>2. QED
  BY <1>1 DEF IntentosCola, EnviosCola, Resta, Es

LEMMA ColaT ==
  ASSUME Inv', NEW n \in Aviso
  PROVE  IntentosCola(n)' \in Int /\ EnviosCola(n)' \in Int
<1> DEFINE vi == [u \in TareaAviso |-> cola'[u] * Resta(u, n)]
           ve == [u \in TareaAviso |-> cola'[u] * Es(u.aviso = n)]
<1>1. \A u \in TareaAviso : /\ cola'[u] \in Nat /\ Resta(u, n) \in Nat
                            /\ Es(u.aviso = n) \in Nat
  BY TareaT DEF Inv, Tablas, Resta, Es
<1>2. \A i, j \in Nat : i * j \in Int
  OBVIOUS
<1>3. vi \in [TareaAviso -> Int] /\ ve \in [TareaAviso -> Int]
  BY <1>1, <1>2
<1>4. IntentosCola(n)' = SumaDe(vi) /\ EnviosCola(n)' = SumaDe(ve)
  BY DEF IntentosCola, EnviosCola, Resta, Es
<1> HIDE DEF vi, ve
<1>5. QED
  BY <1>3, <1>4, Finitos, SumaT

\* What a step adds: rows of n, calls to SendGrid, messages that it took, what
\* waits at the broker weighs more, failures.
MasEnviado(n) == filas'[n].enviado - filas[n].enviado
MasError(n) == filas'[n].error - filas[n].error
MasLlamadas(n) == intentos'[n] - intentos[n]
MasTomados(n) == envios'[n] - envios[n]
MasIntentosCola(n) == IntentosCola(n)' - IntentosCola(n)
MasEnviosCola(n) == EnviosCola(n)' - EnviosCola(n)
MasFallos == fallos' - fallos

\* The balance of a step of process p for notification n.
BalanceDe(p, n) ==
  /\ MasEnviado(n) + MasAnotando(p, n, {"anotar"}) <= MasTomados(n)
  /\ MasTomados(n) <= MasEnviado(n) + MasAnotando(p, n, {"anotar"}) + MasFallos
  /\ MasEnviado(n) + MasError(n) + MasAnotando(p, n, {"anotar", "anotar_error"}) <= MasLlamadas(n)
  /\ MasLlamadas(n)
       <= MasEnviado(n) + MasError(n) + MasAnotando(p, n, {"anotar", "anotar_error"}) + MasFallos
  /\ MasLlamadas(n) + MasIntentos(p, n) + MasIntentosCola(n) <= (MaxReintentos + 1) * MasFallos
  /\ MasTomados(n) + MasEnvios(p, n) + MasEnviosCola(n) <= MasFallos

LEMMA Balance ==
  ASSUME Inv, Inv', Contado, NEW n \in Aviso, NEW p \in Proceso, Solo(p),
         MasFallos \in {0, 1}, BalanceDe(p, n)
  PROVE  ContadoDe(n)'
<1> DEFINE s == MasAnotando(p, n, {"anotar"})
           a == MasAnotando(p, n, {"anotar", "anotar_error"})
           wi == MasIntentos(p, n)
           we == MasEnvios(p, n)
           e == MasEnviado(n)
           r == MasError(n)
           i == MasLlamadas(n)
           v == MasTomados(n)
           ci == MasIntentosCola(n)
           ce == MasEnviosCola(n)
           d == MasFallos
<1>1. /\ filas[n].enviado \in Nat /\ filas[n].error \in Nat /\ envios[n] \in Nat
      /\ intentos[n] \in Nat /\ fallos \in Nat
  BY DEF Inv, Tablas
<1>20. /\ filas'[n].enviado \in Nat /\ filas'[n].error \in Nat /\ envios'[n] \in Nat
       /\ intentos'[n] \in Nat /\ fallos' \in Nat
  BY DEF Inv, Tablas
<1>21. /\ filas'[n].enviado = filas[n].enviado + e /\ filas'[n].error = filas[n].error + r
       /\ intentos'[n] = intentos[n] + i /\ envios'[n] = envios[n] + v /\ fallos' = fallos + d
       /\ e \in Int /\ r \in Int /\ i \in Int /\ v \in Int
  <2> HIDE TareasOK
  <2>1. filas'[n].enviado = filas[n].enviado + e /\ e \in Int
    BY <1>1, <1>20 DEF MasEnviado
  <2>2. filas'[n].error = filas[n].error + r /\ r \in Int
    BY <1>1, <1>20 DEF MasError
  <2>3. intentos'[n] = intentos[n] + i /\ envios'[n] = envios[n] + v /\ i \in Int /\ v \in Int
    BY <1>1, <1>20 DEF MasLlamadas, MasTomados
  <2>4. fallos' = fallos + d
    <3>1. fallos \in Int /\ fallos' \in Int
      BY <1>1, <1>20
    <3>2. \A x, y \in Int : y = x + (y - x)
      OBVIOUS
    <3>3. QED
      BY <3>1, <3>2, Zenon DEF MasFallos
  <2>5. QED
    BY <2>1, <2>2, <2>3, <2>4
<1>2. /\ SinFila(n) \in Nat /\ Abiertas(n) \in Nat
      /\ s \in Int /\ a \in Int /\ SinFila(n)' = SinFila(n) + s /\ Abiertas(n)' = Abiertas(n) + a
  BY AnotandoT, CambiaAnotando DEF SinFila, Abiertas
<1>3. /\ IntentosProc(n) \in Nat /\ EnviosProc(n) \in Nat /\ wi \in Int /\ we \in Int
      /\ IntentosProc(n)' = IntentosProc(n) + wi /\ EnviosProc(n)' = EnviosProc(n) + we
  BY SumasT, CambiaSuma
<1>4. Tope(fallos)' = Tope(fallos) + (MaxReintentos + 1) * d /\ Tope(fallos) \in Nat
  <2>1. Tope(fallos)' = Tope(fallos + d)
    BY <1>21 DEF Tope
  <2>2. /\ Tope(fallos) \in Nat /\ Tope(fallos + 1) = Tope(fallos) + MaxReintentos + 1
        /\ fallos \in Nat /\ MaxReintentos \in Nat
    BY <1>1, TopeT
  <2> HIDE TareasOK
  <2>3. CASE d = 0
    <3>1. fallos + d = fallos /\ (MaxReintentos + 1) * d = 0
      BY <2>2, <2>3
    <3>2. QED
      BY <2>1, <2>2, <3>1
  <2>5. CASE d = 1
    <3>1. fallos + d = fallos + 1 /\ (MaxReintentos + 1) * d = MaxReintentos + 1
      BY <2>2, <2>5
    <3>2. QED
      BY <2>1, <2>2, <3>1
  <2>4. QED
    BY <2>3, <2>5
<1>5. /\ IntentosCola(n) \in Nat /\ EnviosCola(n) \in Nat /\ ci \in Int /\ ce \in Int
      /\ IntentosCola(n)' = IntentosCola(n) + ci /\ EnviosCola(n)' = EnviosCola(n) + ce
  BY SumasT, ColaT DEF MasIntentosCola, MasEnviosCola
<1>6. /\ e + s <= v /\ v <= e + s + d /\ e + r + a <= i /\ i <= e + r + a + d
      /\ i + wi + ci <= (MaxReintentos + 1) * d /\ v + we + ce <= d
  BY DEF BalanceDe
<1>7. ContadoDe(n)
  BY DEF Contado
<1>8. Inv /\ (d = 0 \/ d = 1) /\ MaxReintentos \in Nat
  OBVIOUS
<1> HIDE TareasOK DEF s, a, wi, we, e, r, i, v, ci, ce, d
<1>9. (filas[n].enviado + SinFila(n) <= envios[n])'
  BY <1>1, <1>2, <1>21, <1>6, <1>7 DEF ContadoDe
<1>10. (envios[n] <= filas[n].enviado + SinFila(n) + fallos)'
  BY <1>1, <1>2, <1>21, <1>6, <1>7, <1>8 DEF ContadoDe
<1>11. (filas[n].enviado + filas[n].error + Abiertas(n) <= intentos[n])'
  BY <1>1, <1>2, <1>21, <1>6, <1>7 DEF ContadoDe
<1>12. (intentos[n] <= filas[n].enviado + filas[n].error + Abiertas(n) + fallos)'
  BY <1>1, <1>2, <1>21, <1>6, <1>7, <1>8 DEF ContadoDe
<1>13. (intentos[n] + IntentosProc(n) + IntentosCola(n) <= Tope(fallos))'
  <2> DEFINE m == (MaxReintentos + 1) * d
  <2>1. m \in Int
    BY <1>8
  <2>2. Tope(fallos)' = Tope(fallos) + m /\ i + wi + ci <= m
    BY <1>4, <1>6
  <2> HIDE DEF m
  <2>3. QED
    BY <1>1, <1>21, <1>3, <1>4, <1>5, <1>7, <2>1, <2>2 DEF ContadoDe
<1>14. (envios[n] + EnviosProc(n) + EnviosCola(n) <= 1 + fallos)'
  BY <1>1, <1>21, <1>3, <1>5, <1>6, <1>7, <1>8 DEF ContadoDe
<1>15. QED
  BY <1>9, <1>10, <1>11, <1>12, <1>13, <1>14 DEF ContadoDe
-----------------------------------------------------------------------------
(* What a state weighs.                                                    *)

PorHacer == {"libre", "encolar", "encolar_bajo"}

\* Nothing, if it holds no notification and has none to begin.
LEMMA PesoNulo ==
  ASSUME NEW p, NEW x, NEW n \in Aviso, x.en \notin EnAviso, p \notin Alta \/ x.en \notin PorHacer
  PROVE  /\ IntentosDe(p, x, n) = 0 /\ EnviosDe(p, x, n) = 0
         /\ Es(Lleva(x, n, {"anotar"})) = 0 /\ Es(Lleva(x, n, {"anotar", "anotar_error"})) = 0
BY DEF IntentosDe, EnviosDe, PorEmpezar, Lleva, Es, EnAviso, PorHacer

LEMMA PesoAlta ==
  ASSUME NEW p, NEW x, NEW n \in Aviso, x.en \in PorHacer
  PROVE  /\ IntentosDe(p, x, n) = IF PorEmpezar(p, x, n) THEN MaxReintentos + 1 ELSE 0
         /\ EnviosDe(p, x, n) = IF PorEmpezar(p, x, n) THEN 1 ELSE 0
         /\ Es(Lleva(x, n, {"anotar"})) = 0 /\ Es(Lleva(x, n, {"anotar", "anotar_error"})) = 0
BY DEF IntentosDe, EnviosDe, PorEmpezar, Lleva, Es, PorHacer

LEMMA PesoAviso ==
  ASSUME NEW p, NEW x, NEW n \in Aviso, x.en \in EnAviso
  PROVE  /\ IntentosDe(p, x, n) = IF x.tarea.aviso # n THEN 0
                                 ELSE IF x.en = "enviar" THEN MaxReintentos + 1 - x.tarea.intento
                                 ELSE MaxReintentos - x.tarea.intento
         /\ EnviosDe(p, x, n) = IF x.tarea.aviso = n /\ x.en # "anotar" THEN 1 ELSE 0
         /\ Es(Lleva(x, n, {"anotar"})) = IF x.tarea.aviso = n /\ x.en = "anotar" THEN 1 ELSE 0
         /\ Es(Lleva(x, n, {"anotar", "anotar_error"}))
              = IF x.tarea.aviso = n /\ x.en \in {"anotar", "anotar_error"} THEN 1 ELSE 0
BY DEF IntentosDe, EnviosDe, PorEmpezar, Lleva, Es, EnAviso

LEMMA InicioContado == Init => Contado
<1> SUFFICES ASSUME Init, NEW n \in Aviso  PROVE ContadoDe(n)
  BY DEF Contado
<1>1. /\ filas[n].enviado = 0 /\ filas[n].error = 0 /\ envios[n] = 0 /\ intentos[n] = 0
      /\ fallos = 0
  BY DEF Init
<1>2. \A p \in Proceso : proc[p].en = "libre"
  BY DEF Init, Libre
<1>3. SinFila(n) = 0 /\ Abiertas(n) = 0
  <2>1. Anotando(n, {"anotar"}) = {} /\ Anotando(n, {"anotar", "anotar_error"}) = {}
    BY <1>2 DEF Anotando
  <2>2. QED
    BY <2>1, FS_EmptySet DEF SinFila, Abiertas
<1>4. IntentosCola(n) = 0 /\ EnviosCola(n) = 0
  <2> DEFINE wi == [t \in TareaAviso |-> cola[t] * Resta(t, n)]
             we == [t \in TareaAviso |-> cola[t] * Es(t.aviso = n)]
  <2>1. \A t \in TareaAviso : cola[t] = 0 /\ Resta(t, n) \in Int /\ Es(t.aviso = n) \in Int
    BY TareaT DEF Init, Resta, Es
  <2>2. \A k \in Int : 0 * k = 0
    OBVIOUS
  <2>3. \A t \in TareaAviso : wi[t] = 0 /\ we[t] = 0
    BY <2>1, <2>2
  <2>4. wi \in [TareaAviso -> Int] /\ we \in [TareaAviso -> Int]
    BY <2>3
  <2> HIDE DEF wi, we
  <2>5. SumaDe(wi) = 0 /\ SumaDe(we) = 0
    BY <2>3, <2>4, Finitos, SumaCero
  <2>6. QED
    BY <2>5 DEF IntentosCola, EnviosCola, wi, we
<1>5. IntentosProc(n) = MaxReintentos + 1 /\ EnviosProc(n) = 1
  <2> DEFINE wi == [p \in Proceso |-> IntentosDe(p, proc[p], n)]
             we == [p \in Proceso |-> EnviosDe(p, proc[p], n)]
             a == n[1]
  <2>1. \A p \in Proceso : /\ wi[p] = IF p = a THEN MaxReintentos + 1 ELSE 0
                           /\ we[p] = IF p = a THEN 1 ELSE 0
    <3>1. a \in Alta
      BY DEF Aviso
    <3>2. QED
      BY <1>2, <3>1, PesoAlta DEF PorHacer, PorEmpezar
  <2>2. wi \in [Proceso -> Int] /\ we \in [Proceso -> Int] /\ a \in Proceso
    <3>1. \A p \in Proceso : wi[p] \in Int /\ we[p] \in Int
      BY <2>1
    <3>2. a \in Proceso
      BY DEF Aviso, Proceso
    <3>3. QED
      BY <3>1, <3>2
  <2>3. /\ \A p \in Proceso \ {a} : wi[p] = 0 /\ we[p] = 0
        /\ wi[a] = MaxReintentos + 1 /\ we[a] = 1
    BY <2>1, <2>2
  <2> HIDE DEF wi, we
  <2>4. SumaDe(wi) = wi[a] /\ SumaDe(we) = we[a]
    BY <2>2, <2>3, Finitos, SumaUno
  <2>5. QED
    BY <2>3, <2>4 DEF IntentosProc, EnviosProc, wi, we
<1>6. QED
  BY <1>1, <1>3, <1>4, <1>5, TopeT DEF ContadoDe

-----------------------------------------------------------------------------
(* The steps.                                                              *)

LEMMA UnCambio ==
  ASSUME Inv, NEW p \in Proceso, NEW x, proc' = [proc EXCEPT ![p] = x]
  PROVE  Solo(p) /\ proc'[p] = x
BY DEF Inv, Tipos, Solo

LEMMA IrT ==
  ASSUME Inv, NEW p \in Proceso, NEW en, Ir(p, en)
  PROVE  Solo(p) /\ proc'[p].en = en /\ proc'[p].tarea = proc[p].tarea
BY DEF Inv, Tipos, Solo, Ir, ProcT

\* A step that touches neither the rows nor the messages of a notification.
LEMMA SoloProceso ==
  ASSUME Inv, Inv', Contado, NEW p \in Proceso, Solo(p), UNCHANGED <<intentos, envios, filas>>,
         \A t \in TareaAviso : cola'[t] = cola[t], MasFallos \in {0, 1},
         \A n \in Aviso : /\ MasIntentos(p, n) <= 0 /\ MasEnvios(p, n) <= 0
                          /\ MasAnotando(p, n, {"anotar"}) <= 0
                          /\ 0 <= MasAnotando(p, n, {"anotar"}) + MasFallos
                          /\ MasAnotando(p, n, {"anotar", "anotar_error"}) <= 0
                          /\ 0 <= MasAnotando(p, n, {"anotar", "anotar_error"}) + MasFallos
  PROVE  Contado'
<1> SUFFICES ASSUME NEW n \in Aviso  PROVE ContadoDe(n)'
  BY DEF Contado
<1>1. MasIntentosCola(n) = 0 /\ MasEnviosCola(n) = 0
  BY MismaCola, SumasT DEF MasIntentosCola, MasEnviosCola
<1>2. /\ MasEnviado(n) = 0 /\ MasError(n) = 0 /\ MasLlamadas(n) = 0 /\ MasTomados(n) = 0
  BY DEF Inv, Tablas, MasEnviado, MasError, MasLlamadas, MasTomados
<1>3. /\ MasIntentos(p, n) \in Int /\ MasEnvios(p, n) \in Int
      /\ MasAnotando(p, n, {"anotar"}) \in Int
      /\ MasAnotando(p, n, {"anotar", "anotar_error"}) \in Int
  BY CambiaSuma, CambiaAnotando
<1>4. 0 <= (MaxReintentos + 1) * MasFallos /\ (MaxReintentos + 1) * MasFallos \in Int
  <2>1. CASE MasFallos = 0
    BY <2>1
  <2>2. CASE MasFallos = 1
    BY <2>2
  <2>3. QED
    BY <2>1, <2>2
<1>5. BalanceDe(p, n)
  BY <1>1, <1>2, <1>3, <1>4 DEF BalanceDe
<1>6. QED
  BY <1>5, Balance

\* A step that has k more messages of t.
LEMMA ConMensaje ==
  ASSUME Inv, Inv', Contado, NEW p \in Proceso, Solo(p), UNCHANGED <<intentos, envios, filas>>,
         NEW t \in TareaAviso, NEW k \in Int, cola' = [cola EXCEPT ![t] = @ + k],
         MasFallos \in {0, 1},
         \A n \in Aviso : /\ MasIntentos(p, n) + k * Resta(t, n) <= (MaxReintentos + 1) * MasFallos
                          /\ MasEnvios(p, n) + k * Es(t.aviso = n) <= MasFallos
                          /\ MasAnotando(p, n, {"anotar"}) <= 0
                          /\ 0 <= MasAnotando(p, n, {"anotar"}) + MasFallos
                          /\ MasAnotando(p, n, {"anotar", "anotar_error"}) <= 0
                          /\ 0 <= MasAnotando(p, n, {"anotar", "anotar_error"}) + MasFallos
  PROVE  Contado'
<1> SUFFICES ASSUME NEW n \in Aviso  PROVE ContadoDe(n)'
  BY DEF Contado
<1>1. IntentosCola(n)' = IntentosCola(n) + k * Resta(t, n)
      /\ EnviosCola(n)' = EnviosCola(n) + k * Es(t.aviso = n)
  <2> HIDE TareasOK
  <2>1. QED
    BY CambiaCola, Zenon
<1> DEFINE ci == k * Resta(t, n)
           ce == k * Es(t.aviso = n)
<1>2. /\ MasEnviado(n) = 0 /\ MasError(n) = 0 /\ MasLlamadas(n) = 0 /\ MasTomados(n) = 0
  BY DEF Inv, Tablas, MasEnviado, MasError, MasLlamadas, MasTomados
<1>3. /\ MasIntentos(p, n) \in Int /\ MasEnvios(p, n) \in Int
      /\ MasAnotando(p, n, {"anotar"}) \in Int
      /\ MasAnotando(p, n, {"anotar", "anotar_error"}) \in Int
  BY CambiaSuma, CambiaAnotando
<1>4. ci \in Int /\ ce \in Int
  <2>1. \A i \in Int : k * i \in Int
    OBVIOUS
  <2>2. QED
    BY <2>1, PesosT
<1>5. MasIntentos(p, n) + ci <= (MaxReintentos + 1) * MasFallos /\ MasEnvios(p, n) + ce <= MasFallos
  OBVIOUS
<1>6. IntentosCola(n)' = IntentosCola(n) + ci /\ EnviosCola(n)' = EnviosCola(n) + ce
  BY <1>1
<1> HIDE DEF ci, ce
<1>7. MasIntentosCola(n) = ci /\ MasEnviosCola(n) = ce
  BY <1>4, <1>6, SumasT DEF MasIntentosCola, MasEnviosCola
<1>8. BalanceDe(p, n)
  BY <1>2, <1>3, <1>4, <1>5, <1>7 DEF BalanceDe
<1>9. QED
  BY <1>8, Balance
LEMMA FallosT ==
  ASSUME Inv
  PROVE  (Falla => MasFallos = 1) /\ (fallos' = fallos => MasFallos = 0)
<1>1. fallos \in Int
  BY DEF Inv, Tablas
<1>2. QED
  BY <1>1 DEF Falla, MasFallos

\* Who holds no notification before or after the step.
LEMMA ContarNeutro ==
  ASSUME Inv, Inv', Contado, NEW w \in Worker, Solo(w),
         proc[w].en \notin EnAviso, proc'[w].en \notin EnAviso,
         UNCHANGED <<intentos, envios, filas>>,
         \A t \in TareaAviso : cola'[t] = cola[t], MasFallos \in {0, 1}
  PROVE  Contado'
<1>1. w \in Proceso /\ w \notin Alta
  BY DEF Proceso
<1>2. ASSUME NEW n \in Aviso
      PROVE  /\ MasIntentos(w, n) = 0 /\ MasEnvios(w, n) = 0
             /\ MasAnotando(w, n, {"anotar"}) = 0
             /\ MasAnotando(w, n, {"anotar", "anotar_error"}) = 0
  <2>1. /\ IntentosDe(w, proc[w], n) = 0 /\ EnviosDe(w, proc[w], n) = 0
        /\ Es(Lleva(proc[w], n, {"anotar"})) = 0
        /\ Es(Lleva(proc[w], n, {"anotar", "anotar_error"})) = 0
    BY <1>1, PesoNulo
  <2>2. /\ IntentosDe(w, proc'[w], n) = 0 /\ EnviosDe(w, proc'[w], n) = 0
        /\ Es(Lleva(proc'[w], n, {"anotar"})) = 0
        /\ Es(Lleva(proc'[w], n, {"anotar", "anotar_error"})) = 0
    BY <1>1, PesoNulo
  <2>3. QED
    BY <2>1, <2>2 DEF MasIntentos, MasEnvios, MasAnotando
<1>3. QED
  BY <1>1, <1>2, SoloProceso

LEMMA ContarCrear ==
  ASSUME Inv, Inv', Contado, NEW a \in Alta, Crear(a)
  PROVE  Contado'
<1>1. a \in Proceso /\ proc[a] \in ProcT /\ proc[a].en = "libre"
  BY DEF Inv, Tipos, Proceso, Crear
<1>2. /\ Solo(a)
      /\ \/ proc'[a].en \in {"error", "encolar"}
         \/ proc'[a].en = "enviar" /\ proc'[a].tarea = Primera(a, "item_creado")
  <2>1. CASE SkuDe[a] \in tabla
    BY <1>1, <2>1, IrT DEF Crear
  <2>2. CASE SkuDe[a] \notin tabla
    <3> DEFINE en == IF esc.celery THEN "encolar" ELSE "enviar"
               x == [proc[a] EXCEPT !.tarea = Primera(a, "item_creado"), !.en = en]
    <3>1. proc' = [proc EXCEPT ![a] = x]
      BY <1>1, <2>2 DEF Crear, ProcT
    <3>2. x.en = en /\ x.tarea = Primera(a, "item_creado")
      BY <1>1 DEF ProcT
    <3>3. Solo(a) /\ proc'[a] = x
      BY <1>1, <3>1, UnCambio
    <3>4. QED
      BY <3>2, <3>3
  <2>3. QED
    BY <2>1, <2>2
<1>3. UNCHANGED <<intentos, envios, filas>> /\ cola' = cola /\ MasFallos = 0
  BY FallosT DEF Crear, avisos, finales
<1>4. ASSUME NEW n \in Aviso
      PROVE  /\ MasIntentos(a, n) <= 0 /\ MasEnvios(a, n) <= 0
             /\ MasAnotando(a, n, {"anotar"}) = 0
             /\ MasAnotando(a, n, {"anotar", "anotar_error"}) = 0
  <2>1. /\ IntentosDe(a, proc[a], n) = IF a = n[1] THEN MaxReintentos + 1 ELSE 0
        /\ EnviosDe(a, proc[a], n) = IF a = n[1] THEN 1 ELSE 0
        /\ Es(Lleva(proc[a], n, {"anotar"})) = 0
        /\ Es(Lleva(proc[a], n, {"anotar", "anotar_error"})) = 0
    BY <1>1, PesoAlta DEF PorHacer, PorEmpezar
  <2>2. CASE proc'[a].en = "error"
    BY <2>1, <2>2, PesoNulo DEF EnAviso, PorHacer, MasIntentos, MasEnvios, MasAnotando
  <2>3. CASE proc'[a].en = "encolar"
    <3>1. /\ IntentosDe(a, proc'[a], n) = IF a = n[1] THEN MaxReintentos + 1 ELSE 0
          /\ EnviosDe(a, proc'[a], n) = IF a = n[1] THEN 1 ELSE 0
          /\ Es(Lleva(proc'[a], n, {"anotar"})) = 0
          /\ Es(Lleva(proc'[a], n, {"anotar", "anotar_error"})) = 0
      BY <2>3, PesoAlta DEF PorHacer, PorEmpezar
    <3>2. QED
      BY <2>1, <3>1 DEF MasIntentos, MasEnvios, MasAnotando
  <2>4. CASE proc'[a].en = "enviar" /\ proc'[a].tarea = Primera(a, "item_creado")
    <3>1. proc'[a].tarea.aviso = <<a, "item_creado">> /\ proc'[a].tarea.intento = 0
      BY <2>4 DEF Primera
    <3>2. proc'[a].tarea.aviso = n => a = n[1]
      BY <3>1
    <3>3. QED
      BY <2>1, <2>4, <3>1, <3>2, PesoAviso DEF EnAviso, MasIntentos, MasEnvios, MasAnotando
  <2>5. QED
    BY <1>2, <2>2, <2>3, <2>4
<1>5. QED
  BY <1>1, <1>2, <1>3, <1>4, SoloProceso

LEMMA ContarMorirAlta ==
  ASSUME Inv, Inv', Contado, NEW a \in Alta, MorirAlta(a)
  PROVE  Contado'
<1>1. /\ a \in Proceso /\ Solo(a) /\ proc'[a].en = "error"
      /\ UNCHANGED <<intentos, envios, filas>> /\ cola' = cola /\ MasFallos = 1
  BY IrT, FallosT DEF MorirAlta, Proceso, avisos, finales
<1>2. ASSUME NEW n \in Aviso
      PROVE  /\ MasIntentos(a, n) <= 0 /\ MasEnvios(a, n) <= 0
             /\ MasAnotando(a, n, {"anotar"}) \in {0, -1}
             /\ MasAnotando(a, n, {"anotar", "anotar_error"}) \in {0, -1}
  <2>1. IntentosDe(a, proc[a], n) \in Nat /\ EnviosDe(a, proc[a], n) \in Nat
    BY <1>1, PesosT
  <2>2. /\ IntentosDe(a, proc'[a], n) = 0 /\ EnviosDe(a, proc'[a], n) = 0
        /\ Es(Lleva(proc'[a], n, {"anotar"})) = 0
        /\ Es(Lleva(proc'[a], n, {"anotar", "anotar_error"})) = 0
    BY <1>1, PesoNulo DEF EnAviso, PorHacer
  <2>3. /\ Es(Lleva(proc[a], n, {"anotar"})) \in {0, 1}
        /\ Es(Lleva(proc[a], n, {"anotar", "anotar_error"})) \in {0, 1}
    BY DEF Es
  <2>4. QED
    BY <2>1, <2>2, <2>3 DEF MasIntentos, MasEnvios, MasAnotando
<1>3. QED
  BY <1>1, <1>2, SoloProceso

LEMMA PrimeraR ==
  ASSUME NEW a, NEW tipo, NEW n \in Aviso
  PROVE  /\ Resta(Primera(a, tipo), n) = IF n = <<a, tipo>> THEN MaxReintentos + 1 ELSE 0
         /\ Es(Primera(a, tipo).aviso = n) = IF n = <<a, tipo>> THEN 1 ELSE 0
BY DEF Resta, Es, Primera

LEMMA ContarEncolar ==
  ASSUME Inv, Inv', Contado, NEW a \in Alta, Encolar(a)
  PROVE  Contado'
<1>1. /\ a \in Proceso /\ UNCHANGED <<intentos, envios, filas>> /\ MasFallos \in {0, 1}
  BY FallosT DEF Encolar, Proceso, avisos, finales
<1> DEFINE x == proc'[a]
           tipo == IF proc[a].en = "encolar" THEN "item_creado" ELSE "stock_bajo"
<1>2. /\ Solo(a)
      /\ proc[a].en = "encolar" => x.en \in {"encolar_bajo", "hecha"}
      /\ proc[a].en # "encolar" => proc[a].en = "encolar_bajo" /\ x.en \in {"hecha", "error"}
      /\ x.en \in {"encolar_bajo", "hecha", "error"}
  BY <1>1, IrT DEF Encolar
<1>3. ASSUME NEW n \in Aviso
      PROVE  /\ MasIntentos(a, n) <= 0 /\ MasEnvios(a, n) <= 0
             /\ n = <<a, tipo>> => MasIntentos(a, n) <= -(MaxReintentos + 1) /\ MasEnvios(a, n) <= -1
             /\ MasAnotando(a, n, {"anotar"}) = 0
             /\ MasAnotando(a, n, {"anotar", "anotar_error"}) = 0
             /\ MasIntentos(a, n) \in Int /\ MasEnvios(a, n) \in Int
  <2> DEFINE antes == PorEmpezar(a, proc[a], n)
             despues == x.en = "encolar_bajo" /\ PorEmpezar(a, x, n)
  <2>1. /\ IntentosDe(a, proc[a], n) = IF antes THEN MaxReintentos + 1 ELSE 0
        /\ EnviosDe(a, proc[a], n) = IF antes THEN 1 ELSE 0
        /\ Es(Lleva(proc[a], n, {"anotar"})) = 0
        /\ Es(Lleva(proc[a], n, {"anotar", "anotar_error"})) = 0
    BY <1>2, PesoAlta DEF PorHacer
  <2>2. /\ IntentosDe(a, x, n) = IF despues THEN MaxReintentos + 1 ELSE 0
        /\ EnviosDe(a, x, n) = IF despues THEN 1 ELSE 0
        /\ Es(Lleva(x, n, {"anotar"})) = 0
        /\ Es(Lleva(x, n, {"anotar", "anotar_error"})) = 0
    <3>1. CASE x.en = "encolar_bajo"
      BY <3>1, PesoAlta DEF PorHacer
    <3>2. CASE x.en # "encolar_bajo"
      BY <1>2, <3>2, PesoNulo DEF PorHacer, EnAviso
    <3>3. QED
      BY <3>1, <3>2
  <2>3. /\ despues => antes
        /\ n = <<a, tipo>> => antes /\ ~despues
    BY <1>2 DEF PorEmpezar
  <2> HIDE DEF antes, despues
  <2>4. QED
    BY <2>1, <2>2, <2>3 DEF MasIntentos, MasEnvios, MasAnotando
<1>4. CASE cola' = cola
  BY <1>1, <1>2, <1>3, <1>4, SoloProceso
<1>5. CASE Encola(Primera(a, tipo)) /\ fallos' = fallos
  <2> DEFINE t == Primera(a, tipo)
  <2>1. t \in TareaAviso
    BY PrimeraT
  <2>2. cola' = [cola EXCEPT ![t] = @ + 1] /\ MasFallos = 0
    BY <1>5, FallosT DEF Encola
  <2>3. \A n \in Aviso : /\ MasIntentos(a, n) + 1 * Resta(t, n) <= (MaxReintentos + 1) * MasFallos
                         /\ MasEnvios(a, n) + 1 * Es(t.aviso = n) <= MasFallos
                         /\ MasAnotando(a, n, {"anotar"}) <= 0
                         /\ 0 <= MasAnotando(a, n, {"anotar"}) + MasFallos
                         /\ MasAnotando(a, n, {"anotar", "anotar_error"}) <= 0
                         /\ 0 <= MasAnotando(a, n, {"anotar", "anotar_error"}) + MasFallos
    BY <1>3, <2>2, PrimeraR
  <2> HIDE TareasOK DEF t
  <2>4. 1 \in Int
    OBVIOUS
  <2>5. QED
    BY <1>1, <1>2, <2>1, <2>2, <2>3, <2>4, ConMensaje, Zenon
<1>6. QED
  BY <1>4, <1>5 DEF Encolar
LEMMA ContarTomar ==
  ASSUME Inv, Inv', Contado, NEW w \in Worker, NEW t \in Tarea, Tomar(w, t)
  PROVE  Contado'
<1>1. /\ w \in Proceso /\ w \notin Alta /\ proc[w].en = "libre"
      /\ UNCHANGED <<intentos, envios, filas>> /\ MasFallos = 0
      /\ cola \in [Tarea -> Nat] /\ cola' = [cola EXCEPT ![t] = @ - 1]
  BY FallosT DEF Inv, Tablas, Proceso, Tomar, avisos, finales
<1>2. /\ Solo(w) /\ proc'[w].tarea = t
      /\ proc'[w].en = IF t = Sftp THEN "mirar" ELSE "enviar"
  <2> DEFINE e == IF t = Sftp THEN "mirar" ELSE "enviar"
             x == [Libre EXCEPT !.tarea = t, !.en = e]
  <2>1. proc' = [proc EXCEPT ![w] = x]
    BY DEF Tomar
  <2> HIDE DEF e
  <2>2. x.tarea = t /\ x.en = e
    BY DEF Libre
  <2>3. Solo(w) /\ proc'[w] = x
    BY <1>1, <2>1, UnCambio
  <2>4. QED
    BY <2>2, <2>3 DEF e
<1>3. CASE t = Sftp
  <2>1. \A u \in TareaAviso : cola'[u] = cola[u]
    BY <1>1, <1>3, TareaT
  <2>2. QED
    BY <1>1, <1>2, <1>3, <2>1, ContarNeutro DEF EnAviso
<1>4. CASE t # Sftp
  <2>1. t \in TareaAviso /\ t.intento \in 0..MaxReintentos
    BY <1>4, TareaT DEF Tarea
  <2>2. cola' = [cola EXCEPT ![t] = @ + (-1)]
    BY <1>1
  <2>3. \A n \in Aviso : /\ MasIntentos(w, n) + (-1) * Resta(t, n) <= (MaxReintentos + 1) * MasFallos
                         /\ MasEnvios(w, n) + (-1) * Es(t.aviso = n) <= MasFallos
                         /\ MasAnotando(w, n, {"anotar"}) <= 0
                         /\ 0 <= MasAnotando(w, n, {"anotar"}) + MasFallos
                         /\ MasAnotando(w, n, {"anotar", "anotar_error"}) <= 0
                         /\ 0 <= MasAnotando(w, n, {"anotar", "anotar_error"}) + MasFallos
    <3> SUFFICES ASSUME NEW n \in Aviso
                 PROVE  /\ MasIntentos(w, n) - Resta(t, n) <= 0
                        /\ MasEnvios(w, n) - Es(t.aviso = n) <= 0
                        /\ MasAnotando(w, n, {"anotar"}) = 0
                        /\ MasAnotando(w, n, {"anotar", "anotar_error"}) = 0
                        /\ MasIntentos(w, n) \in Int /\ MasEnvios(w, n) \in Int
                        /\ Resta(t, n) \in Int /\ Es(t.aviso = n) \in Int
      BY <1>1
    <3>1. /\ IntentosDe(w, proc[w], n) = 0 /\ EnviosDe(w, proc[w], n) = 0
          /\ Es(Lleva(proc[w], n, {"anotar"})) = 0
          /\ Es(Lleva(proc[w], n, {"anotar", "anotar_error"})) = 0
      BY <1>1, PesoNulo DEF EnAviso
    <3>2. /\ IntentosDe(w, proc'[w], n) = Resta(t, n) /\ EnviosDe(w, proc'[w], n) = Es(t.aviso = n)
          /\ Es(Lleva(proc'[w], n, {"anotar"})) = 0
          /\ Es(Lleva(proc'[w], n, {"anotar", "anotar_error"})) = 0
      <4>1. proc'[w].en = "enviar" /\ proc'[w].tarea = t
        BY <1>2, <1>4
      <4>2. proc'[w].en \in EnAviso
        BY <4>1 DEF EnAviso
      <4>3. /\ IntentosDe(w, proc'[w], n)
                 = IF t.aviso # n THEN 0 ELSE MaxReintentos + 1 - t.intento
            /\ EnviosDe(w, proc'[w], n) = IF t.aviso = n THEN 1 ELSE 0
            /\ Es(Lleva(proc'[w], n, {"anotar"})) = 0
            /\ Es(Lleva(proc'[w], n, {"anotar", "anotar_error"})) = 0
        BY <4>1, <4>2, PesoAviso
      <4>4. QED
        BY <4>3 DEF Resta, Es
    <3>3. Resta(t, n) \in Int /\ Es(t.aviso = n) \in Int
      BY <2>1 DEF Resta, Es
    <3>4. QED
      BY <3>1, <3>2, <3>3 DEF MasIntentos, MasEnvios, MasAnotando
  <2>4. -1 \in Int /\ MasFallos \in {0, 1}
    BY <1>1
  <2>5. QED
    BY <1>1, <1>2, <2>1, <2>2, <2>3, <2>4, ConMensaje, Zenon
<1>5. QED
  BY <1>3, <1>4

\* A process that stops had at most a call without a row, and what it could still
\* come to is gone.
LEMMA PesoMorir ==
  ASSUME Inv, NEW w \in Worker, Cae(w)
  PROVE  /\ w \in Proceso /\ Solo(w) /\ UNCHANGED <<intentos, envios, filas>> /\ MasFallos = 1
         /\ \A n \in Aviso :
              /\ MasIntentos(w, n) <= 0 /\ MasEnvios(w, n) <= 0
              /\ MasIntentos(w, n) \in Int /\ MasEnvios(w, n) \in Int
              /\ MasAnotando(w, n, {"anotar"}) \in {0, -1}
              /\ MasAnotando(w, n, {"anotar", "anotar_error"}) \in {0, -1}
<1>1. w \in Proceso /\ w \notin Alta /\ UNCHANGED <<intentos, envios, filas>> /\ MasFallos = 1
  BY FallosT DEF Cae, Proceso
<1>2. Solo(w) /\ proc'[w].en = "libre"
  <2>1. proc' = [proc EXCEPT ![w] = Libre]
    BY DEF Cae
  <2>2. Solo(w) /\ proc'[w] = Libre
    BY <1>1, <2>1, UnCambio
  <2>3. QED
    BY <2>2 DEF Libre
<1>3. ASSUME NEW n \in Aviso
      PROVE  /\ MasIntentos(w, n) <= 0 /\ MasEnvios(w, n) <= 0
             /\ MasIntentos(w, n) \in Int /\ MasEnvios(w, n) \in Int
             /\ MasAnotando(w, n, {"anotar"}) \in {0, -1}
             /\ MasAnotando(w, n, {"anotar", "anotar_error"}) \in {0, -1}
  <2>1. IntentosDe(w, proc[w], n) \in Nat /\ EnviosDe(w, proc[w], n) \in Nat
    BY <1>1, PesosT
  <2>2. /\ IntentosDe(w, proc'[w], n) = 0 /\ EnviosDe(w, proc'[w], n) = 0
        /\ Es(Lleva(proc'[w], n, {"anotar"})) = 0
        /\ Es(Lleva(proc'[w], n, {"anotar", "anotar_error"})) = 0
    BY <1>1, <1>2, PesoNulo DEF EnAviso
  <2>3. /\ Es(Lleva(proc[w], n, {"anotar"})) \in {0, 1}
        /\ Es(Lleva(proc[w], n, {"anotar", "anotar_error"})) \in {0, 1}
    BY DEF Es
  <2>4. QED
    BY <2>1, <2>2, <2>3 DEF MasIntentos, MasEnvios, MasAnotando
<1>4. QED
  BY <1>1, <1>2, <1>3

LEMMA ContarMorirProceso ==
  ASSUME Inv, Inv', Contado, NEW w \in Worker, MorirProceso(w)
  PROVE  Contado'
<1>1. Cae(w) /\ cola' = cola
  BY DEF MorirProceso
<1>2. /\ w \in Proceso /\ Solo(w) /\ UNCHANGED <<intentos, envios, filas>> /\ MasFallos = 1
      /\ \A n \in Aviso : /\ MasIntentos(w, n) <= 0 /\ MasEnvios(w, n) <= 0
                          /\ MasAnotando(w, n, {"anotar"}) \in {0, -1}
                          /\ MasAnotando(w, n, {"anotar", "anotar_error"}) \in {0, -1}
  BY <1>1, PesoMorir
<1>3. \A n \in Aviso : /\ MasIntentos(w, n) <= 0 /\ MasEnvios(w, n) <= 0
                       /\ MasAnotando(w, n, {"anotar"}) <= 0
                       /\ 0 <= MasAnotando(w, n, {"anotar"}) + MasFallos
                       /\ MasAnotando(w, n, {"anotar", "anotar_error"}) <= 0
                       /\ 0 <= MasAnotando(w, n, {"anotar", "anotar_error"}) + MasFallos
  BY <1>2
<1>4. MasFallos \in {0, 1} /\ \A u \in TareaAviso : cola'[u] = cola[u]
  BY <1>1, <1>2
<1>5. QED
  BY <1>2, <1>3, <1>4, SoloProceso, Zenon

LEMMA ContarMorir ==
  ASSUME Inv, Inv', Contado, NEW w \in Worker, Morir(w)
  PROVE  Contado'
<1> DEFINE t == proc[w].tarea
<1>0. Cae(w)
  BY DEF Morir
<1>1. /\ w \in Proceso /\ t \in Tarea /\ cola \in [Tarea -> Nat]
      /\ UNCHANGED <<intentos, envios, filas>> /\ MasFallos = 1
      /\ cola' = [cola EXCEPT ![t] = @ + 1]
  BY <1>0, PesoMorir DEF Inv, Tipos, ProcT, Tablas, Morir, Reentrega, Encola
<1>2. Solo(w)
  BY <1>0, PesoMorir
<1>3. ASSUME NEW n \in Aviso
      PROVE  /\ MasIntentos(w, n) <= 0 /\ MasEnvios(w, n) <= 0
             /\ MasIntentos(w, n) \in Int /\ MasEnvios(w, n) \in Int
             /\ MasAnotando(w, n, {"anotar"}) \in {0, -1}
             /\ MasAnotando(w, n, {"anotar", "anotar_error"}) \in {0, -1}
  BY <1>0, PesoMorir
<1>4. CASE t = Sftp
  <2>1. \A u \in TareaAviso : cola'[u] = cola[u]
    BY <1>1, <1>4, TareaT
  <2>2. \A n \in Aviso : /\ MasIntentos(w, n) <= 0 /\ MasEnvios(w, n) <= 0
                         /\ MasAnotando(w, n, {"anotar"}) <= 0
                         /\ 0 <= MasAnotando(w, n, {"anotar"}) + MasFallos
                         /\ MasAnotando(w, n, {"anotar", "anotar_error"}) <= 0
                         /\ 0 <= MasAnotando(w, n, {"anotar", "anotar_error"}) + MasFallos
    BY <1>1, <1>3
  <2>3. MasFallos \in {0, 1}
    BY <1>1
  <2>4. QED
    BY <1>1, <1>2, <2>1, <2>2, <2>3, SoloProceso, Zenon
<1>5. CASE t # Sftp
  <2>1. t \in TareaAviso /\ t.intento \in 0..MaxReintentos
    BY <1>1, <1>5, TareaT DEF Tarea
  <2>2. ASSUME NEW n \in Aviso
        PROVE  /\ MasIntentos(w, n) + 1 * Resta(t, n) <= (MaxReintentos + 1) * MasFallos
               /\ MasEnvios(w, n) + 1 * Es(t.aviso = n) <= MasFallos
               /\ MasAnotando(w, n, {"anotar"}) <= 0
               /\ 0 <= MasAnotando(w, n, {"anotar"}) + MasFallos
               /\ MasAnotando(w, n, {"anotar", "anotar_error"}) <= 0
               /\ 0 <= MasAnotando(w, n, {"anotar", "anotar_error"}) + MasFallos
    <3>1. /\ Resta(t, n) \in Int /\ Resta(t, n) <= MaxReintentos + 1
          /\ Es(t.aviso = n) \in {0, 1}
      BY <2>1 DEF Resta, Es
    <3>2. QED
      BY <1>1, <1>3, <3>1
  <2>3. 1 \in Int /\ MasFallos \in {0, 1}
    BY <1>1
  <2>4. QED
    BY <1>1, <1>2, <2>1, <2>2, <2>3, ConMensaje, Zenon
<1>6. QED
  BY <1>4, <1>5

\* A message that is thrown away takes with it what it could still come to.
LEMMA ContarDescartar ==
  ASSUME Inv, Inv', Contado, NEW t \in TareaAviso, Descartar(t)
  PROVE  Contado'
<1>1. /\ cola' = [cola EXCEPT ![t] = @ + (-1)] /\ UNCHANGED <<proc, intentos, envios, filas, fallos>>
  BY TareaT DEF Descartar, Inv, Tablas
<1> SUFFICES ASSUME NEW n \in Aviso  PROVE ContadoDe(n)'
  BY DEF Contado
<1>2. /\ IntentosCola(n)' = IntentosCola(n) + (-1) * Resta(t, n)
      /\ EnviosCola(n)' = EnviosCola(n) + (-1) * Es(t.aviso = n)
  <2>1. -1 \in Int
    OBVIOUS
  <2> HIDE TareasOK
  <2>2. QED
    BY <1>1, <2>1, CambiaCola, Zenon
<1>3. Resta(t, n) \in Nat /\ Es(t.aviso = n) \in Nat
  BY PesosT
<1>4. /\ IntentosProc(n)' = IntentosProc(n) /\ EnviosProc(n)' = EnviosProc(n)
      /\ SinFila(n)' = SinFila(n) /\ Abiertas(n)' = Abiertas(n)
  BY <1>1 DEF IntentosProc, EnviosProc, IntentosDe, EnviosDe, PorEmpezar, Lleva, SinFila, Abiertas,
     Anotando, AvisoDe
<1>5. /\ ContadoDe(n)
      /\ IntentosProc(n) \in Nat /\ EnviosProc(n) \in Nat
      /\ IntentosCola(n) \in Nat /\ EnviosCola(n) \in Nat
      /\ intentos[n] \in Nat /\ envios[n] \in Nat /\ fallos \in Nat /\ Tope(fallos) \in Nat
  <2>1. intentos[n] \in Nat /\ envios[n] \in Nat /\ fallos \in Nat
    BY DEF Inv, Tablas
  <2>2. QED
    BY <2>1, SumasT, TopeT DEF Contado
<1>6. (intentos[n] + IntentosProc(n) + IntentosCola(n) <= Tope(fallos))'
  BY <1>1, <1>2, <1>3, <1>4, <1>5 DEF ContadoDe, Tope
<1>7. (envios[n] + EnviosProc(n) + EnviosCola(n) <= 1 + fallos)'
  BY <1>1, <1>2, <1>3, <1>4, <1>5 DEF ContadoDe
<1>8. QED
  BY <1>1, <1>4, <1>5, <1>6, <1>7 DEF ContadoDe

\* A step of no process.
LEMMA ContarIgual ==
  ASSUME Inv, Inv', Contado, UNCHANGED <<proc, intentos, envios, filas, fallos>>,
         \A t \in TareaAviso : cola'[t] = cola[t]
  PROVE  Contado'
<1> SUFFICES ASSUME NEW n \in Aviso  PROVE ContadoDe(n)'
  BY DEF Contado
<1>1. IntentosCola(n)' = IntentosCola(n) /\ EnviosCola(n)' = EnviosCola(n)
  BY MismaCola
<1>2. /\ IntentosProc(n)' = IntentosProc(n) /\ EnviosProc(n)' = EnviosProc(n)
      /\ SinFila(n)' = SinFila(n) /\ Abiertas(n)' = Abiertas(n)
  BY DEF IntentosProc, EnviosProc, IntentosDe, EnviosDe, PorEmpezar, Lleva, SinFila, Abiertas,
     Anotando, AvisoDe
<1>3. ContadoDe(n)
  BY DEF Contado
<1>4. QED
  BY <1>1, <1>2, <1>3 DEF ContadoDe, Tope

LEMMA ContarProgramar ==
  ASSUME Inv, Inv', Contado, Programar
  PROVE  Contado'
<1>1. /\ UNCHANGED <<proc, intentos, envios, filas, fallos>>
      /\ \A t \in TareaAviso : cola'[t] = cola[t]
  BY TareaT DEF Programar, Encola, Inv, Tablas, avisos, finales
<1>2. QED
  BY <1>1, ContarIgual

LEMMA ContarReintentar ==
  ASSUME Inv, Inv', Contado, NEW w \in Worker, Reintentar(w)
  PROVE  Contado'
<1> DEFINE t == proc[w].tarea
           u == Siguiente(t)
<1>1. /\ w \in Proceso /\ w \notin Alta /\ proc[w].en = "reintentar"
      /\ t \in TareaAviso /\ t.intento \in 0..MaxReintentos
      /\ UNCHANGED <<intentos, envios, filas>> /\ MasFallos \in {0, 1}
  BY AvisoT, TareaT, FallosT DEF Proceso, Reintentar, EnAviso
<1>2. Solo(w) /\ proc'[w].en = "confirmar"
  BY <1>1, IrT DEF Reintentar
<1>3. ASSUME NEW n \in Aviso
      PROVE  /\ MasIntentos(w, n) = IF t.aviso = n THEN -(MaxReintentos - t.intento) ELSE 0
             /\ MasEnvios(w, n) = IF t.aviso = n THEN -1 ELSE 0
             /\ MasAnotando(w, n, {"anotar"}) = 0
             /\ MasAnotando(w, n, {"anotar", "anotar_error"}) = 0
  <2>1. /\ IntentosDe(w, proc[w], n) = IF t.aviso = n THEN MaxReintentos - t.intento ELSE 0
        /\ EnviosDe(w, proc[w], n) = IF t.aviso = n THEN 1 ELSE 0
        /\ Es(Lleva(proc[w], n, {"anotar"})) = 0
        /\ Es(Lleva(proc[w], n, {"anotar", "anotar_error"})) = 0
    BY <1>1, PesoAviso DEF EnAviso
  <2>2. /\ IntentosDe(w, proc'[w], n) = 0 /\ EnviosDe(w, proc'[w], n) = 0
        /\ Es(Lleva(proc'[w], n, {"anotar"})) = 0
        /\ Es(Lleva(proc'[w], n, {"anotar", "anotar_error"})) = 0
    BY <1>1, <1>2, PesoNulo DEF EnAviso
  <2>3. QED
    BY <1>1, <2>1, <2>2 DEF MasIntentos, MasEnvios, MasAnotando
<1>4. CASE cola' = cola
  <2>1. \A n \in Aviso : MasIntentos(w, n) <= 0 /\ MasEnvios(w, n) <= 0
    BY <1>1, <1>3
  <2>2. QED
    BY <1>1, <1>2, <1>3, <1>4, <2>1, SoloProceso
<1>5. CASE t.intento < MaxReintentos /\ Encola(u) /\ fallos' = fallos
  <2>1. u \in TareaAviso /\ u.aviso = t.aviso /\ u.intento = t.intento + 1
    BY <1>1, <1>5 DEF Siguiente, TareaAviso
  <2>2. cola' = [cola EXCEPT ![u] = @ + 1] /\ MasFallos = 0
    BY <1>5, FallosT DEF Encola
  <2> HIDE DEF u
  <2>3. ASSUME NEW n \in Aviso
        PROVE  /\ MasIntentos(w, n) + 1 * Resta(u, n) <= (MaxReintentos + 1) * MasFallos
               /\ MasEnvios(w, n) + 1 * Es(u.aviso = n) <= MasFallos
               /\ MasAnotando(w, n, {"anotar"}) <= 0
               /\ 0 <= MasAnotando(w, n, {"anotar"}) + MasFallos
               /\ MasAnotando(w, n, {"anotar", "anotar_error"}) <= 0
               /\ 0 <= MasAnotando(w, n, {"anotar", "anotar_error"}) + MasFallos
    <3>1. /\ Resta(u, n) = IF t.aviso = n THEN MaxReintentos - t.intento ELSE 0
          /\ Es(u.aviso = n) = IF t.aviso = n THEN 1 ELSE 0
      BY <1>1, <2>1 DEF Resta, Es
    <3>2. QED
      BY <1>1, <1>3, <2>2, <3>1
  <2>4. 1 \in Int
    OBVIOUS
  <2>5. QED
    BY <1>1, <1>2, <2>1, <2>2, <2>3, <2>4, ConMensaje, Zenon
<1>6. QED
  BY <1>4, <1>5 DEF Reintentar
\* What send and _save leave of the process, for each notification.
LEMMA MasDe ==
  ASSUME Inv, NEW p \in Proceso, NEW n \in Aviso, proc[p].en \in EnAviso,
         proc'[p].tarea = proc[p].tarea,
         p \notin Alta \/ proc'[p].en \notin PorHacer
  PROVE  LET t == proc[p].tarea
             y == proc[p].en
             x == proc'[p].en
         IN IF t.aviso # n
            THEN /\ MasIntentos(p, n) = 0 /\ MasEnvios(p, n) = 0
                 /\ MasAnotando(p, n, {"anotar"}) = 0
                 /\ MasAnotando(p, n, {"anotar", "anotar_error"}) = 0
            ELSE /\ y = "enviar" /\ x \in {"anotar", "anotar_error"} =>
                      /\ MasIntentos(p, n) = -1 /\ MasAnotando(p, n, {"anotar", "anotar_error"}) = 1
                      /\ x = "anotar" => MasEnvios(p, n) = -1 /\ MasAnotando(p, n, {"anotar"}) = 1
                      /\ x # "anotar" => MasEnvios(p, n) = 0 /\ MasAnotando(p, n, {"anotar"}) = 0
                 /\ y = "anotar" /\ x \notin EnAviso =>
                      /\ MasIntentos(p, n) \in Int /\ MasIntentos(p, n) <= 0 /\ MasEnvios(p, n) = 0
                      /\ MasAnotando(p, n, {"anotar"}) = -1
                      /\ MasAnotando(p, n, {"anotar", "anotar_error"}) = -1
                 /\ y = "anotar" /\ x = "anotar_error" =>
                      /\ MasIntentos(p, n) = 0 /\ MasEnvios(p, n) = 1
                      /\ MasAnotando(p, n, {"anotar"}) = -1
                      /\ MasAnotando(p, n, {"anotar", "anotar_error"}) = 0
                 /\ y = "anotar_error" /\ (x \notin EnAviso \/ x = "reintentar") =>
                      /\ MasIntentos(p, n) \in Int /\ MasIntentos(p, n) <= 0
                      /\ MasEnvios(p, n) \in {0, -1}
                      /\ MasAnotando(p, n, {"anotar"}) = 0
                      /\ MasAnotando(p, n, {"anotar", "anotar_error"}) = -1
<1> DEFINE t == proc[p].tarea
           y == proc[p].en
           x == proc'[p].en
<1>1. t.intento \in 0..MaxReintentos
  BY AvisoT, TareaT
<1>2. /\ IntentosDe(p, proc[p], n) = IF t.aviso # n THEN 0
                                    ELSE IF y = "enviar" THEN MaxReintentos + 1 - t.intento
                                    ELSE MaxReintentos - t.intento
      /\ EnviosDe(p, proc[p], n) = IF t.aviso = n /\ y # "anotar" THEN 1 ELSE 0
      /\ Es(Lleva(proc[p], n, {"anotar"})) = IF t.aviso = n /\ y = "anotar" THEN 1 ELSE 0
      /\ Es(Lleva(proc[p], n, {"anotar", "anotar_error"}))
           = IF t.aviso = n /\ y \in {"anotar", "anotar_error"} THEN 1 ELSE 0
  BY PesoAviso
<1>3. CASE x \in EnAviso
  <2>1. /\ IntentosDe(p, proc'[p], n) = IF t.aviso # n THEN 0
                                    ELSE IF x = "enviar" THEN MaxReintentos + 1 - t.intento
                                    ELSE MaxReintentos - t.intento
        /\ EnviosDe(p, proc'[p], n) = IF t.aviso = n /\ x # "anotar" THEN 1 ELSE 0
        /\ Es(Lleva(proc'[p], n, {"anotar"})) = IF t.aviso = n /\ x = "anotar" THEN 1 ELSE 0
        /\ Es(Lleva(proc'[p], n, {"anotar", "anotar_error"}))
             = IF t.aviso = n /\ x \in {"anotar", "anotar_error"} THEN 1 ELSE 0
    BY <1>3, PesoAviso
  <2>2. CASE t.aviso # n
    <3>1. /\ IntentosDe(p, proc[p], n) = 0 /\ EnviosDe(p, proc[p], n) = 0
          /\ Es(Lleva(proc[p], n, {"anotar"})) = 0
          /\ Es(Lleva(proc[p], n, {"anotar", "anotar_error"})) = 0
      BY <1>2, <2>2
    <3>2. /\ IntentosDe(p, proc'[p], n) = 0 /\ EnviosDe(p, proc'[p], n) = 0
          /\ Es(Lleva(proc'[p], n, {"anotar"})) = 0
          /\ Es(Lleva(proc'[p], n, {"anotar", "anotar_error"})) = 0
      BY <2>1, <2>2
    <3>3. QED
      BY <2>2, <3>1, <3>2 DEF MasIntentos, MasEnvios, MasAnotando
  <2>3. CASE t.aviso = n
    <3>1. CASE y = "enviar"
      BY <1>1, <1>2, <2>1, <2>3, <3>1 DEF MasIntentos, MasEnvios, MasAnotando
    <3>2. CASE y = "anotar"
      BY <1>1, <1>2, <1>3, <2>1, <2>3, <3>2 DEF MasIntentos, MasEnvios, MasAnotando
    <3>3. CASE y = "anotar_error"
      BY <1>1, <1>2, <1>3, <2>1, <2>3, <3>3 DEF MasIntentos, MasEnvios, MasAnotando
    <3>4. CASE y \notin {"enviar", "anotar", "anotar_error"}
      BY <2>3, <3>4
    <3>5. QED
      BY <3>1, <3>2, <3>3, <3>4
  <2>4. QED
    BY <2>2, <2>3
<1>4. CASE x \notin EnAviso
  <2>1. /\ IntentosDe(p, proc'[p], n) = 0 /\ EnviosDe(p, proc'[p], n) = 0
        /\ Es(Lleva(proc'[p], n, {"anotar"})) = 0
        /\ Es(Lleva(proc'[p], n, {"anotar", "anotar_error"})) = 0
    BY <1>4, PesoNulo
  <2>2. x \notin {"anotar", "anotar_error", "reintentar"}
    BY <1>4 DEF EnAviso
  <2>3. CASE t.aviso # n
    <3>1. /\ IntentosDe(p, proc[p], n) = 0 /\ EnviosDe(p, proc[p], n) = 0
          /\ Es(Lleva(proc[p], n, {"anotar"})) = 0
          /\ Es(Lleva(proc[p], n, {"anotar", "anotar_error"})) = 0
      BY <1>2, <2>3
    <3>2. QED
      BY <2>1, <2>3, <3>1 DEF MasIntentos, MasEnvios, MasAnotando
  <2>4. CASE t.aviso = n
    <3>1. CASE y = "anotar"
      BY <1>1, <1>2, <2>1, <2>2, <2>4, <3>1 DEF MasIntentos, MasEnvios, MasAnotando
    <3>2. CASE y = "anotar_error"
      BY <1>1, <1>2, <2>1, <2>2, <2>4, <3>2 DEF MasIntentos, MasEnvios, MasAnotando
    <3>3. CASE y \notin {"anotar", "anotar_error"}
      BY <2>2, <2>4, <3>3
    <3>4. QED
      BY <3>1, <3>2, <3>3
  <2>5. QED
    BY <2>3, <2>4
<1>5. QED
  BY <1>3, <1>4
LEMMA ContarSend ==
  ASSUME Inv, Inv', Contado, NEW p \in Proceso, send(p)
  PROVE  Contado'
<1> DEFINE m == AvisoDe(p)
<1>1. /\ m \in Aviso /\ m = proc[p].tarea.aviso /\ proc[p].en = "enviar" /\ proc[p].en \in EnAviso
      /\ cola' = cola /\ filas' = filas /\ MasFallos = 0
      /\ intentos' = [intentos EXCEPT ![m] = @ + 1]
  BY AvisoT, FallosT DEF send, EnAviso, AvisoDe
<1>2. /\ Solo(p) /\ proc'[p].tarea = proc[p].tarea
      /\ \/ envios' = [envios EXCEPT ![m] = @ + 1] /\ proc'[p].en = "anotar"
         \/ envios' = envios /\ proc'[p].en = "anotar_error"
  BY IrT DEF send
<1> SUFFICES ASSUME NEW n \in Aviso  PROVE ContadoDe(n)'
  BY DEF Contado
<1>3. MasIntentosCola(n) = 0 /\ MasEnviosCola(n) = 0
  BY <1>1, MismaCola, SumasT DEF MasIntentosCola, MasEnviosCola
<1>4. /\ filas[n].enviado \in Int /\ filas[n].error \in Int /\ intentos \in [Aviso -> Nat]
      /\ envios \in [Aviso -> Nat]
  BY DEF Inv, Tablas
<1>5. MasEnviado(n) = 0 /\ MasError(n) = 0
  BY <1>1, <1>4 DEF MasEnviado, MasError
<1>6. /\ MasLlamadas(n) = IF n = m THEN 1 ELSE 0
      /\ MasTomados(n) = IF n = m /\ proc'[p].en = "anotar" THEN 1 ELSE 0
  <2>1. /\ intentos'[n] = IF n = m THEN intentos[n] + 1 ELSE intentos[n]
        /\ envios'[n] = IF n = m /\ proc'[p].en = "anotar" THEN envios[n] + 1 ELSE envios[n]
    BY <1>1, <1>2, <1>4
  <2>2. intentos[n] \in Int /\ envios[n] \in Int
    BY <1>4
  <2>3. QED
    BY <2>1, <2>2 DEF MasLlamadas, MasTomados
<1>7. BalanceDe(p, n)
  <2>1. proc'[p].en \notin PorHacer
    BY <1>2 DEF PorHacer
  <2>2. CASE n # m
    BY <1>1, <1>2, <1>3, <1>5, <1>6, <2>1, <2>2, MasDe DEF BalanceDe
  <2>3. CASE n = m
    BY <1>1, <1>2, <1>3, <1>5, <1>6, <2>1, <2>3, MasDe DEF BalanceDe
  <2>4. QED
    BY <2>2, <2>3
<1>8. QED
  BY <1>1, <1>2, <1>7, Balance

\* A row of n: what FilaCon adds.
LEMMA FilaConMas ==
  ASSUME Inv, Inv', NEW m \in Aviso, NEW estado \in {"enviado", "error"}, NEW n \in Aviso
  PROVE  /\ FilaCon(m, estado) =>
              /\ MasEnviado(n) = IF n = m /\ estado = "enviado" THEN 1 ELSE 0
              /\ MasError(n) = IF n = m /\ estado = "error" THEN 1 ELSE 0
         /\ filas' = filas => MasEnviado(n) = 0 /\ MasError(n) = 0
<1>1. filas \in [Aviso -> [enviado: Nat, error: Nat]] /\ filas[n].enviado \in Int /\ filas[n].error \in Int
  <2>1. filas \in [Aviso -> [enviado: Nat, error: Nat]]
    BY DEF Inv, Tablas
  <2>2. filas[n] \in [enviado: Nat, error: Nat]
    BY <2>1
  <2>3. QED
    BY <2>1, <2>2
<1>2. ASSUME FilaCon(m, estado)
      PROVE  /\ filas'[n].enviado = filas[n].enviado + (IF n = m /\ estado = "enviado" THEN 1 ELSE 0)
             /\ filas'[n].error = filas[n].error + (IF n = m /\ estado = "error" THEN 1 ELSE 0)
  <2>1. filas' = [filas EXCEPT ![m] = [filas[m] EXCEPT ![estado] = @ + 1]]
    BY <1>2 DEF FilaCon
  <2>2. CASE n # m
    BY <1>1, <2>1, <2>2
  <2>3. CASE n = m
    BY <1>1, <2>1, <2>3
  <2>4. QED
    BY <2>2, <2>3
<1>3. QED
  BY <1>1, <1>2 DEF MasEnviado, MasError

LEMMA ContarSaveEnviado ==
  ASSUME Inv, Inv', Contado, NEW p \in Proceso, save_enviado(p)
  PROVE  Contado'
<1> DEFINE m == AvisoDe(p)
<1>1. /\ m \in Aviso /\ m = proc[p].tarea.aviso /\ proc[p].en = "anotar" /\ proc[p].en \in EnAviso
      /\ cola' = cola /\ UNCHANGED <<intentos, envios>>
  BY AvisoT DEF save_enviado, EnAviso, AvisoDe
<1>2. /\ Solo(p) /\ proc'[p].tarea = proc[p].tarea
      /\ \/ FilaCon(m, "enviado") /\ MasFallos = 0 /\ proc'[p].en \in {"confirmar", "hecha"}
         \/ filas' = filas /\ MasFallos = 1 /\ proc'[p].en = "anotar_error"
  BY IrT, FallosT DEF save_enviado
<1> SUFFICES ASSUME NEW n \in Aviso  PROVE ContadoDe(n)'
  BY DEF Contado
<1>3. MasIntentosCola(n) = 0 /\ MasEnviosCola(n) = 0
  BY <1>1, MismaCola, SumasT DEF MasIntentosCola, MasEnviosCola
<1>4. MasLlamadas(n) = 0 /\ MasTomados(n) = 0
  BY <1>1 DEF Inv, Tablas, MasLlamadas, MasTomados
<1>5. CASE FilaCon(m, "enviado") /\ MasFallos = 0 /\ proc'[p].en \in {"confirmar", "hecha"}
  <2>1. MasEnviado(n) = (IF n = m THEN 1 ELSE 0) /\ MasError(n) = 0
    BY <1>1, <1>5, FilaConMas
  <2>2. proc'[p].en \notin EnAviso /\ proc'[p].en \notin PorHacer
    BY <1>5 DEF EnAviso, PorHacer
  <2>3. BalanceDe(p, n)
    <3>1. CASE n # m
      BY <1>1, <1>2, <1>3, <1>4, <1>5, <2>1, <2>2, <3>1, MasDe DEF BalanceDe
    <3>2. CASE n = m
      BY <1>1, <1>2, <1>3, <1>4, <1>5, <2>1, <2>2, <3>2, MasDe DEF BalanceDe
    <3>3. QED
      BY <3>1, <3>2
  <2>4. QED
    BY <1>2, <1>5, <2>3, Balance
<1>6. CASE filas' = filas /\ MasFallos = 1 /\ proc'[p].en = "anotar_error"
  <2>1. MasEnviado(n) = 0 /\ MasError(n) = 0
    BY <1>1, <1>6, FilaConMas
  <2>2. proc'[p].en \notin PorHacer
    BY <1>6 DEF PorHacer
  <2>3. BalanceDe(p, n)
    <3>1. CASE n # m
      BY <1>1, <1>2, <1>3, <1>4, <1>6, <2>1, <2>2, <3>1, MasDe DEF BalanceDe
    <3>2. CASE n = m
      BY <1>1, <1>2, <1>3, <1>4, <1>6, <2>1, <2>2, <3>2, MasDe DEF BalanceDe
    <3>3. QED
      BY <3>1, <3>2
  <2>4. QED
    BY <1>2, <1>6, <2>3, Balance
<1>7. QED
  BY <1>2, <1>5, <1>6

LEMMA ContarSaveError ==
  ASSUME Inv, Inv', Contado, NEW p \in Proceso, save_error(p)
  PROVE  Contado'
<1> DEFINE m == AvisoDe(p)
<1>1. /\ m \in Aviso /\ m = proc[p].tarea.aviso /\ proc[p].en = "anotar_error"
      /\ proc[p].en \in EnAviso /\ cola' = cola /\ UNCHANGED <<intentos, envios>>
  BY AvisoT DEF save_error, EnAviso, AvisoDe
<1>2. /\ Solo(p) /\ proc'[p].tarea = proc[p].tarea /\ proc'[p].en \in {"reintentar", "error"}
      /\ \/ FilaCon(m, "error") /\ MasFallos = 0
         \/ filas' = filas /\ MasFallos = 1
  BY IrT, FallosT DEF save_error
<1> SUFFICES ASSUME NEW n \in Aviso  PROVE ContadoDe(n)'
  BY DEF Contado
<1>3. MasIntentosCola(n) = 0 /\ MasEnviosCola(n) = 0
  BY <1>1, MismaCola, SumasT DEF MasIntentosCola, MasEnviosCola
<1>4. MasLlamadas(n) = 0 /\ MasTomados(n) = 0
  BY <1>1 DEF Inv, Tablas, MasLlamadas, MasTomados
<1>5. MasEnviado(n) = 0 /\ MasError(n) = IF n = m THEN 1 - MasFallos ELSE 0
  BY <1>1, <1>2, FilaConMas
<1>6. proc'[p].en \notin PorHacer /\ (proc'[p].en \notin EnAviso \/ proc'[p].en = "reintentar")
  BY <1>2 DEF EnAviso, PorHacer
<1>7. BalanceDe(p, n)
  <2>1. CASE n # m
    BY <1>1, <1>2, <1>3, <1>4, <1>5, <1>6, <2>1, MasDe DEF BalanceDe
  <2>2. CASE n = m
    <3>1. CASE MasFallos = 0
      BY <1>1, <1>2, <1>3, <1>4, <1>5, <1>6, <2>2, <3>1, MasDe DEF BalanceDe
    <3>2. CASE MasFallos = 1
      BY <1>1, <1>2, <1>3, <1>4, <1>5, <1>6, <2>2, <3>2, MasDe DEF BalanceDe
    <3>3. QED
      BY <1>2, <3>1, <3>2
  <2>3. QED
    BY <2>1, <2>2
<1>8. QED
  BY <1>2, <1>7, Balance

\* The steps of a worker that has no notification in hand.
LEMMA ContarOtros ==
  ASSUME Inv, Inv', Contado, NEW w \in Worker,
         Confirmar(w) \/ Mirar(w) \/ Importar(w) \/ Registrar(w)
  PROVE  Contado'
<1>1. /\ w \in Proceso /\ UNCHANGED <<cola, intentos, envios, filas>> /\ MasFallos \in {0, 1}
      /\ proc[w].en \in {"confirmar", "mirar", "importar"}
  BY FallosT DEF Confirmar, Mirar, Importar, Registrar, Proceso, avisos, finales
<1>2. /\ Solo(w) /\ proc'[w].en \in {"libre", "confirmar", "mirar", "importar"}
  <2>1. proc[w] \in ProcT /\ proc \in [Proceso -> ProcT]
    BY <1>1 DEF Inv, Tipos
  <2>2. CASE Confirmar(w)
    BY <1>1, <2>1, <2>2 DEF Confirmar, Libre, Solo
  <2>3. CASE Mirar(w)
    BY <1>1, <2>1, <2>3 DEF Mirar, Solo, ProcT
  <2>4. CASE Importar(w)
    <3>1. \/ proc' = [proc EXCEPT ![w].j = @ + 1]
          \/ proc' = [proc EXCEPT ![w] = ItemFallido(proc[w])]
      BY <2>4 DEF Importar
    <3>2. proc[w].en = "importar"
      BY <2>4 DEF Importar
    <3>3. ItemFallido(proc[w]).en = "importar" /\ [proc[w] EXCEPT !.j = @ + 1].en = "importar"
      BY <2>1, <3>2 DEF ItemFallido, ProcT
    <3>4. proc' = [proc EXCEPT ![w] = [proc[w] EXCEPT !.j = @ + 1]]
          \/ proc' = [proc EXCEPT ![w] = ItemFallido(proc[w])]
      BY <3>1
    <3>5. \E x : proc' = [proc EXCEPT ![w] = x] /\ x.en = "importar"
      BY <3>3, <3>4
    <3>6. QED
      BY <1>1, <3>5, UnCambio
  <2>5. CASE Registrar(w)
    <3> DEFINE y == [proc[w] EXCEPT !.en = "mirar", !.k = @ + 1]
    <3>1. proc' = [proc EXCEPT ![w] = y] \/ proc' = [proc EXCEPT ![w] = [y EXCEPT !.rota = TRUE]]
      BY <2>5 DEF Registrar
    <3>2. y.en = "mirar" /\ [y EXCEPT !.rota = TRUE].en = "mirar"
      BY <2>1 DEF ProcT
    <3> HIDE DEF y
    <3>3. QED
      BY <1>1, <2>1, <3>1, <3>2 DEF Solo
  <2>6. QED
    BY <2>2, <2>3, <2>4, <2>5
<1>3. QED
  BY <1>1, <1>2, ContarNeutro DEF EnAviso

LEMMA Contados == Spec => []Contado
<1>1. Inv /\ Inv' /\ Contado /\ [Next]_vars => Contado'
  <2> SUFFICES ASSUME Inv, Inv', Contado, [Next]_vars  PROVE Contado'
    OBVIOUS
  <2>1. ASSUME NEW a \in Alta, Crear(a) \/ PasoAlta(a) \/ MorirAlta(a)  PROVE Contado'
    BY <2>1, ContarCrear, ContarEncolar, ContarSend, ContarSaveEnviado, ContarSaveError,
       ContarMorirAlta DEF PasoAlta, Avisar, Proceso
  <2>2. ASSUME NEW w \in Worker, (\E t \in Tarea : Tomar(w, t)) \/ PasoWorker(w) \/ Morir(w)
                            \/ MorirProceso(w)
        PROVE  Contado'
    BY <2>2, ContarTomar, ContarMorir, ContarSend, ContarSaveEnviado, ContarSaveError,
       ContarMorirProceso, ContarReintentar, ContarOtros DEF PasoWorker, Avisar, Proceso
  <2>3. CASE UNCHANGED vars
    BY <2>3, ContarIgual DEF vars, avisos, finales
  <2>4. QED
    BY <2>1, <2>2, <2>3, ContarProgramar, ContarDescartar DEF Next
<1>2. QED
  BY <1>1, InicioContado, Invariante, PTL DEF Spec

\* The table of what was sent can be believed: however often a task is retried
\* or handed out again, every row stands for a call, every "enviado" for a
\* message that SendGrid took, and each call without a row and each message
\* sent twice has a failure of its own.
THEOREM AvisosSeCuentan == Spec => []AvisosContados
<1>1. Inv /\ Contado => AvisosContados
  BY DaContados
<1>2. QED
  BY <1>1, Invariante, Contados, PTL

\* A notification is tried max_retries times more at most, and once more from
\* the start for each failure: what the messages at the broker and the
\* processes can still come to is part of the count.
THEOREM IntentosSeAcotan == Spec => []IntentosAcotados
<1>1. Inv /\ Contado => IntentosAcotados
  BY DaContados
<1>2. QED
  BY <1>1, Invariante, Contados, PTL
=============================================================================
