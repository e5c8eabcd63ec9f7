---------------------------- MODULE CuentasProofs ---------------------------
(***************************************************************************)
(* Safety of the accounts for any users, requests, tokens and bounds: the  *)
(* types, the revocation of sessions, the lock of an account, what can be  *)
(* used once, and what a cancellation leaves.                              *)
(***************************************************************************)
EXTENDS Cuentas, FiniteSetTheorems, TLAPS

-----------------------------------------------------------------------------
(* The basis of the other invariants: types, and whose a request is.       *)

En == {"libre", "autenticar", "sesion", "leer", "revocar", "negar", "commit", "emitir", "canjear"}
PetT == [en: En, tipo: Tipo, u: Usuario \cup {0}, j: Jti \cup {0}, n: Numero, num: Numero,
         leido: Fila, nueva: Fila, faltan: SUBSET Jti, tarde: BOOLEAN]

\* The tokens are numbered without gaps and live for at most Vida from now;
\* what was registered at a change of password still is.
Tokens ==
  /\ \E k \in 0..MaxTokens : DOMAIN token = 1..k
  /\ \A j \in DOMAIN token : token[j].exp <= ahora + Vida
  /\ \A c \in DOMAIN codigo : codigo[c] \in Usuario
  /\ DOMAIN antes = Usuario
  /\ \A u \in Usuario : antes[u] \subseteq sesiones[u]

\* A request has a user and a number of its own, and only some kinds write.
PetOK(r) ==
  pet[r].en # "libre" =>
    /\ pet[r].u \in Usuario /\ pet[r].num \in 1..pedidas
    /\ pet[r].en \in {"commit", "revocar", "negar", "emitir"} => pet[r].tipo \in Escribe
    /\ pet[r].en = "canjear" => pet[r].tipo = "canjear"
    /\ pet[r].en = "emitir" => pet[r].tipo = "login"
    /\ pet[r].en = "negar" => pet[r].faltan \subseteq DOMAIN token
    /\ pet[r].en = "autenticar" => pet[r].tipo \in ConToken
Unicas == \A r, s \in Peticion :
  pet[r].en # "libre" /\ pet[s].en # "libre" /\ pet[r].num = pet[s].num => r = s
Peticiones == pet \in [Peticion -> PetT] /\ (\A r \in Peticion : PetOK(r)) /\ Unicas

Base == TypeOK /\ Tokens /\ Peticiones

-----------------------------------------------------------------------------
(* Records.                                                                *)

Campo == {"activo", "clave", "intentos", "hasta", "reset", "resetHasta", "usado", "correo",
          "nombre", "rfc"}

\* The times and bounds.
LEMMA Tiempos ==
  /\ MaxIntentos \in Nat \ {0} /\ Segundo \in Nat \ {0} /\ Vida \in Nat \ {0} /\ TtlCierre \in Nat
  /\ Bloqueo \in Nat \ {0}
  /\ Vida + Segundo <= TtlCierre /\ MaxReloj \in Nat /\ MaxPeticiones \in Nat
BY CuentasOK

LEMMA NuevaT == Nueva \in Fila /\ [Nueva EXCEPT !.rfc = "nulo"] \in Fila
<1>1. 0 \in Nat /\ 0 \in Numero /\ 0 \in 0..(MaxReloj + Bloqueo) /\ 0 \in 0..(MaxReloj + TtlCierre)
  BY Tiempos DEF Numero
<1>2. Nueva \in Fila
  BY <1>1 DEF Nueva, Fila
<1>3. \A f \in Fila : [f EXCEPT !.rfc = "nulo"] \in Fila
  BY DEF Fila
<1>4. QED
  BY <1>2, <1>3

LEMMA LibreT == Libre \in PetT /\ Libre.en = "libre"
BY NuevaT, CuentasOK DEF Libre, PetT, En, Tipo, ConToken, EscribeBloqueo, Numero

LEMMA UpdateT ==
  ASSUME NEW f \in Fila, NEW p, p.leido \in Fila, p.nueva \in Fila
  PROVE  /\ Update(f, p) \in Fila
         /\ \A c \in Campo : Update(f, p)[c] = IF p.nueva[c] # p.leido[c] THEN p.nueva[c] ELSE f[c]
<1>1. DOMAIN f = Campo
  BY DEF Fila, Campo
<1> DEFINE g == [c \in Campo |-> IF p.nueva[c] # p.leido[c] THEN p.nueva[c] ELSE f[c]]
<1>2. Update(f, p) = g
  BY <1>1 DEF Update
<1>3. g \in Fila
  <2>1. /\ g.activo \in {p.nueva.activo, f.activo} /\ g.clave \in {p.nueva.clave, f.clave}
        /\ g.intentos \in {p.nueva.intentos, f.intentos} /\ g.hasta \in {p.nueva.hasta, f.hasta}
        /\ g.reset \in {p.nueva.reset, f.reset}
        /\ g.resetHasta \in {p.nueva.resetHasta, f.resetHasta}
        /\ g.usado \in {p.nueva.usado, f.usado} /\ g.correo \in {p.nueva.correo, f.correo}
        /\ g.nombre \in {p.nueva.nombre, f.nombre} /\ g.rfc \in {p.nueva.rfc, f.rfc}
    BY DEF Campo
  <2>2. g = [activo |-> g.activo, clave |-> g.clave, intentos |-> g.intentos, hasta |-> g.hasta,
             reset |-> g.reset, resetHasta |-> g.resetHasta, usado |-> g.usado,
             correo |-> g.correo, nombre |-> g.nombre, rfc |-> g.rfc]
    BY DEF Campo
  <2> HIDE DEF g
  <2>3. QED
    BY <2>1, <2>2 DEF Fila
<1>4. QED
  BY <1>2, <1>3

\* What a step of a request may make of it, the kind and the numbers it came
\* with being the same.
Sucesor(p, q) ==
  /\ q \in PetT /\ q.tipo = p.tipo /\ q.n = p.n /\ q.num = p.num /\ q.tarde = p.tarde
  /\ q.u = p.u \/ (q.en = "canjear" /\ q.u \in Usuario)
Igual(p, q) == q.nueva = p.nueva /\ q.leido = p.leido /\ q.j = p.j /\ q.faltan = p.faltan

\* A request goes to another place.
LEMMA IrT ==
  ASSUME NEW p \in PetT, NEW en \in En
  PROVE  LET q == [p EXCEPT !.en = en] IN Sucesor(p, q) /\ Igual(p, q) /\ q.en = en
BY DEF PetT, Sucesor, Igual

LEMMA IrLeido ==
  ASSUME NEW p \in PetT, NEW en \in En, NEW f \in Fila,
         NEW q, q = [p EXCEPT !.en = en, !.leido = f]
  PROVE  Sucesor(p, q) /\ q.nueva = p.nueva /\ q.leido = f /\ q.en = en
BY DEF PetT, Sucesor

LEMMA IrJti ==
  ASSUME NEW p \in PetT, NEW en \in En, NEW j \in Jti
  PROVE  LET q == [p EXCEPT !.en = en, !.j = j] IN
         Sucesor(p, q) /\ q.nueva = p.nueva /\ q.leido = p.leido /\ q.en = en
BY DEF PetT, Sucesor

LEMMA IrFaltan ==
  ASSUME NEW p \in PetT, NEW en \in En, NEW S \in SUBSET Jti,
         NEW q, q = [p EXCEPT !.en = en, !.faltan = S]
  PROVE  Sucesor(p, q) /\ q.nueva = p.nueva /\ q.leido = p.leido /\ q.en = en /\ q.faltan = S
BY DEF PetT, Sucesor

LEMMA QuitarFaltan ==
  ASSUME NEW p \in PetT, NEW j
  PROVE  LET q == [p EXCEPT !.faltan = @ \ {j}] IN
         Sucesor(p, q) /\ q.nueva = p.nueva /\ q.leido = p.leido /\ q.en = p.en
         /\ q.faltan = p.faltan \ {j}
BY DEF PetT, Sucesor

LEMMA IrCommit ==
  ASSUME NEW p \in PetT, NEW f \in Fila, NEW g \in Fila,
         NEW q, q = [p EXCEPT !.en = "commit", !.leido = f, !.nueva = g]
  PROVE  Sucesor(p, q) /\ q.nueva = g /\ q.leido = f /\ q.en = "commit"
BY DEF PetT, Sucesor, En

LEMMA IrNueva ==
  ASSUME NEW p \in PetT, NEW g \in Fila
  PROVE  LET q == [p EXCEPT !.en = "commit", !.nueva = g] IN
         Sucesor(p, q) /\ q.nueva = g /\ q.leido = p.leido /\ q.en = "commit"
BY DEF PetT, Sucesor, En

LEMMA IrUsuario ==
  ASSUME NEW p \in PetT, NEW u \in Usuario
  PROVE  LET q == [p EXCEPT !.en = "canjear", !.u = u] IN
         Sucesor(p, q) /\ q.nueva = p.nueva /\ q.leido = p.leido /\ q.en = "canjear" /\ q.u = u
BY DEF PetT, Sucesor, En

RfcAnonimo(f) == IF f.rfc = "nulo" THEN "nulo" ELSE "anon"

\* What each kind of request writes, column by column.
LEMMA DejaT ==
  ASSUME NEW p \in PetT, NEW f \in Fila, ahora \in 0..MaxReloj, p.tipo # "rectificar"
  PROVE  /\ Deja(p, f) \in Fila
         /\ Deja(p, f).activo = IF p.tipo \in {"cancelar", "retener"} THEN FALSE ELSE f.activo
         /\ Deja(p, f).correo = IF p.tipo \in {"cancelar", "retener"} THEN "anon" ELSE f.correo
         /\ Deja(p, f).nombre = IF p.tipo \in {"cancelar", "retener"} THEN "anon" ELSE f.nombre
         /\ Deja(p, f).rfc = IF p.tipo \in {"cancelar", "retener"} THEN RfcAnonimo(f) ELSE f.rfc
         /\ Deja(p, f).reset = IF p.tipo = "olvido" THEN p.num
                               ELSE IF p.tipo \in {"reset", "cancelar"} THEN 0 ELSE f.reset
         /\ p.tipo \in {"reset", "cancelar"} \/ (p.tipo = "login" /\ p.n = f.clave) =>
              Deja(p, f).intentos = 0 /\ Deja(p, f).hasta = 0
         /\ p.tipo = "login" /\ p.n # f.clave =>
              /\ Deja(p, f).intentos = f.intentos + 1
              /\ Deja(p, f).hasta = IF f.intentos + 1 >= MaxIntentos THEN ahora + Bloqueo ELSE f.hasta
         /\ p.tipo \notin EscribeBloqueo =>
              Deja(p, f).intentos = f.intentos /\ Deja(p, f).hasta = f.hasta
<1>1. ahora + Bloqueo \in 0..(MaxReloj + Bloqueo) /\ ahora + TtlCierre \in 0..(MaxReloj + TtlCierre)
  BY CuentasOK
<1>2. f.intentos + 1 \in Nat /\ 0 \in Numero /\ 0 \in 0..(MaxReloj + Bloqueo)
      /\ 0 \in 0..(MaxReloj + TtlCierre) /\ p.num \in Numero
  <2>1. f.intentos \in Nat
    BY DEF Fila
  <2>2. p.num \in Numero
    BY DEF PetT
  <2>3. QED
    BY <2>1, <2>2, CuentasOK DEF Numero
<1>3. CASE p.tipo = "login" /\ p.n = f.clave
  <2>1. Deja(p, f) = [f EXCEPT !.intentos = 0, !.hasta = 0]
    BY <1>3 DEF Deja, reset_failed_login_attempts
  <2>2. LET g == [f EXCEPT !.intentos = 0, !.hasta = 0] IN
        /\ g \in Fila /\ g.intentos = 0 /\ g.hasta = 0 /\ g.activo = f.activo
        /\ g.correo = f.correo /\ g.nombre = f.nombre /\ g.rfc = f.rfc /\ g.reset = f.reset
    BY <1>2 DEF Fila
  <2>3. QED
    BY <1>3, <2>1, <2>2 DEF EscribeBloqueo
<1>4. CASE p.tipo = "login" /\ p.n # f.clave
  <2> DEFINE h == IF f.intentos + 1 >= MaxIntentos THEN ahora + Bloqueo ELSE f.hasta
             g == [f EXCEPT !.intentos = f.intentos + 1, !.hasta = h]
  <2>1. Deja(p, f) = g
    BY <1>4 DEF Deja, register_failed_login, Fila
  <2>2. h \in 0..(MaxReloj + Bloqueo)
    BY <1>1 DEF Fila
  <2>3. /\ g \in Fila /\ g.intentos = f.intentos + 1 /\ g.hasta = h /\ g.activo = f.activo
        /\ g.correo = f.correo /\ g.nombre = f.nombre /\ g.rfc = f.rfc /\ g.reset = f.reset
    <3> HIDE DEF h
    <3>1. QED
      BY <1>2, <2>2 DEF Fila
  <2> HIDE DEF g
  <2>4. QED
    BY <1>4, <2>1, <2>3 DEF EscribeBloqueo, Fila
<1>5. CASE p.tipo = "cambiar"
  <2>1. Deja(p, f) = [f EXCEPT !.clave = p.num]
    BY <1>5 DEF Deja
  <2>2. QED
    BY <1>2, <1>5, <2>1 DEF Fila, EscribeBloqueo
<1>6. CASE p.tipo = "reset"
  <2>1. Deja(p, f) = [f EXCEPT !.clave = p.num, !.usado = TRUE, !.reset = 0, !.resetHasta = 0,
                               !.intentos = 0, !.hasta = 0]
    BY <1>6 DEF Deja, reset_password
  <2>2. ASSUME NEW k \in Numero
        PROVE  LET g == [f EXCEPT !.clave = k, !.usado = TRUE, !.reset = 0, !.resetHasta = 0,
                                  !.intentos = 0, !.hasta = 0] IN
               /\ g \in Fila /\ g.intentos = 0 /\ g.hasta = 0 /\ g.activo = f.activo
               /\ g.correo = f.correo /\ g.nombre = f.nombre /\ g.rfc = f.rfc /\ g.reset = 0
    BY <1>2 DEF Fila
  <2>3. QED
    BY <1>2, <1>6, <2>1, <2>2, ZenonT(40) DEF EscribeBloqueo
<1>7. CASE p.tipo = "olvido"
  <2>1. Deja(p, f) = [f EXCEPT !.reset = p.num, !.resetHasta = ahora + TtlCierre, !.usado = FALSE]
    BY <1>7 DEF Deja, forgot_password
  <2>2. QED
    BY <1>1, <1>2, <1>7, <2>1 DEF Fila, EscribeBloqueo
<1>8. CASE p.tipo \in {"cancelar", "retener"}
  <2> DEFINE a == [f EXCEPT !.correo = "anon", !.nombre = "anon", !.activo = FALSE,
                            !.rfc = RfcAnonimo(f)]
  <2>1. /\ a \in Fila /\ a.activo = FALSE /\ a.correo = "anon" /\ a.nombre = "anon"
        /\ a.rfc = RfcAnonimo(f) /\ a.reset = f.reset /\ a.intentos = f.intentos /\ a.hasta = f.hasta
    BY DEF Fila, RfcAnonimo
  <2>2. CASE p.tipo = "retener"
    BY <2>1, <2>2 DEF Deja, Anonimizar, RfcAnonimo, EscribeBloqueo
  <2>3. CASE p.tipo = "cancelar"
    <3>1. Deja(p, f) = [a EXCEPT !.intentos = 0, !.hasta = 0, !.reset = 0, !.resetHasta = 0,
                                 !.usado = FALSE]
      BY <2>3 DEF Deja, cancelar_usuario, Anonimizar, RfcAnonimo
    <3>2. ASSUME NEW b \in Fila
          PROVE  LET g == [b EXCEPT !.intentos = 0, !.hasta = 0, !.reset = 0, !.resetHasta = 0,
                                    !.usado = FALSE] IN
                 /\ g \in Fila /\ g.intentos = 0 /\ g.hasta = 0 /\ g.activo = b.activo
                 /\ g.correo = b.correo /\ g.nombre = b.nombre /\ g.rfc = b.rfc /\ g.reset = 0
      BY <1>2 DEF Fila
    <3> HIDE DEF a
    <3>3. QED
      BY <2>1, <2>3, <3>1, <3>2 DEF EscribeBloqueo
  <2>4. QED
    BY <1>8, <2>2, <2>3
<1>9. CASE p.tipo \notin {"login", "cambiar", "reset", "olvido", "cancelar", "retener"}
  <2>1. Deja(p, f) = f
    BY <1>9 DEF Deja
  <2>2. QED
    BY <1>9, <2>1 DEF Fila, EscribeBloqueo
<1>10. QED
  BY <1>3, <1>4, <1>5, <1>6, <1>7, <1>8, <1>9
-----------------------------------------------------------------------------
(* What a step does to the requests.                                       *)

\* Every step of a request but those that read and write the row of its user.
Menor(r) ==
  \/ Autenticar(r) \/ register_session_from_token(r) \/ Refrescar(r) \/ CerrarSesion(r)
  \/ LeerSesiones(r) \/ Negar(r) \/ Emitir(r) \/ generate_authorization_code(r)
  \/ LeerCodigo(r) \/ Canjear(r) \/ sync_user_from_google(r) \/ Morir(r)

\* It leaves what the request will write alone; a request with a token loads
\* an active user when it is authenticated, and keeps what it loaded.
Menos(p, q) ==
  /\ Sucesor(p, q) /\ q.nueva = p.nueva
  /\ q.en \in {"sesion", "leer", "negar", "canjear"}
  /\ q.en = "negar" => p.en \in {"revocar", "negar"} /\ q.faltan \subseteq DOMAIN token
  /\ q.en = "canjear" => p.tipo = "canjear" /\ p.n \in DOMAIN codigo
  /\ p.tipo \in ConToken /\ q.en \in {"sesion", "leer"} =>
       \/ p.en = "sesion" /\ q.leido = p.leido
       \/ p.en = "autenticar" /\ q.leido = usuario[p.u] /\ q.leido.activo

LEMMA PetMenor ==
  ASSUME Base, NEW r \in Peticion, Menor(r)
  PROVE  /\ UNCHANGED <<usuario, ahora, pedidas, antes, seguidos, solapado, datos>>
         /\ pet[r].en # "libre"
         /\ \E q : pet' = [pet EXCEPT ![r] = q] /\ (q = Libre \/ Menos(pet[r], q))
<1> DEFINE p == pet[r]
<1>1. p \in PetT /\ PetOK(r) /\ usuario \in [Usuario -> Fila] /\ pet \in [Peticion -> PetT]
  BY DEF Base, TypeOK, Peticiones
<1>2. {"sesion", "leer", "negar", "canjear"} \subseteq En
  BY DEF En
<1>3. ASSUME NEW q, pet' = [pet EXCEPT ![r] = q], q = Libre \/ Menos(p, q)
      PROVE  \E x : pet' = [pet EXCEPT ![r] = x] /\ (x = Libre \/ Menos(p, x))
  BY <1>3
<1>4. Fin(r) => \E x : pet' = [pet EXCEPT ![r] = x] /\ (x = Libre \/ Menos(p, x))
  BY DEF Fin, Ir
<1>5. DOMAIN token \subseteq Jti /\ Emitidos \in 0..MaxTokens
  <2>1. PICK k \in 0..MaxTokens : DOMAIN token = 1..k
    BY DEF Base, Tokens
  <2>2. Cardinality(1..k) = k
    BY <2>1, FS_Interval, CuentasOK
  <2>3. QED
    BY <2>1, <2>2 DEF Emitidos, Base, TypeOK
<1>6. CASE Autenticar(r)
  <2>1. /\ UNCHANGED <<usuario, ahora, pedidas, antes, seguidos, solapado, datos>>
        /\ p.en = "autenticar"
    BY <1>6 DEF Autenticar, historia
  <2>2. CASE Fin(r)
    BY <1>4, <2>1, <2>2
  <2>3. CASE Ir(r, [p EXCEPT !.en = "sesion", !.leido = usuario[p.u]]) /\ usuario[p.u].activo
    <3> DEFINE f == usuario[p.u]
               q == [p EXCEPT !.en = "sesion", !.leido = f]
    <3>1. f \in Fila
      BY <1>1, <2>1 DEF PetOK
    <3>2. pet' = [pet EXCEPT ![r] = q] /\ f.activo
      BY <2>3 DEF Ir
    <3>3. f = usuario[p.u]
      OBVIOUS
    <3> HIDE DEF f
    <3>4. ASSUME NEW x, x = q
          PROVE  Sucesor(p, x) /\ x.nueva = p.nueva /\ x.leido = f /\ x.en = "sesion"
      BY <1>1, <1>2, <3>1, <3>4, IrLeido DEF PetT, Fila
    <3> HIDE DEF q
    <3>5. Menos(p, q)
      BY <2>1, <3>2, <3>3, <3>4 DEF Menos
    <3>6. QED
      BY <1>3, <2>1, <3>2, <3>5
  <2>4. QED
    BY <1>6, <2>2, <2>3 DEF Autenticar
<1>7. CASE register_session_from_token(r)
  <2>1. /\ UNCHANGED <<usuario, ahora, pedidas, antes, seguidos, solapado, datos>>
        /\ p.en = "sesion"
    BY <1>7 DEF register_session_from_token, historia
  <2> DEFINE q == [p EXCEPT !.en = "leer"]
  <2>2. Sucesor(p, q) /\ Igual(p, q) /\ q.en = "leer"
    BY <1>1, <1>2, IrT
  <2>3. Fin(r) \/ pet' = [pet EXCEPT ![r] = q]
    BY <1>7 DEF register_session_from_token, Ir
  <2> HIDE DEF q
  <2>4. Menos(p, q)
    BY <2>1, <2>2 DEF Menos, Igual
  <2>5. QED
    BY <1>3, <1>4, <2>1, <2>3, <2>4
<1>8. CASE Refrescar(r) \/ Emitir(r)
  <2>1. /\ UNCHANGED <<usuario, ahora, pedidas, antes, seguidos, solapado, datos>>
        /\ p.en # "libre" /\ p.tipo \notin ConToken
    BY <1>1, <1>8 DEF Refrescar, Emitir, historia, PetOK, ConToken
  <2> DEFINE q == [p EXCEPT !.en = "sesion", !.j = Emitidos + 1]
  <2>2. Fin(r) \/ (Emitidos < MaxTokens /\ pet' = [pet EXCEPT ![r] = q])
    BY <1>8 DEF Refrescar, Emitir, Ir, _create_token
  <2>3. CASE Emitidos < MaxTokens /\ pet' = [pet EXCEPT ![r] = q]
    <3>1. Emitidos + 1 \in Jti
      BY <1>5, <2>3, CuentasOK DEF Jti
    <3>2. Sucesor(p, q) /\ q.nueva = p.nueva /\ q.leido = p.leido /\ q.en = "sesion"
      BY <1>1, <1>2, <3>1, IrJti, ZenonT(40)
    <3> HIDE DEF q
    <3>3. Menos(p, q)
      BY <2>1, <3>2 DEF Menos
    <3>4. QED
      BY <1>3, <2>1, <2>3, <3>3
  <2>4. QED
    BY <1>4, <2>1, <2>2, <2>3
<1>9. CASE LeerSesiones(r)
  <2>1. /\ UNCHANGED <<usuario, ahora, pedidas, antes, seguidos, solapado, datos>>
        /\ p.en = "revocar"
    BY <1>9 DEF LeerSesiones
  <2> DEFINE S == sesiones[p.u]
             q == [p EXCEPT !.en = "negar", !.faltan = S]
  <2>2. S \in SUBSET Jti /\ S \subseteq DOMAIN token
    BY <1>1, <1>5, <2>1 DEF PetOK, Base, TypeOK
  <2>3. Fin(r) \/ pet' = [pet EXCEPT ![r] = q]
    BY <1>9 DEF LeerSesiones, Ir
  <2> HIDE DEF S
  <2>4. ASSUME NEW x, x = q
        PROVE  /\ Sucesor(p, x) /\ x.nueva = p.nueva /\ x.leido = p.leido /\ x.en = "negar"
               /\ x.faltan = S
    BY <1>1, <1>2, <2>2, <2>4, IrFaltan DEF PetT
  <2> HIDE DEF q
  <2>5. Menos(p, q)
    BY <2>1, <2>2, <2>4 DEF Menos
  <2>6. QED
    BY <1>3, <1>4, <2>1, <2>3, <2>5
<1>10. CASE Negar(r)
  <2>1. /\ UNCHANGED <<usuario, ahora, pedidas, antes, seguidos, solapado, datos>>
        /\ p.en = "negar"
    BY <1>10 DEF Negar
  <2>2. CASE Fin(r)
    BY <1>4, <2>1, <2>2
  <2>3. CASE \E j \in p.faltan : Ir(r, [p EXCEPT !.faltan = @ \ {j}])
    <3>1. PICK j \in p.faltan : Ir(r, [p EXCEPT !.faltan = @ \ {j}])
      BY <2>3
    <3> DEFINE q == [p EXCEPT !.faltan = @ \ {j}]
    <3>2. /\ Sucesor(p, q) /\ q.nueva = p.nueva /\ q.leido = p.leido /\ q.en = "negar"
          /\ q.faltan = p.faltan \ {j}
      BY <1>1, <2>1, QuitarFaltan
    <3>3. pet' = [pet EXCEPT ![r] = q]
      BY <3>1 DEF Ir
    <3> HIDE DEF q
    <3>4. Menos(p, q)
      BY <1>1, <2>1, <3>2 DEF Menos, PetOK
    <3>5. QED
      BY <1>3, <2>1, <3>3, <3>4
  <2>4. QED
    BY <1>10, <2>2, <2>3 DEF Negar
<1>11. CASE LeerCodigo(r)
  <2>1. /\ UNCHANGED <<usuario, ahora, pedidas, antes, seguidos, solapado, datos>>
        /\ p.en = "leer" /\ p.tipo = "canjear"
    BY <1>11 DEF LeerCodigo, historia
  <2> DEFINE q == [p EXCEPT !.en = "canjear", !.u = codigo[p.n]]
  <2>2. Fin(r) \/ (p.n \in DOMAIN codigo /\ pet' = [pet EXCEPT ![r] = q])
    BY <1>11 DEF LeerCodigo, Ir
  <2>3. CASE p.n \in DOMAIN codigo /\ pet' = [pet EXCEPT ![r] = q]
    <3>1. codigo[p.n] \in Usuario
      BY <2>3 DEF Base, Tokens
    <3>2. Sucesor(p, q) /\ q.nueva = p.nueva /\ q.leido = p.leido /\ q.en = "canjear"
      BY <1>1, <3>1, IrUsuario
    <3> HIDE DEF q
    <3>3. Menos(p, q)
      BY <2>1, <2>3, <3>2 DEF Menos, ConToken
    <3>4. QED
      BY <1>3, <2>1, <2>3, <3>3
  <2>4. QED
    BY <1>4, <2>1, <2>2, <2>3
<1>12. CASE CerrarSesion(r) \/ generate_authorization_code(r) \/ Canjear(r)
            \/ sync_user_from_google(r) \/ Morir(r)
  BY <1>4, <1>12 DEF CerrarSesion, generate_authorization_code, Canjear, sync_user_from_google,
     Morir, historia
<1>13. QED
  BY <1>6, <1>7, <1>8, <1>9, <1>10, <1>11, <1>12 DEF Menor

\* What a request does when it reads the row: it is refused, or it knows what
\* it is going to write.
Decide(p, q) ==
  /\ Sucesor(p, q) /\ q.en = "commit"
  /\ p.tipo \in ConToken => q.leido = p.leido
  /\ p.tipo \notin ConToken => q.leido = usuario[p.u]
  /\ p.tipo # "rectificar" => Permite(p, q.leido) /\ q.nueva = Deja(p, q.leido)
  /\ p.tipo = "rectificar" => \E c \in Personal : q.nueva = [q.leido EXCEPT ![c] = "nuevo"]

LEMMA PetLeer ==
  ASSUME Base, NEW r \in Peticion, Leer(r)
  PROVE  /\ UNCHANGED <<usuario, token, refresco, redis, ahora, pedidas, fallos, historia>>
         /\ pet[r].en = "leer" /\ pet[r].tipo \in Escribe
         /\ \E q : pet' = [pet EXCEPT ![r] = q] /\ (q = Libre \/ Decide(pet[r], q))
<1> DEFINE p == pet[r]
           f == IF p.tipo \in ConToken THEN p.leido ELSE usuario[p.u]
<1>1. p \in PetT /\ PetOK(r) /\ usuario \in [Usuario -> Fila] /\ ahora \in 0..MaxReloj
  BY DEF Base, TypeOK, Peticiones
<1>2. /\ UNCHANGED <<usuario, token, refresco, redis, ahora, pedidas, fallos, historia>>
      /\ p.en = "leer" /\ p.tipo \in Escribe
  BY DEF Leer
<1>3. f \in Fila
  BY <1>1, <1>2 DEF PetOK, PetT
<1>4. CASE Fin(r)
  BY <1>2, <1>4 DEF Fin, Ir
<1>5. CASE /\ p.tipo # "rectificar" /\ Permite(p, f)
           /\ pet' = [pet EXCEPT ![r] = [p EXCEPT !.en = "commit", !.leido = f, !.nueva = Deja(p, f)]]
  <2> DEFINE g == Deja(p, f)
             q == [p EXCEPT !.en = "commit", !.leido = f, !.nueva = g]
  <2>1. g \in Fila
    BY <1>1, <1>3, <1>5, DejaT
  <2>2. /\ pet' = [pet EXCEPT ![r] = q] /\ g = Deja(p, f) /\ Permite(p, f)
        /\ p.tipo \in ConToken => f = p.leido
        /\ p.tipo \notin ConToken => f = usuario[p.u]
    BY <1>5
  <2> HIDE DEF f, g
  <2>3. ASSUME NEW x, x = q
        PROVE  Sucesor(p, x) /\ x.nueva = g /\ x.leido = f /\ x.en = "commit"
    BY <1>1, <1>3, <2>1, <2>3, IrCommit DEF PetT
  <2> HIDE DEF q
  <2>4. Decide(p, q)
    BY <1>5, <2>2, <2>3 DEF Decide
  <2>5. QED
    BY <1>2, <2>2, <2>4
<1>6. CASE /\ p.tipo = "rectificar"
           /\ \E c \in Personal :
                pet' = [pet EXCEPT ![r] = [p EXCEPT !.en = "commit", !.nueva = [f EXCEPT ![c] = "nuevo"]]]
  <2>1. PICK c \in Personal :
          pet' = [pet EXCEPT ![r] = [p EXCEPT !.en = "commit", !.nueva = [f EXCEPT ![c] = "nuevo"]]]
    BY <1>6
  <2> DEFINE g == [f EXCEPT ![c] = "nuevo"]
             q == [p EXCEPT !.en = "commit", !.nueva = g]
  <2>2. g \in Fila
    BY <1>3 DEF Fila, Personal
  <2>3. f = p.leido
    BY <1>6 DEF ConToken
  <2> HIDE DEF g
  <2>4. Sucesor(p, q) /\ q.nueva = g /\ q.leido = p.leido /\ q.en = "commit"
    BY <1>1, <2>2, IrNueva
  <2>5. pet' = [pet EXCEPT ![r] = q]
    BY <2>1 DEF g
  <2> HIDE DEF q
  <2>6. g = [q.leido EXCEPT ![c] = "nuevo"]
    BY <2>3, <2>4 DEF g
  <2>7. Decide(p, q)
    BY <1>6, <2>4, <2>6 DEF Decide, ConToken
  <2>8. QED
    BY <1>2, <2>5, <2>7
<1>7. QED
  BY <1>4, <1>5, <1>6 DEF Leer, Ir
Vale(q) ==
  /\ q.en \in {"commit", "revocar", "negar", "emitir"} => q.tipo \in Escribe
  /\ q.en = "canjear" => q.tipo = "canjear"
  /\ q.en = "emitir" => q.tipo = "login"
  /\ q.en = "autenticar" => q.tipo \in ConToken
  /\ q.en = "negar" => q.faltan \subseteq DOMAIN token

\* The commit: what comes after it is known from the kind of the request.
LEMMA PetCommit ==
  ASSUME Base, NEW r \in Peticion, Commit(r)
  PROVE  /\ UNCHANGED <<token, refresco, redis, ahora, pedidas, fallos, acortada, solapado>>
         /\ pet[r].en = "commit" /\ pet[r].tipo \in Escribe
         /\ \E q : /\ pet' = [pet EXCEPT ![r] = q]
                   /\ \/ q = Libre /\ pet[r].tipo \notin {"cambiar", "reset"}
                      \/ /\ Sucesor(pet[r], q) /\ Vale(q) /\ q.en \in {"revocar", "emitir"}
                         /\ pet[r].tipo \in {"cambiar", "reset"} <=> q.en = "revocar"
<1> DEFINE p == pet[r]
           q == [p EXCEPT !.en = Sigue(p)]
<1>1. p \in PetT /\ PetOK(r)
  BY DEF Base, Peticiones
<1>2. /\ UNCHANGED <<token, refresco, redis, ahora, pedidas, fallos, acortada, solapado>>
      /\ p.en = "commit" /\ p.tipo \in Escribe
  BY <1>1 DEF Commit, PetOK
<1>3. CASE Sigue(p) = "libre"
  <2>1. pet' = [pet EXCEPT ![r] = Libre]
    BY <1>3 DEF Commit, Fin, Ir
  <2>2. p.tipo \notin {"cambiar", "reset"}
    BY <1>3 DEF Sigue
  <2>3. QED
    BY <1>2, <2>1, <2>2
<1>4. CASE Sigue(p) # "libre"
  <2>1. /\ Sigue(p) \in {"revocar", "emitir"} /\ Sigue(p) \in En
        /\ p.tipo \in {"cambiar", "reset"} <=> Sigue(p) = "revocar"
        /\ Sigue(p) = "emitir" => p.tipo = "login"
    BY <1>4 DEF Sigue, En
  <2>2. Sucesor(p, q) /\ q.en = Sigue(p)
    BY <1>1, <2>1, IrT
  <2>3. pet' = [pet EXCEPT ![r] = q]
    BY <1>4 DEF Commit, Ir
  <2> HIDE DEF q
  <2>4. Vale(q)
    BY <1>2, <2>1, <2>2 DEF Vale, Sucesor
  <2>5. QED
    BY <1>2, <2>1, <2>2, <2>3, <2>4
<1>5. QED
  BY <1>3, <1>4

LEMMA PeticionesSiguen ==
  ASSUME Base, NEW r \in Peticion, pet[r].en # "libre", pedidas' = pedidas,
         NEW q, pet' = [pet EXCEPT ![r] = q],
         q = Libre \/ (Sucesor(pet[r], q) /\ Vale(q)), DOMAIN token \subseteq DOMAIN token'
  PROVE  Peticiones'
<1>1. pet \in [Peticion -> PetT] /\ q \in PetT /\ PetOK(r)
  BY LibreT DEF Sucesor, Base, Peticiones
<1>2. pet' \in [Peticion -> PetT] /\ pet'[r] = q /\ \A x \in Peticion \ {r} : pet'[x] = pet[x]
  BY <1>1
<1>3. ASSUME NEW x \in Peticion  PROVE PetOK(x)'
  <2>1. CASE x = r
    BY <1>1, <1>2, <2>1, LibreT DEF PetOK, Sucesor, Vale
  <2>2. CASE x # r
    <3>1. PetOK(x)
      BY DEF Base, Peticiones
    <3>2. QED
      BY <1>2, <2>2, <3>1 DEF PetOK
  <2>3. QED
    BY <2>1, <2>2
<1>4. Unicas'
  <2>1. q.en # "libre" => q.num = pet[r].num
    BY LibreT DEF Sucesor
  <2>2. QED
    BY <1>2, <2>1 DEF Unicas, Base, Peticiones
<1>5. QED
  BY <1>2, <1>3, <1>4 DEF Peticiones

-----------------------------------------------------------------------------
(* The basis is inductive.                                                 *)

\* The whole seconds of a time are not after it, and less than one before it.
LEMMA EnteroT ==
  ASSUME NEW t \in Nat
  PROVE  Entero(t) \in Nat /\ Entero(t) <= t /\ t < Entero(t) + Segundo
<1> DEFINE k == t % Segundo
           d == t \div Segundo
<1>1. Segundo \in Nat \ {0}
  BY CuentasOK
<1>2. k \in 0..(Segundo - 1) /\ d \in Nat /\ t = Segundo * d + k
  BY <1>1
<1>3. Segundo * d \in Nat
  BY <1>1, <1>2
<1>4. Entero(t) = t - k
  BY DEF Entero
<1> HIDE DEF k, d
<1>5. QED
  BY <1>1, <1>2, <1>3, <1>4

\* A new token comes after those there are; these stay as they were.
LEMMA TokenT ==
  ASSUME Base, NEW u \in Usuario, _create_token(u) \/ token' = token, ahora' = ahora
  PROVE  /\ \E k \in 0..MaxTokens : DOMAIN token' = 1..k
         /\ DOMAIN token \subseteq DOMAIN token' /\ DOMAIN token' \subseteq Jti
         /\ \A j \in DOMAIN token : token'[j] = token[j]
         /\ \A j \in DOMAIN token' : /\ token'[j].u \in Usuario
                                     /\ token'[j].exp \in 0..(MaxReloj + Vida)
                                     /\ token'[j].exp <= ahora' + Vida
<1>1. PICK k \in 0..MaxTokens : DOMAIN token = 1..k
  BY DEF Base, Tokens
<1>2. CASE token' = token
  BY <1>1, <1>2 DEF Base, Tokens, TypeOK
<1>3. CASE _create_token(u)
  <2>1. Emitidos = k /\ k < MaxTokens
    <3>1. Cardinality(1..k) = k
      BY <1>1, FS_Interval, CuentasOK
    <3>2. QED
      BY <1>1, <1>3, <3>1 DEF Emitidos, _create_token
  <2>2. DOMAIN token' = (1..k) \cup {k + 1}
    BY <1>1, <1>3, <2>1 DEF _create_token
  <2>3. k + 1 \in 0..MaxTokens /\ DOMAIN token' = 1..(k + 1) /\ DOMAIN token' \subseteq Jti
    BY <1>1, <2>1, <2>2, CuentasOK DEF Jti
  <2>4. /\ \A j \in DOMAIN token : token'[j] = token[j]
        /\ \A j \in DOMAIN token' \ DOMAIN token :
             token'[j] = [u |-> u, correo |-> usuario[u].correo, exp |-> Entero(ahora) + Vida]
    BY <1>1, <1>3, <2>1 DEF _create_token
  <2>5. Entero(ahora) + Vida \in 0..(MaxReloj + Vida) /\ Entero(ahora) + Vida <= ahora + Vida
    <3>1. ahora \in 0..MaxReloj
      BY DEF Base, TypeOK
    <3>2. Entero(ahora) \in Nat /\ Entero(ahora) <= ahora
      BY <3>1, EnteroT
    <3>3. QED
      BY <3>1, <3>2, Tiempos
  <2>6. ASSUME NEW j \in DOMAIN token'
        PROVE  /\ token'[j].u \in Usuario /\ token'[j].exp \in 0..(MaxReloj + Vida)
               /\ token'[j].exp <= ahora' + Vida
    <3>1. CASE j \in DOMAIN token
      BY <2>4, <3>1 DEF Base, Tokens, TypeOK
    <3>2. CASE j \notin DOMAIN token
      BY <2>4, <2>5, <3>2
    <3>3. QED
      BY <3>1, <3>2
  <2>7. QED
    BY <1>1, <2>2, <2>3, <2>4, <2>6
<1>4. QED
  BY <1>2, <1>3

LEMMA FallaT ==
  ASSUME Base, Falla
  PROVE  fallos' \in 0..MaxFallos
BY CuentasOK DEF Base, TypeOK, Falla

\* Every entry of the blacklist is written for a token that was issued: past
\* its whole life, or (and the token is noted) to less than a second of its end.
NegraCrece ==
  /\ negra' \in [Jti -> 0..(MaxReloj + TtlCierre)]
  /\ acortada \subseteq acortada'
  /\ \A j \in Jti :
       negra'[j] # negra[j] =>
         /\ j \in DOMAIN token
         /\ \/ negra'[j] >= token[j].exp + Segundo
            \/ j \in acortada' /\ negra'[j] + Segundo > token[j].exp

LEMMA NegraT ==
  ASSUME Base, NEW j \in DOMAIN token,
         RevocarResto(j) \/ (negra' = blacklist_token(j, TtlCierre) /\ UNCHANGED acortada)
  PROVE  NegraCrece
<1>1. token[j].exp \in 0..(MaxReloj + Vida) /\ token[j].exp <= ahora + Vida /\ ahora \in 0..MaxReloj
  BY DEF Base, TypeOK, Tokens
<1>2. negra \in [Jti -> 0..(MaxReloj + TtlCierre)] /\ j \in Jti
  BY DEF Base, TypeOK
<1>3. CASE negra' = blacklist_token(j, TtlCierre) /\ UNCHANGED acortada
  <2>1. /\ ahora + TtlCierre \in 0..(MaxReloj + TtlCierre) /\ TtlCierre > 0
        /\ ahora + TtlCierre >= token[j].exp + Segundo
    BY <1>1, CuentasOK
  <2>2. negra' = [negra EXCEPT ![j] = ahora + TtlCierre]
    BY <1>3, <2>1 DEF blacklist_token
  <2>3. QED
    BY <1>2, <1>3, <2>1, <2>2 DEF NegraCrece
<1>4. CASE RevocarResto(j)
  <2> DEFINE s == get_token_remaining_seconds(j)
  <2>1. /\ negra' = IF s > 0 THEN [negra EXCEPT ![j] = ahora + s] ELSE negra
        /\ acortada' = IF s > 0 THEN acortada \cup {j} ELSE acortada
    BY <1>4 DEF RevocarResto, blacklist_token
  <2>2. CASE s > 0
    <3>1. token[j].exp > ahora /\ s = Entero(token[j].exp - ahora)
      <4>1. CASE token[j].exp > ahora
        BY <4>1 DEF get_token_remaining_seconds
      <4>2. CASE ~(token[j].exp > ahora)
        BY <2>2, <4>2 DEF get_token_remaining_seconds
      <4>3. QED
        BY <4>1, <4>2
    <3>2. token[j].exp - ahora \in Nat
      BY <1>1, <3>1, CuentasOK
    <3>3. s \in Nat /\ s <= token[j].exp - ahora /\ token[j].exp - ahora < s + Segundo
      BY <3>1, <3>2, EnteroT
    <3> HIDE DEF s
    <3>4. ahora + s \in 0..(MaxReloj + TtlCierre) /\ ahora + s + Segundo > token[j].exp
      BY <1>1, <3>3, Tiempos
    <3>5. QED
      BY <1>2, <2>1, <2>2, <3>4 DEF NegraCrece
  <2>3. CASE ~(s > 0)
    BY <1>2, <2>1, <2>3 DEF NegraCrece
  <2>4. QED
    BY <2>2, <2>3
<1>5. QED
  BY <1>3, <1>4

\* What the steps of a request leave of the tables in Redis.
LEMMA RedisMenor ==
  ASSUME Base, NEW r \in Peticion, Menor(r)
  PROVE  /\ NegraCrece
         /\ sesiones' \in [Usuario -> SUBSET DOMAIN token]
         /\ \A u \in Usuario : sesiones[u] \subseteq sesiones'[u]
         /\ DOMAIN codigo' \subseteq Numero /\ \A c \in DOMAIN codigo' : codigo'[c] \in Usuario
         /\ refresco' \subseteq Usuario /\ fallos' \in 0..MaxFallos
         /\ token' = token \/ \E u \in Usuario : _create_token(u)
<1> DEFINE p == pet[r]
<1>1. p \in PetT /\ PetOK(r) /\ Peticiones
  BY DEF Base, Peticiones
<1>2. negra' = negra /\ acortada' = acortada => NegraCrece
  BY DEF NegraCrece, Base, TypeOK
<1>3. sesiones' = sesiones => /\ sesiones' \in [Usuario -> SUBSET DOMAIN token]
                              /\ \A u \in Usuario : sesiones[u] \subseteq sesiones'[u]
  BY DEF Base, TypeOK
<1>4. codigo' = codigo => DOMAIN codigo' \subseteq Numero /\ \A c \in DOMAIN codigo' : codigo'[c] \in Usuario
  BY DEF Base, TypeOK, Tokens
<1>5. refresco' = refresco => refresco' \subseteq Usuario
  BY DEF Base, TypeOK
<1>6. fallos' = fallos \/ Falla => fallos' \in 0..MaxFallos
  BY FallaT DEF Base, TypeOK
<1>7. CASE Autenticar(r)
  <2>1. /\ UNCHANGED <<token, refresco, sesiones, codigo>> /\ (fallos' = fallos \/ Falla)
        /\ UNCHANGED <<negra, acortada>> \/ (p.j \in DOMAIN token /\ RevocarResto(p.j))
    BY <1>7 DEF Autenticar, Vivo
  <2>2. NegraCrece
    BY <1>2, <2>1, NegraT
  <2>3. QED
    BY <1>3, <1>4, <1>5, <1>6, <2>1, <2>2
<1>8. CASE register_session_from_token(r)
  <2> DEFINE queda == Vivo(p.j) /\ get_token_remaining_seconds(p.j) > 0
  <2>1. /\ UNCHANGED <<token, refresco, negra, codigo, acortada>> /\ (fallos' = fallos \/ Falla)
        /\ \/ sesiones' = sesiones
           \/ sesiones' = [sesiones EXCEPT ![p.u] = IF queda THEN @ \cup {p.j} ELSE @]
    BY <1>8 DEF register_session_from_token, historia
  <2>2. CASE sesiones' = [sesiones EXCEPT ![p.u] = IF queda THEN @ \cup {p.j} ELSE @]
    <3>1. sesiones \in [Usuario -> SUBSET DOMAIN token]
      BY DEF Base, TypeOK
    <3>2. queda => p.j \in DOMAIN token
      BY DEF Vivo
    <3> HIDE DEF queda
    <3>3. QED
      BY <1>2, <1>4, <1>5, <1>6, <2>1, <2>2, <3>1, <3>2
  <2>3. QED
    BY <1>2, <1>3, <1>4, <1>5, <1>6, <2>1, <2>2
<1>9. CASE Refrescar(r) \/ Emitir(r) \/ sync_user_from_google(r)
  <2>1. /\ UNCHANGED <<negra, acortada, sesiones, codigo, fallos>>
        /\ token' = token \/ _create_token(p.u)
        /\ refresco' = refresco \/ refresco' = refresco \cup {p.u}
        /\ p.en # "libre"
    BY <1>9 DEF Refrescar, Emitir, sync_user_from_google, redis, historia
  <2>2. p.u \in Usuario
    BY <1>1, <2>1 DEF PetOK
  <2>3. refresco' \subseteq Usuario
    BY <2>1, <2>2 DEF Base, TypeOK
  <2>4. QED
    BY <1>2, <1>3, <1>4, <1>6, <2>1, <2>2, <2>3
<1>10. CASE CerrarSesion(r)
  <2>1. /\ UNCHANGED <<token, refresco, sesiones, codigo>> /\ (fallos' = fallos \/ Falla)
        /\ \/ UNCHANGED <<negra, acortada>>
           \/ p.j \in DOMAIN token /\ RevocarResto(p.j)
           \/ \E k \in DOMAIN token : negra' = blacklist_token(k, TtlCierre) /\ UNCHANGED acortada
    BY <1>10 DEF CerrarSesion, Vivo
  <2>2. NegraCrece
    BY <1>2, <2>1, NegraT
  <2>3. QED
    BY <1>3, <1>4, <1>5, <1>6, <2>1, <2>2
<1>11. CASE Negar(r)
  <2>1. /\ UNCHANGED <<token, refresco, sesiones, codigo>> /\ (fallos' = fallos \/ Falla)
        /\ negra' = negra \/ \E j \in p.faltan : negra' = blacklist_token(j, TtlCierre)
        /\ UNCHANGED acortada
    BY <1>11 DEF Negar
  <2>2. NegraCrece
    BY <1>1, <1>2, <1>11, <2>1, NegraT DEF PetOK, Negar
  <2>3. QED
    BY <1>3, <1>4, <1>5, <1>6, <2>1, <2>2
<1>12. CASE generate_authorization_code(r)
  <2>1. /\ UNCHANGED <<token, refresco, negra, acortada, sesiones, fallos>> /\ p.en # "libre"
        /\ codigo' = [c \in DOMAIN codigo \cup {p.num} |-> IF c = p.num THEN p.u ELSE codigo[c]]
    BY <1>12 DEF generate_authorization_code, historia
  <2>2. p.u \in Usuario /\ p.num \in Numero
    BY <1>1, <2>1 DEF PetOK, PetT
  <2>3. DOMAIN codigo' \subseteq Numero /\ \A c \in DOMAIN codigo' : codigo'[c] \in Usuario
    BY <2>1, <2>2 DEF Base, TypeOK, Tokens
  <2>4. QED
    BY <1>2, <1>3, <1>5, <1>6, <2>1, <2>3
<1>13. CASE Canjear(r)
  <2>1. /\ UNCHANGED <<refresco, negra, acortada, sesiones, fallos>> /\ p.en # "libre"
        /\ codigo' = [c \in DOMAIN codigo \ {p.n} |-> codigo[c]]
        /\ token' = token \/ _create_token(p.u)
    BY <1>13 DEF Canjear
  <2>2. p.u \in Usuario
    BY <1>1, <2>1 DEF PetOK
  <2>3. DOMAIN codigo' \subseteq Numero /\ \A c \in DOMAIN codigo' : codigo'[c] \in Usuario
    BY <2>1 DEF Base, TypeOK, Tokens
  <2>4. QED
    BY <1>2, <1>3, <1>5, <1>6, <2>1, <2>2, <2>3
<1>14. CASE LeerSesiones(r) \/ LeerCodigo(r) \/ Morir(r)
  <2>1. UNCHANGED <<token, refresco, redis, acortada>> /\ (fallos' = fallos \/ Falla)
    BY <1>14 DEF LeerSesiones, LeerCodigo, Morir, historia
  <2>2. QED
    BY <1>2, <1>3, <1>4, <1>5, <1>6, <2>1 DEF redis
<1>15. QED
  BY <1>7, <1>8, <1>9, <1>10, <1>11, <1>12, <1>13, <1>14 DEF Menor
LEMMA BaseInicio == Init => Base
<1> SUFFICES ASSUME Init  PROVE Base
  OBVIOUS
<1>1. PICK k \in 0..MaxTokens : Abiertas \in [1..k -> Usuario]
  BY CuentasOK
<1>2. DOMAIN token = 1..k /\ 1..k \subseteq Jti /\ ahora = Inicio
      /\ \A j \in 1..k : token[j].u = Abiertas[j] /\ token[j].exp = Vida
  BY <1>1, CuentasOK DEF Init, Jti
<1>3. /\ usuario \in [Usuario -> Fila] /\ refresco \subseteq Usuario
      /\ negra \in [Jti -> 0..(MaxReloj + TtlCierre)]
      /\ ahora \in 0..MaxReloj /\ pedidas \in Numero /\ fallos \in 0..MaxFallos
      /\ seguidos \in [Usuario -> Nat]
  <2>1. usuario \in [Usuario -> Fila] /\ refresco \subseteq Usuario
    BY <1>1, NuevaT DEF Init
  <2>2. 0 \in 0..(MaxReloj + TtlCierre) /\ Inicio \in 0..MaxReloj /\ 0 \in 0..MaxFallos /\ 0 \in Numero
    BY CuentasOK DEF Numero
  <2>3. negra \in [Jti -> 0..(MaxReloj + TtlCierre)] /\ seguidos \in [Usuario -> Nat]
    BY <2>2 DEF Init
  <2>4. ahora \in 0..MaxReloj /\ pedidas \in Numero /\ fallos \in 0..MaxFallos
    BY <2>2 DEF Init
  <2>5. QED
    BY <2>1, <2>3, <2>4
<1>4. sesiones \in [Usuario -> SUBSET DOMAIN token] /\ DOMAIN codigo = {}
  BY <1>1, <1>2 DEF Init
<1>5. \A j \in DOMAIN token : token[j].u \in Usuario /\ token[j].exp \in 0..(MaxReloj + Vida)
                              /\ token[j].exp <= ahora + Vida
  BY <1>1, <1>2, CuentasOK
<1>6. TypeOK
  BY <1>2, <1>3, <1>4, <1>5 DEF TypeOK
<1>7. Tokens
  BY <1>2, <1>4, <1>5 DEF Tokens, Init
<1>8. Peticiones
  BY LibreT DEF Init, Peticiones, PetOK, Unicas
<1>9. QED
  BY <1>6, <1>7, <1>8 DEF Base

LEMMA PedirT ==
  ASSUME NEW t \in Tipo, NEW u \in Usuario, NEW j \in {0} \cup Jti, NEW n \in Numero,
         NEW num \in Numero, NEW en \in En, NEW b \in BOOLEAN,
         NEW q, q = [Libre EXCEPT !.en = en, !.tipo = t, !.u = u, !.j = j, !.n = n, !.num = num,
                                  !.tarde = b]
  PROVE  /\ q \in PetT /\ q.en = en /\ q.tipo = t /\ q.u = u /\ q.n = n /\ q.num = num
         /\ q.tarde = b
BY LibreT DEF PetT

\* A request that arrives.
Llega(q, t, u, n) ==
  /\ q \in PetT
  /\ q.en = IF t \in ConToken THEN "autenticar" ELSE "leer"
  /\ q.tipo = t /\ q.u = u /\ q.n = n /\ q.num = pedidas + 1
  /\ q.tarde => <<t, n>> \in gastado

LEMMA PetPedir ==
  ASSUME Base, NEW r \in Peticion, NEW t \in Tipo, NEW u \in Usuario, NEW j \in {0} \cup Jti,
         NEW n \in Numero, Pedir(r, t, u, j, n)
  PROVE  /\ UNCHANGED <<usuario, token, refresco, redis, ahora, fallos, antes, acortada, cortado,
                        seguidos, usos, datos>>
         /\ pet[r].en = "libre" /\ pedidas' = pedidas + 1 /\ pedidas' \in Numero
         /\ \E q : pet' = [pet EXCEPT ![r] = q] /\ Llega(q, t, u, n)
<1>1. pedidas \in 0..MaxPeticiones /\ pedidas < MaxPeticiones
  BY DEF Base, TypeOK, Pedir, Numero
<1>2. pedidas + 1 \in Numero
  BY <1>1, CuentasOK DEF Numero
<1> DEFINE en == IF t \in ConToken THEN "autenticar" ELSE "leer"
           b == <<t, n>> \in gastado
           num == pedidas + 1
           q == [Libre EXCEPT !.en = en, !.tipo = t, !.u = u, !.j = j, !.n = n, !.num = num,
                              !.tarde = b]
<1>3. pet' = [pet EXCEPT ![r] = q]
  BY DEF Pedir, Ir
<1>4. en \in En /\ b \in BOOLEAN /\ num \in Numero
  BY <1>2 DEF En
<1>5. en = (IF t \in ConToken THEN "autenticar" ELSE "leer") /\ (b => <<t, n>> \in gastado)
      /\ num = pedidas + 1
  OBVIOUS
<1> HIDE DEF en, b, num
<1>6. /\ q \in PetT /\ q.en = en /\ q.tipo = t /\ q.u = u /\ q.n = n /\ q.num = num
      /\ q.tarde = b
  BY <1>4, PedirT, LibreT DEF PetT
<1> HIDE DEF q
<1>7. /\ UNCHANGED <<usuario, token, refresco, redis, ahora, fallos, antes, acortada, cortado,
                     seguidos, usos, datos>>
      /\ pet[r].en = "libre" /\ pedidas' = pedidas + 1
  BY DEF Pedir
<1>8. Llega(q, t, u, n)
  BY <1>5, <1>6 DEF Llega
<1>9. QED
  BY <1>2, <1>3, <1>7, <1>8

LEMMA BasePedir ==
  ASSUME Base, NEW r \in Peticion, NEW t \in Tipo, NEW u \in Usuario, NEW j \in {0} \cup Jti,
         NEW n \in Numero, Pedir(r, t, u, j, n)
  PROVE  Base'
<1>1. /\ UNCHANGED <<usuario, token, refresco, redis, ahora, fallos, antes, acortada, cortado,
                     seguidos, usos, datos>>
      /\ pet[r].en = "libre" /\ pedidas' = pedidas + 1 /\ pedidas' \in Numero
  BY PetPedir
<1>2. PICK q : pet' = [pet EXCEPT ![r] = q] /\ Llega(q, t, u, n)
  BY PetPedir
<1>3. TypeOK' /\ Tokens'
  BY <1>1 DEF Base, TypeOK, Tokens, redis
<1>4. pet' \in [Peticion -> PetT] /\ pet'[r] = q /\ \A x \in Peticion \ {r} : pet'[x] = pet[x]
  BY <1>2 DEF Base, Peticiones, Llega
<1>5. pedidas \in Nat /\ \A x \in Peticion : pet[x].en # "libre" => pet[x].num \in 1..pedidas
  BY DEF Base, TypeOK, Numero, Peticiones, PetOK
<1>6. ASSUME NEW x \in Peticion  PROVE PetOK(x)'
  <2>1. CASE x = r
    BY <1>1, <1>2, <1>4, <1>5, <2>1 DEF PetOK, Llega
  <2>2. CASE x # r
    <3>1. PetOK(x)
      BY DEF Base, Peticiones
    <3>2. pet[x].num \in 1..pedidas => pet[x].num \in 1..pedidas'
      BY <1>1, <1>5
    <3>3. QED
      BY <1>1, <1>4, <2>2, <3>1, <3>2 DEF PetOK
  <2>3. QED
    BY <2>1, <2>2
<1>7. Unicas'
  <2>1. \A x \in Peticion \ {r} : pet'[x].en # "libre" => pet'[x].num # pedidas + 1
    BY <1>4, <1>5
  <2>2. QED
    BY <1>2, <1>4, <2>1 DEF Unicas, Base, Peticiones, Llega
<1>8. QED
  BY <1>3, <1>4, <1>6, <1>7 DEF Base, Peticiones

LEMMA BaseMenor ==
  ASSUME Base, NEW r \in Peticion, Menor(r)
  PROVE  Base' /\ DOMAIN token \subseteq DOMAIN token' /\ \A j \in DOMAIN token : token'[j] = token[j]
<1>1. /\ UNCHANGED <<usuario, ahora, pedidas, antes, seguidos, solapado, datos>>
      /\ pet[r].en # "libre"
  BY PetMenor
<1>2. PICK q : pet' = [pet EXCEPT ![r] = q] /\ (q = Libre \/ Menos(pet[r], q))
  BY PetMenor
<1>3. /\ NegraCrece
      /\ sesiones' \in [Usuario -> SUBSET DOMAIN token]
      /\ \A u \in Usuario : sesiones[u] \subseteq sesiones'[u]
      /\ DOMAIN codigo' \subseteq Numero /\ \A c \in DOMAIN codigo' : codigo'[c] \in Usuario
      /\ refresco' \subseteq Usuario /\ fallos' \in 0..MaxFallos
      /\ token' = token \/ \E u \in Usuario : _create_token(u)
  BY RedisMenor
<1>4. PetOK(r)
  BY DEF Base, Peticiones
<1>5. PICK u \in Usuario : _create_token(u) \/ token' = token
  BY <1>1, <1>3, <1>4 DEF PetOK
<1>6. /\ \E k \in 0..MaxTokens : DOMAIN token' = 1..k
      /\ DOMAIN token \subseteq DOMAIN token' /\ DOMAIN token' \subseteq Jti
      /\ \A j \in DOMAIN token : token'[j] = token[j]
      /\ \A j \in DOMAIN token' : /\ token'[j].u \in Usuario
                                  /\ token'[j].exp \in 0..(MaxReloj + Vida)
                                  /\ token'[j].exp <= ahora' + Vida
  BY <1>1, <1>5, TokenT
<1>7. TypeOK'
  <2>1. sesiones' \in [Usuario -> SUBSET DOMAIN token']
    BY <1>3, <1>6
  <2>2. QED
    BY <1>1, <1>3, <1>6, <2>1 DEF Base, TypeOK, NegraCrece
<1>8. Tokens'
  BY <1>1, <1>3, <1>6 DEF Base, Tokens
<1>9. Peticiones'
  <2>1. Menos(pet[r], q) => Sucesor(pet[r], q) /\ Vale(q)
    BY <1>1, <1>4 DEF Menos, Vale, Sucesor, PetOK
  <2>2. QED
    BY <1>1, <1>2, <1>6, <2>1, PeticionesSiguen
<1>10. QED
  BY <1>6, <1>7, <1>8, <1>9 DEF Base

LEMMA BaseLeer ==
  ASSUME Base, NEW r \in Peticion, Leer(r)
  PROVE  Base'
<1>1. /\ UNCHANGED <<usuario, token, refresco, redis, ahora, pedidas, fallos, historia>>
      /\ pet[r].en = "leer" /\ pet[r].tipo \in Escribe
  BY PetLeer
<1>2. PICK q : pet' = [pet EXCEPT ![r] = q] /\ (q = Libre \/ Decide(pet[r], q))
  BY PetLeer
<1>3. TypeOK' /\ Tokens'
  BY <1>1 DEF Base, TypeOK, Tokens, redis, historia
<1>4. Decide(pet[r], q) => Sucesor(pet[r], q) /\ Vale(q)
  BY <1>1 DEF Decide, Vale, Sucesor
<1>5. Peticiones'
  BY <1>1, <1>2, <1>4, PeticionesSiguen
<1>6. QED
  BY <1>3, <1>5 DEF Base

LEMMA BaseCommit ==
  ASSUME Base, NEW r \in Peticion, Commit(r)
  PROVE  Base'
<1> DEFINE p == pet[r]
<1>1. /\ UNCHANGED <<token, refresco, redis, ahora, pedidas, fallos, acortada, solapado>>
      /\ p.en = "commit"
  BY PetCommit
<1>2. PICK q : pet' = [pet EXCEPT ![r] = q] /\ (q = Libre \/ (Sucesor(p, q) /\ Vale(q)))
  BY PetCommit
<1>3. p \in PetT /\ PetOK(r) /\ usuario \in [Usuario -> Fila]
  BY DEF Base, TypeOK, Peticiones
<1>4. p.u \in Usuario /\ p.leido \in Fila /\ p.nueva \in Fila
  BY <1>1, <1>3 DEF PetOK, PetT
<1>5. usuario' \in [Usuario -> Fila]
  <2>1. Update(usuario[p.u], p) \in Fila
    BY <1>3, <1>4, UpdateT
  <2>2. QED
    BY <1>3, <1>4, <2>1 DEF Commit
<1>6. seguidos' \in [Usuario -> Nat]
  BY <1>4 DEF Commit, Base, TypeOK
<1>7. TypeOK'
  BY <1>1, <1>5, <1>6 DEF Base, TypeOK, redis
<1>8. Tokens'
  <2>1. antes' = antes \/ antes' = [antes EXCEPT ![p.u] = sesiones[p.u]]
    BY DEF Commit
  <2>2. DOMAIN antes' = Usuario /\ \A u \in Usuario : antes'[u] \subseteq sesiones'[u]
    BY <1>1, <1>4, <2>1 DEF Base, Tokens, redis
  <2>3. QED
    BY <1>1, <2>2 DEF Base, Tokens, redis
<1>9. Peticiones'
  BY <1>1, <1>2, PeticionesSiguen
<1>10. QED
  BY <1>7, <1>8, <1>9 DEF Base

LEMMA BasePasar ==
  ASSUME Base, Pasar
  PROVE  Base'
<1>1. /\ UNCHANGED <<usuario, token, refresco, redis, pet, pedidas, fallos, historia>>
      /\ ahora' = ahora + 1 /\ ahora \in 0..MaxReloj /\ ahora < MaxReloj
  BY DEF Pasar, Base, TypeOK
<1>2. TypeOK'
  BY <1>1, CuentasOK DEF Base, TypeOK, redis, historia
<1>3. Tokens'
  <2>1. \A j \in DOMAIN token : token'[j].exp <= ahora' + Vida
    BY <1>1, Tiempos DEF Base, Tokens, TypeOK
  <2>2. QED
    BY <1>1, <2>1 DEF Base, Tokens, redis, historia
<1>4. QED
  BY <1>1, <1>2, <1>3 DEF Base, Peticiones, PetOK, Unicas

LEMMA BaseQuieta ==
  ASSUME Base, UNCHANGED vars
  PROVE  Base'
BY DEF Base, TypeOK, Tokens, Peticiones, PetOK, Unicas, vars, redis, historia

\* The steps there are.
LEMMA Casos ==
  ASSUME [Next]_vars
  PROVE  \/ \E r \in Peticion :
              \/ \E t \in Tipo, u \in Usuario, j \in {0} \cup Jti, n \in Numero : Pedir(r, t, u, j, n)
              \/ Menor(r) \/ Leer(r) \/ Commit(r)
         \/ Pasar \/ UNCHANGED vars
BY DEF Next, Paso, Menor

LEMMA BasePaso == Base /\ [Next]_vars => Base'
<1> SUFFICES ASSUME Base, [Next]_vars  PROVE Base'
  OBVIOUS
<1>1. QED
  BY Casos, BasePedir, BaseMenor, BaseLeer, BaseCommit, BasePasar, BaseQuieta

LEMMA BaseSiempre == Spec => []Base
<1>1. QED
  BY BaseInicio, BasePaso, PTL DEF Spec

\* Types of the accounts.  No entry of the blacklist outlives the hour of a
\* revocation by more than the clock, and no session is of an unknown token.
THEOREM CuentasTipos == Spec => []TypeOK
<1>1. Base => TypeOK
  BY DEF Base
<1>2. QED
  BY BaseSiempre, <1>1, PTL
-----------------------------------------------------------------------------
(* The revocation of the sessions.                                         *)

\* A token that was registered at the last change of password is revoked for
\* its whole life, or to less than a second of its end and this is noted, or a
\* request is still at it.
EnCurso(r, u, j) ==
  pet[r].u = u /\ (pet[r].en = "revocar" \/ (pet[r].en = "negar" /\ j \in pet[r].faltan))
Negado(j) ==
  \/ negra[j] >= token[j].exp + Segundo
  \/ j \in acortada /\ negra[j] + Segundo > token[j].exp
Revocado(u, j) == Negado(j) \/ \E r \in Peticion : EnCurso(r, u, j)
Revocaciones == \A u \in Usuario \ cortado : \A j \in antes[u] : Revocado(u, j)

LEMMA DaRevocadas ==
  ASSUME Base, Revocaciones
  PROVE  RevocadasFuera
<1> SUFFICES ASSUME NEW u \in Usuario \ cortado,
                    \A r \in Peticion : ~(pet[r].u = u /\ pet[r].en \in {"revocar", "negar"}),
                    NEW j \in antes[u], Vivo(j)
             PROVE  is_blacklisted(j) \/ (j \in acortada /\ ahora + Segundo > token[j].exp)
  BY DEF RevocadasFuera
<1>1. Negado(j)
  BY DEF Revocaciones, Revocado, EnCurso
<1>2. ahora < token[j].exp + Segundo /\ j \in DOMAIN token /\ j \in Jti
  BY DEF Vivo, Base, TypeOK
<1>3. /\ negra[j] \in Nat /\ token[j].exp \in Nat /\ ahora \in Nat /\ Segundo \in Nat
  BY <1>2, CuentasOK DEF Base, TypeOK
<1>4. CASE negra[j] >= token[j].exp + Segundo
  BY <1>2, <1>3, <1>4 DEF is_blacklisted
<1>5. CASE j \in acortada /\ negra[j] + Segundo > token[j].exp
  BY <1>2, <1>3, <1>5 DEF is_blacklisted
<1>6. QED
  BY <1>1, <1>4, <1>5 DEF Negado

\* A request that is at a revocation ends it, goes on with it or is cut short.
LEMMA RevocadoSigue ==
  ASSUME Base, NEW r \in Peticion, Menor(r), NEW u \in Usuario \ cortado', NEW j \in antes[u],
         EnCurso(r, u, j)
  PROVE  negra'[j] >= token[j].exp + Segundo \/ EnCurso(r, u, j)'
<1> DEFINE p == pet[r]
<1>1. p \in PetT /\ pet \in [Peticion -> PetT] /\ j \in sesiones[u] /\ j \in DOMAIN token /\ j \in Jti
  BY DEF Base, Peticiones, Tokens, TypeOK
<1>2. CASE LeerSesiones(r)
  <2>1. /\ p.en = "revocar" /\ u = p.u
        /\ pet' = [pet EXCEPT ![r] = [p EXCEPT !.en = "negar", !.faltan = sesiones[u]]]
    BY <1>2 DEF LeerSesiones, EnCurso, Ir
  <2>2. pet'[r].u = u /\ pet'[r].en = "negar" /\ pet'[r].faltan = sesiones[u]
    BY <1>1, <2>1 DEF PetT
  <2>3. QED
    BY <1>1, <2>2 DEF EnCurso
<1>3. CASE Negar(r)
  <2>1. p.en = "negar" /\ u = p.u /\ j \in p.faltan
    BY <1>3 DEF Negar, EnCurso
  <2>2. PICK k \in p.faltan : /\ pet' = [pet EXCEPT ![r] = [p EXCEPT !.faltan = @ \ {k}]]
                              /\ \/ negra' = blacklist_token(k, TtlCierre)
                                 \/ cortado' = cortado \cup {u}
    BY <1>3, <2>1 DEF Negar, Ir
  <2>3. negra' = [negra EXCEPT ![k] = ahora + TtlCierre]
    BY <2>2, CuentasOK DEF blacklist_token
  <2>4. CASE k = j
    <3>1. negra'[j] = ahora + TtlCierre
      BY <1>1, <2>3, <2>4 DEF Base, TypeOK
    <3>2. token[j].exp \in Nat /\ ahora \in Nat /\ token[j].exp <= ahora + Vida
      BY <1>1, CuentasOK DEF Base, TypeOK, Tokens
    <3>3. QED
      BY <3>1, <3>2, CuentasOK
  <2>5. CASE k # j
    <3>1. pet'[r].u = u /\ pet'[r].en = "negar" /\ pet'[r].faltan = p.faltan \ {k}
      BY <1>1, <2>1, <2>2 DEF PetT
    <3>2. QED
      BY <2>1, <2>5, <3>1 DEF EnCurso
  <2>6. QED
    BY <2>4, <2>5
<1>4. CASE Morir(r)
  BY <1>4 DEF Morir, EnCurso
<1>5. QED
  BY <1>2, <1>3, <1>4 DEF Menor, EnCurso, Autenticar, register_session_from_token, Refrescar,
     CerrarSesion, Emitir, generate_authorization_code, LeerCodigo, Canjear, sync_user_from_google

LEMMA RevocadasMenor ==
  ASSUME Base, Revocaciones, NEW r \in Peticion, Menor(r)
  PROVE  Revocaciones'
<1>1. NegraCrece /\ antes' = antes /\ \A j \in DOMAIN token : token'[j] = token[j]
  BY PetMenor, RedisMenor, BaseMenor
<1>2. cortado \subseteq cortado'
  BY DEF Menor, Autenticar, register_session_from_token, Refrescar, CerrarSesion, LeerSesiones, Negar,
     Emitir, generate_authorization_code, LeerCodigo, Canjear, sync_user_from_google, Morir, historia
<1>3. \A x \in Peticion \ {r} : pet'[x] = pet[x]
  <2>1. \E q : pet' = [pet EXCEPT ![r] = q]
    BY PetMenor
  <2>2. QED
    BY <2>1 DEF Base, Peticiones
<1> SUFFICES ASSUME NEW u \in Usuario \ cortado', NEW j \in antes[u]  PROVE Revocado(u, j)'
  BY <1>1 DEF Revocaciones
<1>4. j \in DOMAIN token /\ j \in Jti /\ Revocado(u, j)
  BY <1>2 DEF Base, Tokens, TypeOK, Revocaciones
<1>5. CASE Negado(j)
  BY <1>1, <1>4, <1>5 DEF Revocado, Negado, NegraCrece
<1>6. ASSUME NEW x \in Peticion, EnCurso(x, u, j)  PROVE Revocado(u, j)'
  <2>1. CASE x = r
    <3>1. negra'[j] >= token[j].exp + Segundo \/ EnCurso(x, u, j)'
      BY <1>6, <2>1, RevocadoSigue
    <3>2. QED
      BY <1>1, <1>4, <3>1 DEF Revocado, Negado
  <2>2. CASE x # r
    BY <1>3, <1>6, <2>2 DEF Revocado, EnCurso
  <2>3. QED
    BY <2>1, <2>2
<1>7. QED
  BY <1>4, <1>5, <1>6 DEF Revocado

\* The other steps: none of them touches a request that is at a revocation,
\* and the commit of a new password starts one.
LEMMA RevocadasOtros ==
  ASSUME Base, Revocaciones, NEW r \in Peticion, pet[r].en \in {"libre", "leer", "commit"},
         \A x \in Peticion \ {r} : pet'[x] = pet[x], UNCHANGED <<negra, acortada, token>>,
         NEW u \in Usuario \ cortado, NEW j \in antes[u]
  PROVE  Revocado(u, j)'
BY DEF Revocaciones, Revocado, Negado, EnCurso

LEMMA RevocadasPaso == Base /\ Revocaciones /\ [Next]_vars => Revocaciones'
<1> SUFFICES ASSUME Base, Revocaciones, [Next]_vars  PROVE Revocaciones'
  OBVIOUS
<1>1. ASSUME NEW r \in Peticion, NEW q, pet' = [pet EXCEPT ![r] = q]
      PROVE  \A x \in Peticion \ {r} : pet'[x] = pet[x]
  BY <1>1 DEF Base, Peticiones
<1>2. ASSUME NEW r \in Peticion, NEW t \in Tipo, NEW u \in Usuario, NEW j \in {0} \cup Jti,
             NEW n \in Numero, Pedir(r, t, u, j, n)
      PROVE  Revocaciones'
  <2>1. UNCHANGED <<token, redis, antes, acortada, cortado>> /\ pet[r].en = "libre"
    BY <1>2, PetPedir
  <2>2. \E q : pet' = [pet EXCEPT ![r] = q]
    BY <1>2, PetPedir
  <2>3. QED
    BY <1>1, <2>1, <2>2, RevocadasOtros DEF Revocaciones, redis
<1>3. ASSUME NEW r \in Peticion, Leer(r)  PROVE Revocaciones'
  <2>1. UNCHANGED <<token, redis, historia>> /\ pet[r].en = "leer"
    BY <1>3, PetLeer
  <2>2. \E q : pet' = [pet EXCEPT ![r] = q]
    BY <1>3, PetLeer
  <2>3. QED
    BY <1>1, <2>1, <2>2, RevocadasOtros DEF Revocaciones, redis, historia
<1>4. ASSUME NEW r \in Peticion, Commit(r)  PROVE Revocaciones'
  <2> DEFINE p == pet[r]
  <2>1. UNCHANGED <<token, redis, acortada>> /\ p.en = "commit"
    BY <1>4, PetCommit
  <2>2. PICK q : /\ pet' = [pet EXCEPT ![r] = q]
                 /\ \/ q = Libre /\ p.tipo \notin {"cambiar", "reset"}
                    \/ /\ Sucesor(p, q) /\ q.en \in {"revocar", "emitir"}
                       /\ p.tipo \in {"cambiar", "reset"} <=> q.en = "revocar"
    BY <1>4, PetCommit
  <2>3. p.u \in Usuario
    BY <2>1 DEF Base, Peticiones, PetOK
  <2> SUFFICES ASSUME NEW u \in Usuario \ cortado', NEW j \in antes'[u]  PROVE Revocado(u, j)'
    BY DEF Revocaciones
  <2>4. CASE p.tipo \in {"cambiar", "reset"} /\ u = p.u
    <3>1. pet'[r] = q /\ q.u = u /\ q.en = "revocar"
      BY <2>2, <2>4 DEF Base, Peticiones, Sucesor
    <3>2. QED
      BY <3>1 DEF Revocado, EnCurso
  <2>5. CASE ~(p.tipo \in {"cambiar", "reset"} /\ u = p.u)
    <3>1. u \notin cortado /\ j \in antes[u]
      BY <1>4, <2>3, <2>5 DEF Commit, Base, Tokens
    <3>2. QED
      BY <1>1, <2>1, <2>2, <3>1, RevocadasOtros DEF redis
  <2>6. QED
    BY <2>4, <2>5
<1>5. CASE Pasar \/ UNCHANGED vars
  BY <1>5 DEF Pasar, vars, redis, historia, Revocaciones, Revocado, Negado, EnCurso
<1>6. QED
  BY <1>2, <1>3, <1>4, <1>5, Casos, RevocadasMenor

\* A token that was registered when a new password was committed is accepted no
\* more after the revocation, but in the two seconds around its end if it was
\* then revoked again for what was left of it: for any users and requests, any
\* lives of a token and any resolution of the clock.
THEOREM Revocadas == Spec => []RevocadasFuera
<1>1. Init => Revocaciones
  BY DEF Init, Revocaciones
<1>2. Spec => []Revocaciones
  BY <1>1, RevocadasPaso, BaseSiempre, PTL DEF Spec
<1>3. QED
  BY <1>2, BaseSiempre, DaRevocadas, PTL

-----------------------------------------------------------------------------
(* The cancellation of an account.                                         *)

\* What is active has its data.  What a request will write of them comes from
\* a cancellation of an active account, or is a rectification, or nothing.
Baja == {"cancelar", "retener"}
Entera(f) == f.activo => \A c \in Personal : f[c] # "anon"
EscribeDatos(p) ==
  IF p.tipo \in Baja
  THEN /\ p.leido.activo /\ Entera(p.leido) /\ ~p.nueva.activo
       /\ p.nueva.correo = "anon" /\ p.nueva.nombre = "anon" /\ p.nueva.rfc = RfcAnonimo(p.leido)
  ELSE /\ p.nueva.activo = p.leido.activo
       /\ \A c \in Personal : p.nueva[c] = p.leido[c] \/ (p.tipo = "rectificar" /\ p.nueva[c] = "nuevo")

\* An RFC that a request loaded is still there; one that a cancellation found
\* null still is, or was rectified beside it.
ConFila(p) == p.en = "commit" \/ (p.tipo \in ConToken /\ p.en \in {"sesion", "leer"})
Nulo(p, f, C) ==
  /\ p.leido.rfc # "nulo" => f.rfc # "nulo"
  /\ p.tipo \in Baja /\ p.leido.rfc = "nulo" => f.rfc = "nulo" \/ p.u \in C
DatosDe(p) ==
  /\ ConFila(p) => Nulo(p, usuario[p.u], cruzada)
  /\ p.tipo \in ConToken /\ ConFila(p) => p.leido.activo /\ Entera(p.leido)
  /\ p.en = "commit" => EscribeDatos(p)
Datos ==
  /\ CancelacionLimpia
  /\ \A u \in Usuario : Entera(usuario[u])
  /\ \A r \in Peticion : DatosDe(pet[r])

LEMMA DatosInicio == Init => Datos
<1> SUFFICES ASSUME Init  PROVE Datos
  OBVIOUS
<1>1. \A u \in Usuario : usuario[u].activo = TRUE /\ \A c \in Personal : usuario[u][c] # "anon"
  BY DEF Init, Nueva, Personal
<1>2. \A r \in Peticion : pet[r] = Libre /\ ~ConFila(Libre)
  BY LibreT DEF Init, ConFila
<1>3. QED
  BY <1>1, <1>2, LibreT DEF Datos, CancelacionLimpia, Entera, DatosDe

\* A request that only goes on.
LEMMA DatosSigue ==
  ASSUME Base, Datos, NEW r \in Peticion, UNCHANGED <<usuario, datos>>,
         NEW q, pet' = [pet EXCEPT ![r] = q], DatosDe(q)
  PROVE  Datos'
<1>1. pet'[r] = q /\ \A x \in Peticion \ {r} : pet'[x] = pet[x]
  BY DEF Base, Peticiones
<1>2. ASSUME NEW x \in Peticion  PROVE DatosDe(pet[x])'
  <2>1. DatosDe(pet'[x])
    BY <1>1 DEF Datos
  <2>2. QED
    BY <2>1 DEF DatosDe, datos
<1>3. QED
  BY <1>2 DEF Datos, CancelacionLimpia, datos

LEMMA DatosLeer ==
  ASSUME Base, Datos, NEW r \in Peticion, Leer(r)
  PROVE  Datos'
<1> DEFINE p == pet[r]
<1>1. UNCHANGED <<usuario, datos>> /\ p.en = "leer" /\ p.tipo \in Escribe
  BY PetLeer DEF historia
<1>2. PICK q : pet' = [pet EXCEPT ![r] = q] /\ (q = Libre \/ Decide(p, q))
  BY PetLeer
<1>3. p \in PetT /\ PetOK(r) /\ ahora \in 0..MaxReloj /\ usuario \in [Usuario -> Fila]
  BY DEF Base, TypeOK, Peticiones
<1>4. CASE q = Libre
  <2>1. DatosDe(Libre)
    BY LibreT DEF DatosDe, ConFila
  <2>2. QED
    BY <1>1, <1>2, <1>4, <2>1, DatosSigue
<1>5. CASE Decide(p, q)
  <2> DEFINE f == q.leido
             g == q.nueva
  <2>1. /\ q \in PetT /\ q.tipo = p.tipo /\ q.en = "commit" /\ f \in Fila /\ p.u \in Usuario
        /\ q.u = p.u
    BY <1>1, <1>3, <1>5 DEF Decide, Sucesor, PetT, PetOK
  <2>2. p.tipo \in ConToken => f = p.leido /\ f.activo /\ Entera(f) /\ Nulo(q, usuario[q.u], cruzada)
    BY <1>1, <1>5, <2>1 DEF Decide, Datos, DatosDe, ConFila, Nulo
  <2>3. p.tipo \notin ConToken => f = usuario[p.u] /\ Entera(f) /\ Nulo(q, usuario[q.u], cruzada)
    BY <1>5, <2>1 DEF Decide, Datos, Nulo
  <2>4. ASSUME p.tipo # "rectificar"  PROVE EscribeDatos(q)
    <3>1. g = Deja(p, f) /\ Permite(p, f)
      BY <1>5, <2>4 DEF Decide
    <3> HIDE DEF f, g
    <3>2. /\ g.activo = IF p.tipo \in {"cancelar", "retener"} THEN FALSE ELSE f.activo
          /\ g.correo = IF p.tipo \in {"cancelar", "retener"} THEN "anon" ELSE f.correo
          /\ g.nombre = IF p.tipo \in {"cancelar", "retener"} THEN "anon" ELSE f.nombre
          /\ g.rfc = IF p.tipo \in {"cancelar", "retener"} THEN RfcAnonimo(f) ELSE f.rfc
      BY <1>3, <2>1, <2>4, <3>1, DejaT
    <3>3. p.tipo \in Baja => f.activo /\ Entera(f)
      <4>1. ASSUME p.tipo = "cancelar"  PROVE f.activo /\ Entera(f)
        BY <2>2, <4>1 DEF ConToken
      <4>2. ASSUME p.tipo = "retener"  PROVE f.activo /\ Entera(f)
        BY <2>3, <3>1, <4>2 DEF ConToken, Permite
      <4>3. QED
        BY <4>1, <4>2 DEF Baja
    <3>4. CASE p.tipo \in Baja
      BY <2>1, <3>2, <3>3, <3>4 DEF EscribeDatos, Baja, f, g
    <3>5. CASE p.tipo \notin Baja
      BY <2>1, <3>2, <3>5 DEF EscribeDatos, Personal, Baja, f, g
    <3>6. QED
      BY <3>4, <3>5
  <2>5. ASSUME p.tipo = "rectificar"  PROVE EscribeDatos(q)
    <3>1. PICK c \in Personal : g = [f EXCEPT ![c] = "nuevo"]
      BY <1>5, <2>5 DEF Decide
    <3>2. DOMAIN f = Campo
      BY <2>1 DEF Fila, Campo
    <3>3. g.activo = f.activo /\ \A d \in Personal : g[d] = f[d] \/ g[d] = "nuevo"
      BY <3>1, <3>2 DEF Personal, Campo
    <3>4. QED
      BY <2>1, <2>5, <3>3 DEF EscribeDatos, Baja
  <2>6. DatosDe(q)
    BY <2>1, <2>2, <2>3, <2>4, <2>5 DEF DatosDe
  <2>7. QED
    BY <1>1, <1>2, <2>6, DatosSigue
<1>6. QED
  BY <1>2, <1>4, <1>5

\* What a commit does to the personal data of a row.
LEMMA DatosFila ==
  ASSUME Base, Datos, NEW r \in Peticion, Commit(r)
  PROVE  LET p == pet[r]
             f == usuario[p.u]
         IN \E g : /\ usuario' = [usuario EXCEPT ![p.u] = g] /\ usuario'[p.u] = g /\ p.u \in Usuario
                   /\ p.en = "commit" /\ EscribeDatos(p) /\ Nulo(p, f, cruzada) /\ Entera(f)
                   /\ p.leido \in Fila /\ f \in Fila
                   /\ g.activo = IF p.tipo \in Baja THEN FALSE ELSE f.activo
                   /\ \A c \in Personal : g[c] = IF p.nueva[c] # p.leido[c] THEN p.nueva[c] ELSE f[c]
<1> DEFINE p == pet[r]
           f == usuario[p.u]
           g == Update(f, p)
<1>1. p.en = "commit" /\ p \in PetT /\ PetOK(r) /\ usuario \in [Usuario -> Fila]
  BY PetCommit DEF Base, TypeOK, Peticiones
<1>2. p.u \in Usuario /\ f \in Fila /\ p.leido \in Fila /\ p.nueva \in Fila
  BY <1>1 DEF PetOK, PetT
<1>3. usuario' = [usuario EXCEPT ![p.u] = g]
  BY DEF Commit
<1>4. \A c \in Campo : g[c] = IF p.nueva[c] # p.leido[c] THEN p.nueva[c] ELSE f[c]
  BY <1>2, UpdateT
<1>5. EscribeDatos(p) /\ Nulo(p, f, cruzada) /\ Entera(f)
  BY <1>1, <1>2 DEF Datos, DatosDe, ConFila
<1>6. g.activo = (IF p.nueva.activo # p.leido.activo THEN p.nueva.activo ELSE f.activo)
      /\ \A c \in Personal : g[c] = IF p.nueva[c] # p.leido[c] THEN p.nueva[c] ELSE f[c]
  BY <1>4 DEF Campo, Personal
<1>7. usuario'[p.u] = g
  BY <1>1, <1>2, <1>3
<1> HIDE DEF g
<1>8. g.activo = IF p.tipo \in Baja THEN FALSE ELSE f.activo
  <2>1. p.nueva.activo \in BOOLEAN /\ p.leido.activo \in BOOLEAN
    BY <1>2 DEF Fila
  <2>2. QED
    BY <1>5, <1>6, <2>1 DEF EscribeDatos
<1>9. QED
  BY <1>1, <1>2, <1>3, <1>5, <1>6, <1>7, <1>8

LEMMA DatosCommit ==
  ASSUME Base, Datos, NEW r \in Peticion, Commit(r)
  PROVE  Datos'
<1> DEFINE p == pet[r]
           f == usuario[p.u]
<1>1. PICK g : /\ usuario' = [usuario EXCEPT ![p.u] = g] /\ usuario'[p.u] = g /\ p.u \in Usuario
               /\ p.en = "commit" /\ EscribeDatos(p) /\ Nulo(p, f, cruzada) /\ Entera(f)
               /\ p.leido \in Fila /\ f \in Fila
               /\ g.activo = IF p.tipo \in Baja THEN FALSE ELSE f.activo
               /\ \A c \in Personal : g[c] = IF p.nueva[c] # p.leido[c] THEN p.nueva[c] ELSE f[c]
  BY DatosFila
<1>2. \A u \in Usuario \ {p.u} : usuario'[u] = usuario[u]
  BY <1>1 DEF Base, TypeOK
<1>3. /\ rectificada' = CASE p.tipo \in {"cancelar", "retener"} -> rectificada \ {p.u}
                           [] p.tipo = "rectificar" -> rectificada \cup {p.u}
                           [] OTHER -> rectificada
      /\ cruzada' = IF /\ p.tipo = "rectificar" /\ p.leido.rfc = "nulo" /\ p.nueva.rfc # "nulo"
                       /\ \E x \in Peticion : pet[x].u = p.u /\ pet[x].tipo \in {"cancelar", "retener"}
                    THEN cruzada \cup {p.u} ELSE cruzada
  BY DEF Commit
<1>4. cruzada \subseteq cruzada' /\ \A u \in Usuario \ {p.u} : u \in rectificada' <=> u \in rectificada
  BY <1>3
<1>5. PICK q : /\ pet' = [pet EXCEPT ![r] = q]
               /\ \/ q = Libre
                  \/ Sucesor(p, q) /\ q.en \in {"revocar", "emitir"}
  BY PetCommit
<1>6. pet'[r] = q /\ ~ConFila(q) /\ q.en # "commit" /\ \A x \in Peticion \ {r} : pet'[x] = pet[x]
  BY <1>5, LibreT DEF Base, Peticiones, ConFila
<1>7. CASE p.tipo \in Baja
  <2>1. p.leido.rfc # "anon" /\ p.leido.correo # "anon" /\ p.leido.nombre # "anon"
    BY <1>1, <1>7 DEF EscribeDatos, Entera, Personal
  <2>2. /\ g.correo = "anon" /\ g.nombre = "anon"
        /\ g.rfc = IF p.leido.rfc = "nulo" THEN f.rfc ELSE "anon"
    BY <1>1, <1>7, <2>1 DEF EscribeDatos, RfcAnonimo, Personal
  <2>3. CancelacionLimpia'
    <3>1. g.rfc \in {"anon", "nulo"} \/ p.u \in cruzada
      BY <1>1, <1>7, <2>2 DEF Nulo
    <3>2. \A c \in Personal : g[c] \in {"anon", "nulo"} \/ (c = "rfc" /\ p.u \in cruzada')
      BY <1>4, <2>2, <3>1 DEF Personal
    <3>3. QED
      BY <1>1, <1>2, <1>4, <3>2 DEF CancelacionLimpia, Datos
  <2>4. \A u \in Usuario : Entera(usuario'[u])
    <3>1. Entera(g)
      BY <1>1, <1>7 DEF Entera
    <3>2. QED
      BY <1>1, <1>2, <3>1 DEF Datos
  <2>5. ASSUME NEW x \in Peticion \ {r}, NEW y, y = pet[x], ConFila(y)
        PROVE  Nulo(y, usuario'[y.u], cruzada')
    <3>1. Nulo(y, usuario[y.u], cruzada) /\ y.u \in Usuario
      BY <2>5 DEF Datos, DatosDe, Base, Peticiones, PetOK, ConFila
    <3>2. CASE y.u = p.u
      BY <1>1, <1>4, <2>2, <3>1, <3>2 DEF Nulo
    <3>3. CASE y.u # p.u
      BY <1>2, <1>4, <3>1, <3>3 DEF Nulo
    <3>4. QED
      BY <3>2, <3>3
  <2>6. QED
    BY <1>6, <2>3, <2>4, <2>5 DEF Datos, DatosDe
<1>8. CASE p.tipo \notin Baja
  <2>1. \A c \in Personal : g[c] = f[c] \/ (p.tipo = "rectificar" /\ g[c] = "nuevo")
    BY <1>1, <1>8 DEF EscribeDatos
  <2>2. Entera(g) /\ g.activo = f.activo
    BY <1>1, <1>8, <2>1 DEF Entera
  <2>3. CancelacionLimpia'
    <3>1. CASE p.tipo = "rectificar"
      BY <1>1, <1>2, <1>3, <1>4, <3>1 DEF CancelacionLimpia, Datos
    <3>2. CASE p.tipo # "rectificar"
      BY <1>1, <1>2, <1>3, <1>4, <1>8, <2>1, <2>2, <3>2 DEF CancelacionLimpia, Datos, Baja
    <3>3. QED
      BY <3>1, <3>2
  <2>4. \A u \in Usuario : Entera(usuario'[u])
    BY <1>1, <1>2, <2>2 DEF Datos
  <2>5. ASSUME NEW x \in Peticion \ {r}, NEW y, y = pet[x], ConFila(y)
        PROVE  Nulo(y, usuario'[y.u], cruzada')
    <3>1. Nulo(y, usuario[y.u], cruzada) /\ y.u \in Usuario
      BY <2>5 DEF Datos, DatosDe, Base, Peticiones, PetOK, ConFila
    <3>2. CASE y.u # p.u
      BY <1>2, <1>4, <3>1, <3>2 DEF Nulo
    <3>3. CASE y.u = p.u /\ g.rfc = f.rfc
      BY <1>1, <1>4, <3>1, <3>3 DEF Nulo
    <3>4. CASE y.u = p.u /\ g.rfc # f.rfc
      <4>1. p.tipo = "rectificar" /\ g.rfc = "nuevo" /\ p.nueva.rfc = "nuevo"
        BY <1>1, <1>8, <2>1, <3>4 DEF Personal
      <4>2. y.tipo \in Baja /\ y.leido.rfc = "nulo" => y.u \in cruzada'
        <5>1. CASE p.leido.rfc = "nulo"
          BY <1>3, <2>5, <3>4, <4>1, <5>1 DEF Baja
        <5>2. CASE p.leido.rfc # "nulo"
          BY <1>1, <1>4, <3>1, <3>4, <5>2 DEF Nulo
        <5>3. QED
          BY <5>1, <5>2
      <4>3. QED
        BY <1>1, <3>4, <4>1, <4>2 DEF Nulo
    <3>5. QED
      BY <3>2, <3>3, <3>4
  <2>6. QED
    BY <1>6, <2>3, <2>4, <2>5 DEF Datos, DatosDe
<1>9. QED
  BY <1>7, <1>8

LEMMA DatosPaso == Base /\ Datos /\ [Next]_vars => Datos'
<1> SUFFICES ASSUME Base, Datos, [Next]_vars  PROVE Datos'
  OBVIOUS
<1>1. ASSUME NEW r \in Peticion, NEW t \in Tipo, NEW u \in Usuario, NEW j \in {0} \cup Jti,
             NEW n \in Numero, Pedir(r, t, u, j, n)
      PROVE  Datos'
  <2>1. UNCHANGED <<usuario, datos>>
    BY <1>1, PetPedir
  <2>2. PICK q : pet' = [pet EXCEPT ![r] = q] /\ Llega(q, t, u, n)
    BY <1>1, PetPedir
  <2>3. DatosDe(q)
    BY <2>2 DEF Llega, DatosDe, ConFila
  <2>4. QED
    BY <2>1, <2>2, <2>3, DatosSigue
<1>2. ASSUME NEW r \in Peticion, Menor(r)  PROVE Datos'
  <2>1. UNCHANGED <<usuario, datos>> /\ pet[r].en # "libre"
    BY <1>2, PetMenor
  <2>2. PICK q : pet' = [pet EXCEPT ![r] = q] /\ (q = Libre \/ Menos(pet[r], q))
    BY <1>2, PetMenor
  <2>3. pet[r].u \in Usuario
    BY <2>1 DEF Base, Peticiones, PetOK
  <2>4. DatosDe(Libre)
    BY LibreT DEF DatosDe, ConFila
  <2>5. ASSUME Menos(pet[r], q)  PROVE DatosDe(q)
    <3>1. q.en # "commit" /\ q.tipo = pet[r].tipo
      BY <2>5 DEF Menos, Sucesor
    <3>2. CASE ~ConFila(q)
      BY <3>1, <3>2 DEF DatosDe
    <3>3. CASE ConFila(q)
      <4>1. q.tipo \in ConToken /\ q.en \in {"sesion", "leer"} /\ q.u = pet[r].u
        BY <2>5, <3>1, <3>3 DEF ConFila, Menos, Sucesor
      <4>2. \/ pet[r].en = "sesion" /\ q.leido = pet[r].leido
            \/ q.leido = usuario[pet[r].u] /\ q.leido.activo
        BY <2>5, <3>1, <4>1 DEF Menos
      <4>3. CASE pet[r].en = "sesion" /\ q.leido = pet[r].leido
        BY <3>1, <4>1, <4>3 DEF Datos, DatosDe, ConFila, Nulo
      <4>4. CASE q.leido = usuario[pet[r].u] /\ q.leido.activo
        BY <2>3, <3>1, <4>1, <4>4 DEF Datos, DatosDe, Nulo
      <4>5. QED
        BY <4>2, <4>3, <4>4
    <3>4. QED
      BY <3>2, <3>3
  <2>6. QED
    BY <2>1, <2>2, <2>4, <2>5, DatosSigue
<1>3. CASE Pasar \/ UNCHANGED vars
  <2>1. UNCHANGED <<usuario, datos, pet>>
    BY <1>3 DEF Pasar, vars, historia
  <2>2. QED
    BY <2>1 DEF datos, Datos, CancelacionLimpia, DatosDe
<1>4. QED
  BY <1>1, <1>2, <1>3, Casos, DatosLeer, DatosCommit

\* A cancellation and the retention job leave no personal data, whatever other
\* requests write columns of the row they had loaded before: but for an RFC they
\* found null and a rectification gave before they committed.
THEOREM Canceladas == Spec => []CancelacionLimpia
<1>1. Datos => CancelacionLimpia
  BY DEF Datos
<1>2. QED
  BY <1>1, DatosInicio, DatosPaso, BaseSiempre, PTL DEF Spec
-----------------------------------------------------------------------------
(* The lock of an account.                                                 *)

\* What a request will write of the count and the lock, from what it loaded.
EscribeCuenta(p) ==
  /\ p.tipo \notin EscribeBloqueo =>
       p.nueva.intentos = p.leido.intentos /\ p.nueva.hasta = p.leido.hasta
  /\ p.tipo \in {"reset", "cancelar"} \/ (p.tipo = "login" /\ p.n = p.leido.clave) =>
       p.nueva.intentos = 0 /\ p.nueva.hasta = 0
  /\ p.tipo = "login" /\ p.n # p.leido.clave =>
       /\ p.nueva.intentos = p.leido.intentos + 1
       /\ p.leido.intentos + 1 >= MaxIntentos => p.nueva.hasta # 0
       /\ p.leido.intentos + 1 < MaxIntentos => p.nueva.hasta = p.leido.hasta

\* Of a user whose writers of the lock never overlapped: the row counts the
\* failures, there is one writer, and what it loaded is what the row has.
Escritor(r, u) == pet[r].en # "libre" /\ pet[r].u = u /\ pet[r].tipo \in EscribeBloqueo
Cargado(r) ==
  pet[r].en = "commit" \/ (pet[r].tipo \in ConToken /\ pet[r].en \in {"sesion", "leer"})
CuentaDe(u) ==
  /\ usuario[u].intentos = seguidos[u]
  /\ usuario[u].hasta # 0 <=> usuario[u].intentos >= MaxIntentos
  /\ \A r, s \in Peticion : Escritor(r, u) /\ Escritor(s, u) => r = s
  /\ \A r \in Peticion : Escritor(r, u) /\ Cargado(r) =>
       pet[r].leido.intentos = usuario[u].intentos /\ pet[r].leido.hasta = usuario[u].hasta
Cuenta ==
  /\ \A u \in Usuario \ solapado : CuentaDe(u)
  /\ \A r \in Peticion : pet[r].en = "commit" => EscribeCuenta(pet[r])

LEMMA CuentaInicio == Init => Cuenta
<1> SUFFICES ASSUME Init  PROVE Cuenta
  OBVIOUS
<1>1. \A u \in Usuario : usuario[u].intentos = 0 /\ usuario[u].hasta = 0
  BY DEF Init, Nueva
<1>2. ~(0 >= MaxIntentos)
  BY Tiempos
<1>3. \A r \in Peticion : pet[r].en = "libre"
  BY LibreT DEF Init
<1>4. \A u \in Usuario : seguidos[u] = 0
  BY DEF Init
<1>5. QED
  BY <1>1, <1>2, <1>3, <1>4 DEF Cuenta, CuentaDe, Escritor, Cargado

\* A request that goes on, and has loaded the row as it is if it has loaded one.
LEMMA CuentaSigue ==
  ASSUME Base, Cuenta, NEW r \in Peticion, pet[r].en # "libre", UNCHANGED <<usuario, seguidos, solapado>>,
         NEW q, pet' = [pet EXCEPT ![r] = q],
         q.en = "commit" => EscribeCuenta(q),
         \/ q.en = "libre"
         \/ /\ q.tipo = pet[r].tipo
            /\ q.u = pet[r].u \/ q.tipo \notin EscribeBloqueo
            /\ (q.en = "commit" \/ (q.tipo \in ConToken /\ q.en \in {"sesion", "leer"})) =>
                 q.leido = usuario[pet[r].u] \/ (Cargado(r) /\ q.leido = pet[r].leido)
  PROVE  Cuenta'
<1>1. pet'[r] = q /\ \A x \in Peticion \ {r} : pet'[x] = pet[x]
  BY DEF Base, Peticiones
<1>2. ASSUME NEW u \in Usuario \ solapado  PROVE CuentaDe(u)'
  <2>1. CuentaDe(u)
    BY DEF Cuenta
  <2>2. \A x \in Peticion : Escritor(x, u)' => Escritor(x, u)
    BY <1>1 DEF Escritor
  <2>3. ASSUME NEW x \in Peticion, Escritor(x, u)', Cargado(x)'
        PROVE  /\ pet'[x].leido.intentos = usuario[u].intentos
               /\ pet'[x].leido.hasta = usuario[u].hasta
    <3>1. CASE x = r
      BY <1>1, <2>1, <2>2, <2>3, <3>1 DEF CuentaDe, Escritor, Cargado
    <3>2. CASE x # r
      BY <1>1, <2>1, <2>2, <2>3, <3>2 DEF CuentaDe, Cargado
    <3>3. QED
      BY <3>1, <3>2
  <2>4. QED
    BY <2>1, <2>2, <2>3 DEF CuentaDe
<1>3. ASSUME NEW x \in Peticion, pet'[x].en = "commit"  PROVE EscribeCuenta(pet'[x])
  <2>1. CASE x = r
    BY <1>1, <1>3, <2>1
  <2>2. CASE x # r
    BY <1>1, <1>3, <2>2 DEF Cuenta
  <2>3. QED
    BY <2>1, <2>2
<1>4. QED
  BY <1>2, <1>3 DEF Cuenta, EscribeCuenta

LEMMA CuentaPedir ==
  ASSUME Base, Cuenta, NEW r \in Peticion, NEW t \in Tipo, NEW v \in Usuario, NEW j \in {0} \cup Jti,
         NEW n \in Numero, Pedir(r, t, v, j, n)
  PROVE  Cuenta'
<1>1. usuario' = usuario /\ seguidos' = seguidos /\ pet[r].en = "libre"
      /\ solapado' = IF t \in EscribeBloqueo
                        /\ \E x \in Peticion : pet[x].en # "libre" /\ pet[x].u = v
                                               /\ pet[x].tipo \in EscribeBloqueo
                     THEN solapado \cup {v} ELSE solapado
  BY PetPedir DEF Pedir
<1>2. PICK q : pet' = [pet EXCEPT ![r] = q] /\ Llega(q, t, v, n)
  BY PetPedir
<1>3. pet'[r] = q /\ \A x \in Peticion \ {r} : pet'[x] = pet[x]
  BY <1>2 DEF Base, Peticiones
<1>4. q.tipo = t /\ q.u = v /\ q.en # "commit" /\ ~(t \in ConToken /\ q.en \in {"sesion", "leer"})
  BY <1>2 DEF Llega
<1>5. ASSUME NEW u \in Usuario \ solapado'  PROVE CuentaDe(u)'
  <2>1. CuentaDe(u)
    BY <1>1 DEF Cuenta
  <2>2. \A x \in Peticion \ {r} : Escritor(x, u)' <=> Escritor(x, u)
    BY <1>3 DEF Escritor
  <2>3. ~Cargado(r)' /\ \A x \in Peticion \ {r} : Cargado(x)' => Cargado(x)
    BY <1>3, <1>4 DEF Cargado
  <2>4. Escritor(r, u)' => \A x \in Peticion \ {r} : ~Escritor(x, u)
    BY <1>1, <1>3, <1>4 DEF Escritor
  <2>5. \A x, y \in Peticion : Escritor(x, u)' /\ Escritor(y, u)' => x = y
    BY <2>1, <2>2, <2>4 DEF CuentaDe
  <2>6. \A x \in Peticion : Escritor(x, u)' /\ Cargado(x)' =>
          pet'[x].leido.intentos = usuario[u].intentos /\ pet'[x].leido.hasta = usuario[u].hasta
    BY <1>3, <2>1, <2>2, <2>3 DEF CuentaDe
  <2>7. QED
    BY <1>1, <2>1, <2>5, <2>6 DEF CuentaDe
<1>6. \A x \in Peticion : pet'[x].en = "commit" => EscribeCuenta(pet'[x])
  BY <1>3, <1>4 DEF Cuenta
<1>7. QED
  BY <1>5, <1>6 DEF Cuenta, EscribeCuenta

LEMMA CuentaLeer ==
  ASSUME Base, Cuenta, NEW r \in Peticion, Leer(r)
  PROVE  Cuenta'
<1> DEFINE p == pet[r]
<1>1. UNCHANGED <<usuario, seguidos, solapado>> /\ p.en = "leer" /\ p.tipo \in Escribe
  BY PetLeer DEF historia
<1>2. PICK q : pet' = [pet EXCEPT ![r] = q] /\ (q = Libre \/ Decide(p, q))
  BY PetLeer
<1>3. p \in PetT /\ PetOK(r) /\ ahora \in 0..MaxReloj
  BY DEF Base, TypeOK, Peticiones
<1>4. CASE q = Libre
  BY <1>1, <1>2, <1>4, LibreT, CuentaSigue
<1>5. CASE Decide(p, q)
  <2> DEFINE f == q.leido
             g == q.nueva
  <2>1. q \in PetT /\ q.tipo = p.tipo /\ q.n = p.n /\ q.u = p.u /\ q.en = "commit" /\ f \in Fila
    BY <1>1, <1>5 DEF Decide, Sucesor, PetT
  <2>2. ASSUME p.tipo # "rectificar"  PROVE EscribeCuenta(q)
    <3>1. g = Deja(p, f)
      BY <1>5, <2>2 DEF Decide
    <3> HIDE DEF f, g
    <3>2. /\ p.tipo \in {"reset", "cancelar"} \/ (p.tipo = "login" /\ p.n = f.clave) =>
               g.intentos = 0 /\ g.hasta = 0
          /\ p.tipo = "login" /\ p.n # f.clave =>
               /\ g.intentos = f.intentos + 1
               /\ g.hasta = IF f.intentos + 1 >= MaxIntentos THEN ahora + Bloqueo ELSE f.hasta
          /\ p.tipo \notin EscribeBloqueo => g.intentos = f.intentos /\ g.hasta = f.hasta
      BY <1>3, <2>1, <2>2, <3>1, DejaT
    <3>3. f.intentos \in Nat /\ ahora + Bloqueo # 0
      BY <1>3, <2>1, CuentasOK DEF Fila
    <3>4. QED
      BY <2>1, <3>2, <3>3, CuentasOK DEF EscribeCuenta, f, g
  <2>3. ASSUME p.tipo = "rectificar"  PROVE EscribeCuenta(q)
    <3>1. PICK c \in Personal : g = [f EXCEPT ![c] = "nuevo"]
      BY <1>5, <2>3 DEF Decide
    <3>2. DOMAIN f = Campo
      BY <2>1 DEF Fila, Campo
    <3>3. g.intentos = f.intentos /\ g.hasta = f.hasta
      BY <3>1, <3>2 DEF Personal, Campo
    <3>4. QED
      BY <2>1, <2>3, <3>3 DEF EscribeCuenta, EscribeBloqueo
  <2>4. EscribeCuenta(q)
    BY <2>2, <2>3
  <2>5. q.leido = usuario[p.u] \/ (Cargado(r) /\ q.leido = p.leido)
    BY <1>1, <1>5 DEF Decide, Cargado
  <2>6. QED
    BY <1>1, <1>2, <2>1, <2>4, <2>5, CuentaSigue
<1>6. QED
  BY <1>2, <1>4, <1>5

\* The one writer of a user commits what follows from the row as it is.
LEMMA CuentaCommit ==
  ASSUME Base, Cuenta, NEW r \in Peticion, Commit(r)
  PROVE  Cuenta'
<1> DEFINE p == pet[r]
           f == usuario[p.u]
           g == Update(f, p)
           falla == p.tipo = "login" /\ p.n # p.leido.clave
<1>1. /\ p.en = "commit" /\ p \in PetT /\ PetOK(r) /\ usuario \in [Usuario -> Fila]
      /\ solapado' = solapado /\ seguidos \in [Usuario -> Nat] /\ p.tipo \in Escribe
  BY PetCommit DEF Base, TypeOK, Peticiones
<1>2. p.u \in Usuario /\ f \in Fila /\ p.leido \in Fila /\ p.nueva \in Fila
  BY <1>1 DEF PetOK, PetT
<1>3. /\ usuario' = [usuario EXCEPT ![p.u] = g]
      /\ seguidos' = IF p.tipo \notin EscribeBloqueo THEN seguidos
                     ELSE [seguidos EXCEPT ![p.u] = IF falla THEN @ + 1 ELSE 0]
  BY <1>2 DEF Commit
<1>4. /\ g.intentos = IF p.nueva.intentos # p.leido.intentos THEN p.nueva.intentos ELSE f.intentos
      /\ g.hasta = IF p.nueva.hasta # p.leido.hasta THEN p.nueva.hasta ELSE f.hasta
  <2>1. \A c \in Campo : g[c] = IF p.nueva[c] # p.leido[c] THEN p.nueva[c] ELSE f[c]
    BY <1>2, UpdateT
  <2>2. QED
    BY <2>1 DEF Campo
<1>5. EscribeCuenta(p)
  BY <1>1 DEF Cuenta
<1>6. \E q : /\ pet' = [pet EXCEPT ![r] = q]
             /\ q.en # "commit" /\ (q.en = "libre" \/ (q.tipo = p.tipo /\ q.u = p.u /\ q.en \in {"revocar", "emitir"}))
  BY PetCommit, LibreT DEF Sucesor
<1>7. PICK q : /\ pet'[r] = q /\ \A x \in Peticion \ {r} : pet'[x] = pet[x]
               /\ q.en # "commit" /\ (q.en = "libre" \/ (q.tipo = p.tipo /\ q.u = p.u /\ q.en \in {"revocar", "emitir"}))
  BY <1>6 DEF Base, Peticiones
<1>8. \A x \in Peticion : Cargado(x)' => x # r /\ Cargado(x)
  BY <1>7 DEF Cargado
<1>9. ASSUME NEW u  PROVE \A x \in Peticion : Escritor(x, u)' => Escritor(x, u)
  BY <1>1, <1>7 DEF Escritor
<1>10. usuario'[p.u] = g /\ \A u \in Usuario \ {p.u} : usuario'[u] = usuario[u] /\ seguidos'[u] = seguidos[u]
  BY <1>1, <1>2, <1>3
<1>11. ASSUME NEW u \in Usuario \ solapado  PROVE CuentaDe(u)'
  <2>1. CuentaDe(u)
    BY DEF Cuenta
  <2>2. \A x, y \in Peticion : Escritor(x, u)' /\ Escritor(y, u)' => x = y
    BY <1>9, <2>1 DEF CuentaDe
  <2>3. CASE u # p.u
    BY <1>7, <1>8, <1>9, <1>10, <2>1, <2>2, <2>3 DEF CuentaDe
  <2>4. CASE u = p.u /\ p.tipo \notin EscribeBloqueo
    <3>1. g.intentos = f.intentos /\ g.hasta = f.hasta /\ seguidos' = seguidos
      BY <1>3, <1>4, <1>5, <2>4 DEF EscribeCuenta
    <3> HIDE DEF g
    <3>2. QED
      BY <1>7, <1>8, <1>9, <1>10, <2>1, <2>2, <2>4, <3>1 DEF CuentaDe
  <2>5. CASE u = p.u /\ p.tipo \in EscribeBloqueo
    <3>1. Escritor(r, u) /\ Cargado(r)
      BY <1>1, <2>5 DEF Escritor, Cargado
    <3>2. p.leido.intentos = f.intentos /\ p.leido.hasta = f.hasta
      BY <2>1, <2>5, <3>1 DEF CuentaDe
    <3>3. f.intentos \in Nat /\ f.intentos = seguidos[u] /\ (f.hasta # 0 <=> f.intentos >= MaxIntentos)
      BY <1>2, <2>1, <2>5 DEF CuentaDe, Fila
    <3>4. g.intentos = p.nueva.intentos /\ g.hasta = p.nueva.hasta
      BY <1>4, <3>2
    <3> HIDE DEF g
    <3>5. seguidos'[u] = IF falla THEN seguidos[u] + 1 ELSE 0
      BY <1>1, <1>3, <2>5
    <3>6. g.intentos = seguidos'[u] /\ (g.hasta # 0 <=> g.intentos >= MaxIntentos)
      <4>1. CASE falla
        BY <1>5, <3>2, <3>3, <3>4, <3>5, <4>1, CuentasOK DEF EscribeCuenta
      <4>2. CASE ~falla
        BY <1>5, <2>5, <3>4, <3>5, <4>2, CuentasOK DEF EscribeCuenta, EscribeBloqueo
      <4>3. QED
        BY <4>1, <4>2
    <3>7. \A x \in Peticion : ~(Escritor(x, u)' /\ Cargado(x)')
      BY <1>8, <1>9, <2>1, <3>1 DEF CuentaDe
    <3>8. QED
      BY <1>10, <2>2, <2>5, <3>6, <3>7 DEF CuentaDe
  <2>6. QED
    BY <2>3, <2>4, <2>5
<1>12. \A x \in Peticion : pet'[x].en = "commit" => EscribeCuenta(pet'[x])
  BY <1>7 DEF Cuenta
<1>13. QED
  BY <1>1, <1>11, <1>12 DEF Cuenta, EscribeCuenta

LEMMA CuentaPaso == Base /\ Cuenta /\ [Next]_vars => Cuenta'
<1> SUFFICES ASSUME Base, Cuenta, [Next]_vars  PROVE Cuenta'
  OBVIOUS
<1>1. ASSUME NEW r \in Peticion, Menor(r)  PROVE Cuenta'
  <2>1. UNCHANGED <<usuario, seguidos, solapado>> /\ pet[r].en # "libre"
    BY <1>1, PetMenor
  <2>2. PICK q : pet' = [pet EXCEPT ![r] = q] /\ (q = Libre \/ Menos(pet[r], q))
    BY <1>1, PetMenor
  <2>3. CASE q = Libre
    BY <2>1, <2>2, <2>3, LibreT, CuentaSigue
  <2>4. CASE Menos(pet[r], q)
    <3>1. q.en # "commit" /\ q.tipo = pet[r].tipo
      BY <2>4 DEF Menos, Sucesor
    <3>2. q.u = pet[r].u \/ q.tipo \notin EscribeBloqueo
      BY <2>4 DEF Menos, Sucesor, EscribeBloqueo
    <3>3. q.tipo \in ConToken /\ q.en \in {"sesion", "leer"} =>
            q.leido = usuario[pet[r].u] \/ (Cargado(r) /\ q.leido = pet[r].leido)
      BY <2>4, <3>1 DEF Menos, Cargado
    <3>4. QED
      BY <2>1, <2>2, <3>1, <3>2, <3>3, CuentaSigue
  <2>5. QED
    BY <2>2, <2>3, <2>4
<1>2. CASE Pasar \/ UNCHANGED vars
  BY <1>2 DEF Pasar, vars, historia, Cuenta, CuentaDe, Escritor, Cargado, EscribeCuenta
<1>3. QED
  BY <1>1, <1>2, Casos, CuentaPedir, CuentaLeer, CuentaCommit

\* The lock and the failed logins agree, for any MAX_FAILED_LOGIN_ATTEMPTS and
\* any users whose writers of it do not overlap.
THEOREM Bloqueos == Spec => []BloqueoExacto
<1>1. Cuenta => BloqueoExacto
  BY DEF Cuenta, CuentaDe, BloqueoExacto
<1>2. QED
  BY <1>1, CuentaInicio, CuentaPaso, BaseSiempre, PTL DEF Spec
-----------------------------------------------------------------------------
(* What serves once.                                                       *)

Gastado(t, n) == <<t, n>> \in gastado
\* A request that will draw, or has drawn, number n.
Sacara(t, n) == \E r \in Peticion : pet[r].en # "libre" /\ pet[r].tipo = t /\ pet[r].num = n

\* A recovery token is the number of a request that ended; at most one row has
\* it, none once it was used, and none of those being used belongs to another.
Tokenes ==
  /\ \A u \in Usuario : usuario[u].reset <= pedidas
  /\ \A u, v \in Usuario : usuario[u].reset = usuario[v].reset /\ usuario[u].reset # 0 => u = v
  /\ \A u \in Usuario : ~Sacara("olvido", usuario[u].reset) /\ ~Gastado("reset", usuario[u].reset)
  /\ \A n \in Numero : Gastado("reset", n) => n # 0 /\ n <= pedidas /\ ~Sacara("olvido", n)
EscribeToken(p) ==
  CASE p.tipo = "reset" -> /\ p.n # 0 /\ p.n <= pedidas /\ p.leido.reset = p.n /\ p.nueva.reset = 0
                           /\ ~p.tarde /\ ~Sacara("olvido", p.n)
                           /\ \A v \in Usuario \ {p.u} : usuario[v].reset # p.n
    [] p.tipo = "olvido" -> p.nueva.reset = p.num
    [] p.tipo = "cancelar" -> p.nueva.reset = 0
    [] OTHER -> p.nueva.reset = p.leido.reset

\* An authorization code is in the table until it is used, and no other
\* request will draw it again.
Codigos ==
  /\ \A c \in DOMAIN codigo : c <= pedidas /\ ~Gastado("canjear", c) /\ ~Sacara("autorizar", c)
  /\ \A n \in Numero : Gastado("canjear", n) => n <= pedidas /\ ~Sacara("autorizar", n)
  /\ \A r \in Peticion : pet[r].en = "canjear" =>
       pet[r].n <= pedidas /\ ~pet[r].tarde /\ ~Sacara("autorizar", pet[r].n)

Uso ==
  /\ SinReuso /\ Tokenes /\ Codigos
  /\ \A r \in Peticion : pet[r].en # "libre" /\ pet[r].tarde => Gastado(pet[r].tipo, pet[r].n)
  /\ \A r \in Peticion : pet[r].en # "libre" /\ pet[r].tipo = "reset" => pet[r].n # 0
  /\ \A r \in Peticion : pet[r].en = "commit" => EscribeToken(pet[r])

LEMMA UsoInicio == Init => Uso
<1> SUFFICES ASSUME Init  PROVE Uso
  OBVIOUS
<1>1. \A u \in Usuario : usuario[u].reset = 0
  BY DEF Init, Nueva
<1>2. pedidas = 0 /\ gastado = {} /\ reuso = {} /\ DOMAIN codigo = {} /\ \A r \in Peticion : pet[r].en = "libre"
  BY LibreT DEF Init
<1>3. QED
  BY <1>1, <1>2 DEF Uso, SinReuso, Tokenes, Codigos, Gastado, Sacara

\* A request that goes on draws what it was going to draw, if anything.
LEMMA SacaraSigue ==
  ASSUME Base, NEW r \in Peticion, pet[r].en # "libre", NEW q, pet' = [pet EXCEPT ![r] = q],
         q = Libre \/ Sucesor(pet[r], q), NEW t, NEW n, Sacara(t, n)'
  PROVE  Sacara(t, n)
<1>1. pet'[r] = q /\ \A x \in Peticion \ {r} : pet'[x] = pet[x]
  BY DEF Base, Peticiones
<1>2. PICK x \in Peticion : pet'[x].en # "libre" /\ pet'[x].tipo = t /\ pet'[x].num = n
  BY DEF Sacara
<1>3. pet[x].en # "libre" /\ pet[x].tipo = t /\ pet[x].num = n
  BY <1>1, <1>2, LibreT DEF Sucesor
<1>4. QED
  BY <1>3 DEF Sacara

\* One that arrives brings the next number.
LEMMA SacaraPedir ==
  ASSUME Base, NEW r \in Peticion, pedidas' = pedidas + 1, NEW q, pet' = [pet EXCEPT ![r] = q],
         q.num = pedidas + 1, NEW s, NEW n, n <= pedidas, n \in Nat, Sacara(s, n)'
  PROVE  Sacara(s, n)
<1>1. pet'[r] = q /\ \A x \in Peticion \ {r} : pet'[x] = pet[x]
  BY DEF Base, Peticiones
<1>2. PICK x \in Peticion : pet'[x].en # "libre" /\ pet'[x].tipo = s /\ pet'[x].num = n
  BY DEF Sacara
<1>3. x # r
  BY <1>1, <1>2 DEF Base, TypeOK, Numero
<1>4. QED
  BY <1>1, <1>2, <1>3 DEF Sacara

\* What a step keeps that leaves the rows alone, when no request is going to
\* draw more than before, a new code was just drawn, and a code that is spent
\* leaves the table.
LEMMA UsoSigue ==
  ASSUME Base, Base', Uso, UNCHANGED <<usuario, reuso>>, pedidas' = pedidas \/ pedidas' = pedidas + 1,
         \A t : \A n \in 0..pedidas : Sacara(t, n)' => Sacara(t, n),
         NEW r \in Peticion, NEW q, pet' = [pet EXCEPT ![r] = q],
         q.en # "libre" /\ q.tarde => Gastado(q.tipo, q.n),
         q.en # "libre" /\ q.tipo = "reset" => q.n # 0,
         q.en = "commit" => EscribeToken(q),
         \A c \in DOMAIN codigo' : c \in DOMAIN codigo \/ (c <= pedidas /\ ~Gastado("canjear", c)
                                                           /\ ~Sacara("autorizar", c)'),
         \/ gastado' = gastado
         \/ /\ gastado' = gastado \cup {<<"canjear", pet[r].n>>} /\ pet[r].en = "canjear"
            /\ codigo' = [c \in DOMAIN codigo \ {pet[r].n} |-> codigo[c]],
         q.en = "canjear" => q.n <= pedidas /\ ~q.tarde /\ ~Sacara("autorizar", q.n)
  PROVE  Uso'
<1>1. pet'[r] = q /\ \A x \in Peticion \ {r} : pet'[x] = pet[x]
  BY DEF Base, Peticiones
<1>2. /\ pedidas \in Nat /\ pedidas <= pedidas' /\ pedidas' \in Nat
      /\ \A n \in Nat : n <= pedidas => n <= pedidas'
      /\ \A u \in Usuario : usuario[u].reset \in Nat
      /\ DOMAIN codigo \subseteq Nat /\ DOMAIN codigo' \subseteq Nat /\ Numero \subseteq Nat
      /\ \A x \in Peticion : pet'[x].n \in Nat
  <2>1. Numero \subseteq Nat /\ pedidas \in Nat
    BY CuentasOK DEF Numero, Base, TypeOK
  <2>2. \A u \in Usuario : usuario[u].reset \in Nat
    BY <2>1 DEF Base, TypeOK, Fila
  <2>3. DOMAIN codigo \subseteq Nat /\ DOMAIN codigo' \subseteq Nat
    BY <2>1 DEF Base, TypeOK, Numero
  <2>4. \A x \in Peticion : pet'[x].n \in Nat
    BY <2>1 DEF Base, Peticiones, PetT, Numero
  <2>5. QED
    BY <2>1, <2>2, <2>3, <2>4
<1>3. ASSUME NEW t, NEW n, n \in Nat, n <= pedidas, ~Sacara(t, n)  PROVE ~Sacara(t, n)'
  BY <1>2, <1>3
<1>4. /\ gastado \subseteq gastado'
      /\ \A n : Gastado("reset", n)' <=> Gastado("reset", n)
      /\ \A n : Gastado("canjear", n)' => \/ Gastado("canjear", n)
                                          \/ n = pet[r].n /\ pet[r].en = "canjear" /\ n \notin DOMAIN codigo'
  BY DEF Gastado
<1>5. Tokenes'
  <2>1. ASSUME NEW u \in Usuario, NEW k, k = usuario[u].reset
        PROVE  k <= pedidas' /\ ~Sacara("olvido", k)' /\ ~Gastado("reset", k)'
    <3>1. k \in Nat /\ k <= pedidas /\ ~Sacara("olvido", k) /\ ~Gastado("reset", k)
      BY <1>2, <2>1 DEF Uso, Tokenes
    <3>2. QED
      BY <1>2, <1>3, <1>4, <3>1
  <2>2. ASSUME NEW n \in Numero, Gastado("reset", n)'
        PROVE  n # 0 /\ n <= pedidas' /\ ~Sacara("olvido", n)'
    <3>1. n \in Nat /\ n # 0 /\ n <= pedidas /\ ~Sacara("olvido", n)
      BY <1>2, <1>4, <2>2 DEF Uso, Tokenes
    <3>2. QED
      BY <1>2, <1>3, <3>1
  <2>3. \A u, v \in Usuario : usuario[u].reset = usuario[v].reset /\ usuario[u].reset # 0 => u = v
    BY DEF Uso, Tokenes
  <2>4. QED
    BY <2>1, <2>2, <2>3 DEF Tokenes
<1>6. Codigos'
  <2>1. ASSUME NEW c \in DOMAIN codigo'
        PROVE  c <= pedidas' /\ ~Gastado("canjear", c)' /\ ~Sacara("autorizar", c)'
    <3>1. c \in Nat /\ c <= pedidas /\ ~Gastado("canjear", c) /\ ~Sacara("autorizar", c)'
      <4>1. CASE c \in DOMAIN codigo
        <5>1. c \in Nat /\ c <= pedidas /\ ~Gastado("canjear", c) /\ ~Sacara("autorizar", c)
          BY <1>2, <4>1 DEF Uso, Codigos
        <5>2. QED
          BY <1>3, <5>1
      <4>2. CASE c \notin DOMAIN codigo
        BY <1>2, <2>1, <4>2
      <4>3. QED
        BY <4>1, <4>2
    <3>2. QED
      BY <1>2, <1>4, <3>1
  <2>2. ASSUME NEW n \in Numero, Gastado("canjear", n)'
        PROVE  n <= pedidas' /\ ~Sacara("autorizar", n)'
    <3>1. n \in Nat /\ n <= pedidas /\ ~Sacara("autorizar", n)
      <4>1. CASE Gastado("canjear", n)
        BY <1>2, <4>1 DEF Uso, Codigos
      <4>2. CASE n = pet[r].n /\ pet[r].en = "canjear"
        BY <1>2, <4>2 DEF Uso, Codigos
      <4>3. QED
        BY <1>4, <2>2, <4>1, <4>2
    <3>2. QED
      BY <1>2, <1>3, <3>1
  <2>3. ASSUME NEW x \in Peticion, pet'[x].en = "canjear", NEW n, n = pet'[x].n
        PROVE  n <= pedidas' /\ ~pet'[x].tarde /\ ~Sacara("autorizar", n)'
    <3>1. n \in Nat /\ n <= pedidas /\ ~pet'[x].tarde /\ ~Sacara("autorizar", n)
      <4>1. CASE x = r
        BY <1>1, <1>2, <2>3, <4>1
      <4>2. CASE x # r
        BY <1>1, <1>2, <2>3, <4>2 DEF Uso, Codigos
      <4>3. QED
        BY <4>1, <4>2
    <3>2. QED
      BY <1>2, <1>3, <3>1
  <2>4. QED
    BY <2>1, <2>2, <2>3 DEF Codigos
<1>7. ASSUME NEW x \in Peticion, pet'[x].en # "libre"
      PROVE  /\ pet'[x].tarde => <<pet'[x].tipo, pet'[x].n>> \in gastado'
             /\ pet'[x].tipo = "reset" => pet'[x].n # 0
  <2>1. CASE x = r
    BY <1>1, <1>4, <1>7, <2>1 DEF Gastado
  <2>2. CASE x # r
    BY <1>1, <1>4, <1>7, <2>2 DEF Uso, Gastado
  <2>3. QED
    BY <2>1, <2>2
<1>8. ASSUME NEW x \in Peticion, pet'[x].en = "commit"  PROVE EscribeToken(pet[x])'
  <2>1. EscribeToken(pet'[x])
    <3>1. CASE x = r
      BY <1>1, <1>8, <3>1
    <3>2. CASE x # r
      BY <1>1, <1>8, <3>2 DEF Uso
    <3>3. QED
      BY <3>1, <3>2
  <2>2. pet'[x].n \in Nat
    BY <1>2
  <2>3. QED
    BY <1>2, <1>3, <2>1, <2>2 DEF EscribeToken
<1>9. QED
  BY <1>5, <1>6, <1>7, <1>8 DEF Uso, SinReuso, Gastado

LEMMA UsoPedir ==
  ASSUME Base, Base', Uso, NEW r \in Peticion, NEW t \in Tipo, NEW u \in Usuario, NEW j \in {0} \cup Jti,
         NEW n \in Numero, Pedir(r, t, u, j, n)
  PROVE  Uso'
<1> DEFINE q == [Libre EXCEPT !.en = IF t \in ConToken THEN "autenticar" ELSE "leer", !.tipo = t,
                   !.u = u, !.j = j, !.n = n, !.num = pedidas + 1, !.tarde = <<t, n>> \in gastado]
<1>1. /\ pet' = [pet EXCEPT ![r] = q] /\ pedidas' = pedidas + 1
      /\ UNCHANGED <<usuario, codigo, gastado, reuso>> /\ (t \in {"reset", "canjear"} => n # 0)
  BY DEF Pedir, Ir, redis, usos
<1>2. /\ q.en \in {"autenticar", "leer"} /\ q.tipo = t /\ q.n = n /\ q.num = pedidas + 1
      /\ q.tarde <=> <<t, n>> \in gastado
  BY DEF Libre
<1> HIDE DEF q
<1>3. pedidas \in Nat
  BY CuentasOK DEF Base, TypeOK, Numero
<1>4. ASSUME NEW s, NEW m \in 0..pedidas, Sacara(s, m)'  PROVE Sacara(s, m)
  <2>1. m <= pedidas /\ m \in Nat
    BY <1>3
  <2>2. QED
    BY <1>1, <1>2, <1>4, <2>1, SacaraPedir
<1>5. q.tarde => Gastado(q.tipo, q.n)
  BY <1>2 DEF Gastado
<1>6. QED
  BY <1>1, <1>2, <1>4, <1>5, UsoSigue
LEMMA UsoLeer ==
  ASSUME Base, Base', Uso, NEW r \in Peticion, Leer(r)
  PROVE  Uso'
<1> DEFINE p == pet[r]
<1>1. /\ UNCHANGED <<usuario, codigo, pedidas, gastado, reuso>> /\ p.en # "libre"
      /\ p.tipo \in Escribe /\ p \in PetT /\ PetOK(r)
      /\ ahora \in 0..MaxReloj /\ usuario \in [Usuario -> Fila]
  BY PetLeer DEF redis, historia, usos, Base, Peticiones, TypeOK
<1>2. PICK q : pet' = [pet EXCEPT ![r] = q] /\ (q = Libre \/ Decide(p, q))
  BY PetLeer
<1>3. ASSUME NEW s, NEW n \in 0..pedidas, Sacara(s, n)'  PROVE Sacara(s, n)
  BY <1>1, <1>2, <1>3, SacaraSigue DEF Decide
<1>4. CASE q = Libre
  BY <1>1, <1>2, <1>3, <1>4, LibreT, UsoSigue
<1>5. CASE Decide(p, q)
  <2>1. /\ Sucesor(p, q) /\ q.en = "commit" /\ q.leido \in Fila
        /\ p.tipo \notin ConToken => q.leido = usuario[p.u]
        /\ p.tipo # "rectificar" => Permite(p, q.leido) /\ q.nueva = Deja(p, q.leido)
        /\ p.tipo = "rectificar" => \E c \in Personal : q.nueva = [q.leido EXCEPT ![c] = "nuevo"]
        /\ q.tipo = p.tipo /\ q.n = p.n /\ q.num = p.num /\ q.tarde = p.tarde
    BY <1>5 DEF Decide, Sucesor, PetT
  <2>2. q.tarde => Gastado(q.tipo, q.n)
    BY <1>1, <2>1 DEF Uso
  <2>3. q.tipo = "reset" => q.n # 0
    BY <1>1, <2>1 DEF Uso
  <2>4. EscribeToken(q)
    <3>1. CASE p.tipo = "rectificar"
      BY <2>1, <3>1 DEF EscribeToken, Fila, Personal
    <3>2. CASE p.tipo # "rectificar"
      <4>1. q.nueva.reset = IF p.tipo = "olvido" THEN p.num
                            ELSE IF p.tipo \in {"reset", "cancelar"} THEN 0 ELSE q.leido.reset
        <5>1. p \in PetT /\ q.leido \in Fila /\ q.nueva = Deja(p, q.leido)
          BY <1>1, <2>1, <3>2
        <5>2. Deja(p, q.leido).reset = IF p.tipo = "olvido" THEN p.num
                                       ELSE IF p.tipo \in {"reset", "cancelar"} THEN 0 ELSE q.leido.reset
          BY <1>1, <3>2, <5>1, DejaT
        <5>3. QED
          BY <5>1, <5>2
      <4>2. CASE p.tipo = "reset"
        <5>1. q.leido = usuario[p.u] /\ q.leido.reset = p.n /\ p.u \in Usuario /\ p.n # 0
          BY <1>1, <2>1, <2>3, <4>2 DEF Permite, ConToken, PetOK
        <5>2. /\ p.n <= pedidas /\ ~Sacara("olvido", p.n) /\ ~Gastado("reset", p.n)
              /\ \A v \in Usuario \ {p.u} : usuario[v].reset # p.n
          BY <5>1 DEF Uso, Tokenes
        <5>3. q.u = p.u
          BY <2>1 DEF Sucesor
        <5>4. QED
          BY <2>1, <2>2, <4>1, <4>2, <5>1, <5>2, <5>3 DEF EscribeToken
      <4>3. CASE p.tipo # "reset"
        BY <2>1, <4>1, <4>3 DEF EscribeToken
      <4>4. QED
        BY <4>2, <4>3
    <3>3. QED
      BY <3>1, <3>2
  <2>5. QED
    BY <1>1, <1>2, <1>3, <2>1, <2>2, <2>3, <2>4, UsoSigue
<1>6. QED
  BY <1>2, <1>4, <1>5

LEMMA UsoMenor ==
  ASSUME Base, Base', Uso, NEW r \in Peticion, Menor(r)
  PROVE  Uso'
<1> DEFINE p == pet[r]
<1>1. UNCHANGED <<usuario, pedidas>> /\ p.en # "libre" /\ p \in PetT /\ PetOK(r) /\ pedidas \in Nat
  BY PetMenor, CuentasOK DEF Base, Peticiones, TypeOK, Numero
<1>2. PICK q : pet' = [pet EXCEPT ![r] = q] /\ (q = Libre \/ Menos(p, q))
  BY PetMenor
<1>3. ASSUME NEW s, NEW n \in 0..pedidas, Sacara(s, n)'  PROVE Sacara(s, n)
  BY <1>1, <1>2, <1>3, SacaraSigue DEF Menos
<1>4. pet'[r] = q /\ \A x \in Peticion \ {r} : pet'[x] = pet[x]
  BY <1>2 DEF Base, Peticiones
<1>5. /\ q.en # "commit"
      /\ q.en # "libre" /\ q.tarde => Gastado(q.tipo, q.n)
      /\ q.en # "libre" /\ q.tipo = "reset" => q.n # 0
      /\ q.en = "canjear" => q.n <= pedidas /\ ~q.tarde /\ ~Sacara("autorizar", q.n)
  <2>1. CASE q = Libre
    BY <2>1, LibreT
  <2>2. CASE Menos(p, q)
    <3>1. q.tipo = p.tipo /\ q.n = p.n /\ q.tarde = p.tarde /\ q.en # "commit"
          /\ (q.en = "canjear" => p.tipo = "canjear" /\ p.n \in DOMAIN codigo)
      BY <2>2 DEF Menos, Sucesor
    <3>2. /\ p.tarde => Gastado(p.tipo, p.n)
          /\ p.tipo = "reset" => p.n # 0
          /\ p.n \in DOMAIN codigo => p.n <= pedidas /\ ~Gastado("canjear", p.n) /\ ~Sacara("autorizar", p.n)
      BY <1>1 DEF Uso, Codigos
    <3>3. QED
      BY <3>1, <3>2
  <2>3. QED
    BY <1>2, <2>1, <2>2
<1>6. CASE generate_authorization_code(r)
  <2>1. /\ UNCHANGED <<gastado, reuso>> /\ pet' = [pet EXCEPT ![r] = Libre] /\ p.tipo = "autorizar"
        /\ DOMAIN codigo' = DOMAIN codigo \cup {p.num}
    BY <1>6 DEF generate_authorization_code, historia, usos, Fin, Ir
  <2>2. p.num <= pedidas /\ p.num \in Numero
    BY <1>1 DEF PetOK, PetT
  <2>3. ~Gastado("canjear", p.num)
    <3>1. Sacara("autorizar", p.num)
      BY <1>1, <2>1 DEF Sacara
    <3>2. QED
      BY <2>2, <3>1 DEF Uso, Codigos
  <2>4. ASSUME NEW k, k = p.num  PROVE ~Sacara("autorizar", k)'
    <3>1. ASSUME NEW x \in Peticion, pet'[x].en # "libre", pet'[x].num = k  PROVE FALSE
      BY <1>1, <1>4, <2>1, <2>4, <3>1, LibreT DEF Base, Peticiones, Unicas
    <3>2. QED
      BY <3>1 DEF Sacara
  <2>5. ASSUME NEW c \in DOMAIN codigo'
        PROVE  c \in DOMAIN codigo \/ (c <= pedidas /\ ~Gastado("canjear", c) /\ ~Sacara("autorizar", c)')
    BY <2>1, <2>2, <2>3, <2>4
  <2>6. QED
    BY <1>1, <1>2, <1>3, <1>5, <2>1, <2>5, UsoSigue
<1>7. CASE Canjear(r)
  <2>1. /\ p.en = "canjear"
        /\ gastado' = gastado \/ gastado' = gastado \cup {<<"canjear", p.n>>}
        /\ codigo' = [c \in DOMAIN codigo \ {p.n} |-> codigo[c]]
        /\ reuso' = reuso \/ p.tarde
    BY <1>1, <1>7 DEF Canjear, Usar, usos, PetOK
  <2>2. ~p.tarde
    BY <2>1 DEF Uso, Codigos
  <2>3. QED
    BY <1>1, <1>2, <1>3, <1>5, <2>1, <2>2, UsoSigue
<1>8. CASE ~generate_authorization_code(r) /\ ~Canjear(r)
  <2>1. UNCHANGED <<codigo, gastado, reuso>>
    BY <1>8 DEF Menor, Autenticar, register_session_from_token, Refrescar, CerrarSesion,
       LeerSesiones, Negar, Emitir, LeerCodigo, sync_user_from_google, Morir, redis, historia, usos
  <2>2. QED
    BY <1>1, <1>2, <1>3, <1>5, <2>1, UsoSigue
<1>9. QED
  BY <1>6, <1>7, <1>8
LEMMA UsoCommit ==
  ASSUME Base, Base', Uso, NEW r \in Peticion, Commit(r)
  PROVE  Uso'
<1> DEFINE p == pet[r]
           f == usuario[p.u]
<1>1. /\ UNCHANGED <<codigo, pedidas>> /\ p.en = "commit" /\ p.tipo \in Escribe /\ p \in PetT
      /\ PetOK(r) /\ p.u \in Usuario /\ f \in Fila /\ EscribeToken(p) /\ pedidas \in Nat
  <2>1. UNCHANGED <<codigo, pedidas>> /\ p.en = "commit" /\ p.tipo \in Escribe
    BY PetCommit DEF redis
  <2>2. p \in PetT /\ PetOK(r) /\ pedidas \in Nat
    BY CuentasOK DEF Base, Peticiones, TypeOK, Numero
  <2>3. p.u \in Usuario
    BY <2>1, <2>2 DEF PetOK
  <2>4. f \in Fila /\ EscribeToken(p)
    BY <2>1, <2>3 DEF Base, TypeOK, Uso
  <2>5. QED
    BY <2>1, <2>2, <2>3, <2>4
<1>2. PICK q : /\ pet' = [pet EXCEPT ![r] = q]
               /\ \/ q = Libre /\ p.tipo \notin {"cambiar", "reset"}
                  \/ /\ Sucesor(p, q) /\ Vale(q) /\ q.en \in {"revocar", "emitir"}
                     /\ p.tipo \in {"cambiar", "reset"} <=> q.en = "revocar"
  BY PetCommit
<1>3. /\ pet'[r] = q /\ \A x \in Peticion \ {r} : pet'[x] = pet[x]
      /\ q = Libre \/ (q.en \in {"revocar", "emitir"} /\ Sucesor(p, q) /\ p.tipo # "olvido")
  <2>1. pet'[r] = q /\ \A x \in Peticion \ {r} : pet'[x] = pet[x]
    BY <1>2 DEF Base, Peticiones
  <2>2. q = Libre \/ (q.en \in {"revocar", "emitir"} /\ Sucesor(p, q) /\ p.tipo # "olvido")
    BY <1>2 DEF Vale, Sucesor
  <2>3. QED
    BY <2>1, <2>2
\* What the commit leaves in the column.
<1>4. /\ \A v \in Usuario \ {p.u} : usuario'[v] = usuario[v]
      /\ \A k : k = usuario'[p.u].reset =>
           /\ k = f.reset \/ k = 0 \/ (p.tipo = "olvido" /\ k = p.num)
           /\ p.tipo = "reset" => k = 0 \/ k # p.n
  <2>1. p.leido \in Fila /\ p.nueva \in Fila
    BY <1>1 DEF PetT
  <2>2. usuario' = [usuario EXCEPT ![p.u] = Update(f, p)] /\ usuario \in [Usuario -> Fila]
    BY DEF Commit, Base, TypeOK
  <2>3. usuario'[p.u] = Update(f, p) /\ \A v \in Usuario \ {p.u} : usuario'[v] = usuario[v]
    BY <1>1, <2>2
  <2>4. Update(f, p).reset = IF p.nueva.reset # p.leido.reset THEN p.nueva.reset ELSE f.reset
    BY <1>1, <2>1, UpdateT DEF Campo
  <2>5. CASE p.tipo = "reset"
    BY <1>1, <2>3, <2>4, <2>5 DEF EscribeToken
  <2>6. CASE p.tipo # "reset"
    BY <1>1, <2>3, <2>4, <2>6 DEF EscribeToken
  <2>7. QED
    BY <2>5, <2>6
<1>5. ASSUME NEW t, NEW n, Sacara(t, n)'  PROVE Sacara(t, n)
  BY <1>1, <1>2, <1>5, SacaraSigue
<1>6. \A t : ~Sacara(t, 0)
  BY DEF Sacara, Base, Peticiones, PetOK
<1>7. /\ reuso' = reuso /\ gastado \subseteq gastado'
      /\ \A n : Gastado("reset", n)' => Gastado("reset", n) \/ (p.tipo = "reset" /\ n = p.n)
      /\ \A n : Gastado("canjear", n)' => Gastado("canjear", n)
  <2>1. p.tipo = "reset" => ~p.tarde
    BY <1>1 DEF EscribeToken
  <2>2. QED
    BY <2>1 DEF Commit, Usar, usos, Gastado
<1>8. p.tipo = "olvido" =>
        /\ p.num <= pedidas /\ p.num \in Numero /\ Sacara("olvido", p.num) /\ ~Gastado("reset", p.num)
        /\ \A v \in Usuario : usuario[v].reset # p.num
  <2>1. SUFFICES ASSUME p.tipo = "olvido"
                 PROVE  /\ p.num <= pedidas /\ p.num \in Numero /\ Sacara("olvido", p.num)
                        /\ ~Gastado("reset", p.num) /\ \A v \in Usuario : usuario[v].reset # p.num
    OBVIOUS
  <2>2. p.num <= pedidas /\ p.num \in Numero /\ Sacara("olvido", p.num)
    BY <1>1, <2>1 DEF PetOK, PetT, Sacara
  <2>3. QED
    BY <2>2 DEF Uso, Tokenes
<1>9. ASSUME p.tipo = "olvido", NEW k, k = p.num  PROVE ~Sacara("olvido", k)'
  <2>1. ASSUME NEW x \in Peticion, pet'[x].en # "libre", pet'[x].num = k  PROVE FALSE
    BY <1>1, <1>3, <1>9, <2>1, LibreT DEF Base, Peticiones, Unicas
  <2>2. QED
    BY <2>1 DEF Sacara
<1>10. p.tipo = "reset" => /\ p.n # 0 /\ p.n <= pedidas /\ f.reset \in Nat /\ ~Sacara("olvido", p.n)
                           /\ \A v \in Usuario \ {p.u} : usuario[v].reset # p.n
  BY <1>1, CuentasOK DEF EscribeToken, Fila, Numero
<1>11. /\ \A u \in Usuario : usuario[u].reset <= pedidas /\ usuario[u].reset \in Nat
       /\ \A n \in Numero : Gastado("reset", n) => n # 0 /\ n <= pedidas /\ ~Sacara("olvido", n)
       /\ 0 \in Numero
  BY CuentasOK DEF Uso, Tokenes, Base, TypeOK, Fila, Numero
<1>12. Tokenes'
  <2>1. ASSUME NEW u \in Usuario, NEW k, k = usuario'[u].reset
        PROVE  k <= pedidas' /\ ~Sacara("olvido", k)' /\ ~Gastado("reset", k)'
    <3>1. CASE u # p.u
      <4>1. k = usuario[u].reset
        BY <1>4, <2>1, <3>1
      <4>2. k <= pedidas /\ ~Sacara("olvido", k) /\ ~Gastado("reset", k)
        BY <4>1 DEF Uso, Tokenes
      <4>3. QED
        BY <1>1, <1>5, <1>7, <1>10, <3>1, <4>1, <4>2
    <3>2. CASE u = p.u /\ k = 0
      BY <1>1, <1>5, <1>6, <1>7, <1>10, <1>11, <3>2
    <3>3. CASE u = p.u /\ k = f.reset /\ k # 0
      <4>1. k <= pedidas /\ ~Sacara("olvido", k) /\ ~Gastado("reset", k)
        BY <1>1, <3>3 DEF Uso, Tokenes
      <4>2. QED
        BY <1>1, <1>4, <1>5, <1>7, <2>1, <3>3, <4>1
    <3>4. CASE u = p.u /\ p.tipo = "olvido" /\ k = p.num
      BY <1>1, <1>7, <1>8, <1>9, <3>4
    <3>5. QED
      BY <1>4, <2>1, <3>1, <3>2, <3>3, <3>4
  <2>2. ASSUME NEW n \in Numero, Gastado("reset", n)'
        PROVE  n # 0 /\ n <= pedidas' /\ ~Sacara("olvido", n)'
    BY <1>1, <1>5, <1>7, <1>10, <1>11, <2>2
  <2>3. ASSUME NEW u \in Usuario, NEW v \in Usuario, usuario'[u].reset = usuario'[v].reset,
               usuario'[u].reset # 0
        PROVE  u = v
    <3>1. \A x, y \in Usuario : usuario[x].reset = usuario[y].reset /\ usuario[x].reset # 0 => x = y
      BY DEF Uso, Tokenes
    <3>2. QED
      BY <1>4, <1>8, <2>3, <3>1
  <2>4. QED
    BY <2>1, <2>2, <2>3 DEF Tokenes
<1>13. Codigos'
  <2>1. ASSUME NEW c \in DOMAIN codigo'
        PROVE  c <= pedidas' /\ ~Gastado("canjear", c)' /\ ~Sacara("autorizar", c)'
    BY <1>1, <1>5, <1>7 DEF Uso, Codigos
  <2>2. ASSUME NEW n \in Numero, Gastado("canjear", n)'
        PROVE  n <= pedidas' /\ ~Sacara("autorizar", n)'
    BY <1>1, <1>5, <1>7, <2>2 DEF Uso, Codigos
  <2>3. ASSUME NEW x \in Peticion, pet'[x].en = "canjear", NEW n, n = pet'[x].n
        PROVE  n <= pedidas' /\ ~pet'[x].tarde /\ ~Sacara("autorizar", n)'
    <3>1. x # r /\ pet'[x] = pet[x]
      BY <1>3, <2>3, LibreT
    <3>2. QED
      BY <1>1, <1>5, <2>3, <3>1 DEF Uso, Codigos
  <2>4. QED
    BY <2>1, <2>2, <2>3 DEF Codigos
<1>14. ASSUME NEW x \in Peticion, pet'[x].en # "libre"
       PROVE  /\ pet'[x].tarde => <<pet'[x].tipo, pet'[x].n>> \in gastado'
              /\ pet'[x].tipo = "reset" => pet'[x].n # 0
  <2>1. pet[x].en # "libre" /\ pet'[x].tarde = pet[x].tarde /\ pet'[x].tipo = pet[x].tipo /\ pet'[x].n = pet[x].n
    BY <1>1, <1>3, <1>14, LibreT DEF Sucesor
  <2>2. QED
    BY <1>7, <2>1 DEF Uso, Gastado
<1>15. ASSUME NEW x \in Peticion, pet'[x].en = "commit"  PROVE EscribeToken(pet[x])'
  <2>1. x # r /\ pet'[x] = pet[x] /\ EscribeToken(pet'[x])
    BY <1>3, <1>15, LibreT DEF Uso
  <2>2. CASE pet'[x].tipo = "reset"
    <3>1. ASSUME NEW v \in Usuario \ {pet'[x].u}, NEW n, n = pet'[x].n  PROVE usuario'[v].reset # n
      <4>1. n # 0 /\ ~Sacara("olvido", n) /\ usuario[v].reset # n
        BY <2>1, <2>2, <3>1 DEF EscribeToken
      <4>2. QED
        BY <1>4, <1>8, <4>1
    <3>2. ASSUME NEW n, n = pet'[x].n  PROVE ~Sacara("olvido", n)'
      BY <1>5, <2>1, <2>2, <3>2 DEF EscribeToken
    <3>3. QED
      BY <1>1, <2>1, <2>2, <3>1, <3>2 DEF EscribeToken
  <2>3. CASE pet'[x].tipo # "reset"
    BY <2>1, <2>3 DEF EscribeToken
  <2>4. QED
    BY <2>2, <2>3
<1>16. QED
  BY <1>7, <1>12, <1>13, <1>14, <1>15 DEF Uso, SinReuso, Gastado

LEMMA UsoPaso == Base /\ Base' /\ Uso /\ [Next]_vars => Uso'
<1> SUFFICES ASSUME Base, Base', Uso, [Next]_vars  PROVE Uso'
  OBVIOUS
<1>1. CASE Pasar \/ UNCHANGED vars
  <2>1. UNCHANGED <<usuario, codigo, pet, pedidas, gastado, reuso>>
    BY <1>1 DEF Pasar, vars, redis, historia, usos
  <2>2. QED
    BY <2>1 DEF Uso, SinReuso, Tokenes, Codigos, Gastado, Sacara, EscribeToken
<1>2. QED
  BY <1>1, Casos, UsoPedir, UsoLeer, UsoCommit, UsoMenor

\* What a finished request used, a recovery token or an authorization code, no
\* request that came after it uses again: for any requests, crashes and failures
\* of Redis.  Two requests that overlap may share one.
THEOREM UsosUnicos == Spec => []SinReuso
<1>1. Uso => SinReuso
  BY DEF Uso
<1>2. QED
  BY <1>1, UsoInicio, UsoPaso, BaseSiempre, PTL DEF Spec
=============================================================================
