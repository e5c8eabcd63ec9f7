------------------------------ MODULE Cuentas -------------------------------
(***************************************************************************)
(* The accounts: login and its lock, access and refresh tokens, the        *)
(* sessions in Redis and their revocation (auth.py, core/security.py,      *)
(* security/token_blacklist.py), the recovery of a password, the OAuth2    *)
(* code and the SSO (app/oauth), and the rights over personal data         *)
(* (usuarios.py, the retention job).                                       *)
(*                                                                         *)
(* A request loads the row of its user, takes its time (bcrypt) and flushes *)
(* only the columns it changed, computed from what it loaded; what it does *)
(* in Redis comes after its commit.  Requests run beside each other.       *)
(*                                                                         *)
(* A password and a recovery token are numbers, drawn in order.  The clock *)
(* counts ticks, Segundo of them to a second: a JWT and an entry of Redis  *)
(* are dated in whole seconds, a lock and a recovery token are not.  Left  *)
(* out: the registration of users, roles, the path of the gateway (header  *)
(* X-User-Id), which consults no token, and the expiry of a code (600 s).  *)
(***************************************************************************)
EXTENDS Naturals, FiniteSets

CONSTANTS
  Usuario, Peticion,
  MaxIntentos,   \* MAX_FAILED_LOGIN_ATTEMPTS
  Segundo,       \* ticks of the clock in a second
  Vida,          \* ACCESS_TOKEN_EXPIRE_MINUTES (900 s)
  Bloqueo,       \* ACCOUNT_BLOCK_MINUTES (900 s)
  TtlCierre,     \* the 3600 s of a revocation, RESET_TOKEN_EXPIRE_HOURS
  Abiertas,      \* sessions that were opened at time 0: jti to user
  Inicio,        \* when the clock starts
  Inactivos,     \* users whose ultimo_acceso_at is older than the retention
  MaxTokens, MaxPeticiones, MaxReloj, MaxFallos \* bounds

ASSUME CuentasOK ==
  /\ MaxIntentos \in Nat \ {0} /\ Segundo \in Nat \ {0}
  /\ Vida \in Nat \ {0} /\ Vida % Segundo = 0 /\ TtlCierre \in Nat
  /\ Vida + Segundo <= TtlCierre /\ Bloqueo \in Nat \ {0} /\ Inactivos \subseteq Usuario
  /\ MaxTokens \in Nat /\ \E k \in 0..MaxTokens : Abiertas \in [1..k -> Usuario]
  /\ MaxPeticiones \in Nat /\ MaxReloj \in Nat /\ MaxFallos \in Nat /\ Inicio \in 0..MaxReloj

VARIABLES
  usuario,   \* usuarios: the row of each user
  token,     \* the access tokens that were issued, by jti
  refresco,  \* users that hold a refresh token (they live a week)
  negra,     \* blacklist:<jti>: until when
  sesiones,  \* user_sessions:<id>
  codigo,    \* oauth_code:<code>: the user it was issued for
  pet,       \* pet[r]: where request r is and what it has loaded
  ahora, pedidas, fallos,
  antes,     \* history: tokens registered at the last change of password
  acortada,  \* history: tokens that were also revoked for what was left of them
  cortado,   \* history: users with a revocation that Redis did not take whole
  seguidos,  \* history: failed logins since the last success
  solapado,  \* history: users two of whose writers of the lock overlapped
  gastado,   \* history: what can be used once, and a finished request used
  reuso,     \* history: what was used by a request that began after that
  repetido,  \* history: what was used more than once, by whatever requests
  rectificada, \* history: users rectified by a request that ended after a cancellation
  cruzada    \* history: users whose null RFC was rectified beside a cancellation

redis == <<negra, sesiones, codigo>>
usos == <<gastado, reuso, repetido>>
datos == <<rectificada, cruzada>>
historia == <<antes, acortada, cortado, seguidos, solapado, usos, datos>>
vars == <<usuario, token, refresco, redis, pet, ahora, pedidas, fallos, historia>>

Jti == 1..MaxTokens
Numero == 0..MaxPeticiones
Personal == {"correo", "nombre", "rfc"}
Fila == [activo: BOOLEAN, clave: Numero, intentos: Nat, hasta: 0..(MaxReloj + Bloqueo),
         reset: Numero, resetHasta: 0..(MaxReloj + TtlCierre), usado: BOOLEAN,
         correo: {"real", "nuevo", "anon"}, nombre: {"real", "nuevo", "anon"},
         rfc: {"real", "nuevo", "anon", "nulo"}]
Nueva == [activo |-> TRUE, clave |-> 0, intentos |-> 0, hasta |-> 0, reset |-> 0,
          resetHasta |-> 0, usado |-> FALSE, correo |-> "real", nombre |-> "real", rfc |-> "real"]

ConToken == {"usar", "cerrar", "cambiar", "autorizar", "rectificar", "cancelar"}
EscribeBloqueo == {"login", "reset", "cancelar"}
Tipo == ConToken \cup EscribeBloqueo \cup {"refrescar", "logout", "olvido", "canjear", "sso",
                                           "retener"}

Libre == [en |-> "libre", tipo |-> "usar", u |-> 0, j |-> 0, n |-> 0, num |-> 0, leido |-> Nueva,
          nueva |-> Nueva, faltan |-> {}, tarde |-> FALSE]

\* A user need not have given an RFC.
Init ==
  /\ usuario \in [Usuario -> {Nueva, [Nueva EXCEPT !.rfc = "nulo"]}]
  /\ token = [j \in DOMAIN Abiertas |-> [u |-> Abiertas[j], correo |-> "real", exp |-> Vida]]
  /\ refresco = {Abiertas[j] : j \in DOMAIN Abiertas}
  /\ sesiones = [u \in Usuario |-> {j \in DOMAIN Abiertas : Abiertas[j] = u}]
  /\ negra = [j \in Jti |-> 0]
  /\ codigo = [c \in {} |-> 0]
  /\ pet = [r \in Peticion |-> Libre]
  /\ ahora = Inicio /\ pedidas = 0 /\ fallos = 0
  /\ antes = [u \in Usuario |-> {}] /\ acortada = {} /\ cortado = {}
  /\ seguidos = [u \in Usuario |-> 0] /\ solapado = {}
  /\ gastado = {} /\ reuso = {} /\ repetido = {} /\ rectificada = {} /\ cruzada = {}

-----------------------------------------------------------------------------
Ir(r, p) == pet' = [pet EXCEPT ![r] = p]
Fin(r) == Ir(r, Libre)
Falla == fallos < MaxFallos /\ fallos' = fallos + 1

\* jose takes a token until the second after the one it expires in.
Vivo(j) == j \in DOMAIN token /\ ahora < token[j].exp + Segundo
is_blacklisted(j) == ahora < negra[j]
is_user_blocked(f) == f.hasta > ahora

\* The columns a request changed, put on the row as it is.
Update(f, p) == [c \in DOMAIN f |-> IF p.nueva[c] # p.leido[c] THEN p.nueva[c] ELSE f[c]]

\* The whole seconds of a time.
Entero(t) == t - (t % Segundo)

Emitidos == Cardinality(DOMAIN token)
_create_token(u) ==
  /\ Emitidos < MaxTokens
  /\ token' = [j \in DOMAIN token \cup {Emitidos + 1} |->
                 IF j \in DOMAIN token THEN token[j]
                 ELSE [u |-> u, correo |-> usuario[u].correo, exp |-> Entero(ahora) + Vida]]

\* A request arrives. The number it brings is the password or the recovery
\* token the client has (its own number is one that nobody drew); a new one that
\* it asks for is the number of the request.
Pedir(r, t, u, j, n) ==
  /\ pet[r].en = "libre" /\ pedidas < MaxPeticiones
  /\ j # 0 <=> t \in ConToken \cup {"logout"}
  /\ j # 0 => j \in DOMAIN token /\ token[j].u = u
  /\ n # 0 => t \in {"login", "cambiar", "reset", "canjear"} /\ n <= pedidas + 1
  /\ t = "refrescar" => u \in refresco
  /\ t \in {"reset", "canjear"} => n # 0
  /\ t = "sso" => usuario[u].correo # "anon"
  /\ t = "retener" => u \in Inactivos
  /\ pedidas' = pedidas + 1
  /\ Ir(r, [Libre EXCEPT !.en = IF t \in ConToken THEN "autenticar" ELSE "leer", !.tipo = t,
              !.u = u, !.j = j, !.n = n, !.num = pedidas + 1,
              !.tarde = <<t, n>> \in gastado])
  /\ solapado' = IF t \in EscribeBloqueo
                    /\ \E x \in Peticion : pet[x].en # "libre" /\ pet[x].u = u
                                           /\ pet[x].tipo \in EscribeBloqueo
                 THEN solapado \cup {u} ELSE solapado
  /\ UNCHANGED <<usuario, token, refresco, redis, ahora, fallos, antes, acortada, cortado,
                 seguidos, usos, datos>>

-----------------------------------------------------------------------------
(* Tokens and sessions.                                                    *)

get_token_remaining_seconds(j) ==
  IF token[j].exp > ahora THEN Entero(token[j].exp - ahora) ELSE 0

\* Mutant: the time is added to what the entry had.
TtlSumado(j, s) == [negra EXCEPT ![j] = @ + s]
\* setex replaces the time the entry had, and refuses a time of zero.
blacklist_token(j, s) == IF s > 0 THEN [negra EXCEPT ![j] = ahora + s] ELSE negra

\* A token is revoked for what is left of it.
RevocarResto(j) ==
  LET s == get_token_remaining_seconds(j) IN
  /\ negra' = blacklist_token(j, s)
  /\ acortada' = IF s > 0 THEN acortada \cup {j} ELSE acortada

\* get_current_user with a bearer token: the token resolves by its address.
\* Without Redis none is revoked; one that comes from another address than
\* before is revoked now.
Autenticar(r) ==
  LET p == pet[r]
      f == usuario[p.u]
      vale == Vivo(p.j) /\ f.correo = token[p.j].correo /\ f.activo
      pasa == Ir(r, [p EXCEPT !.en = "sesion", !.leido = f]) /\ UNCHANGED <<negra, acortada>>
      robado == Fin(r) /\ RevocarResto(p.j)
  IN /\ p.en = "autenticar"
     /\ \/ /\ ~vale \/ is_blacklisted(p.j)
           /\ Fin(r) /\ UNCHANGED <<negra, acortada, fallos>>
        \/ vale /\ ~is_blacklisted(p.j) /\ (pasa \/ robado) /\ UNCHANGED fallos
        \/ vale /\ is_blacklisted(p.j) /\ Falla /\ (pasa \/ robado)
        \/ vale /\ Falla /\ Fin(r) /\ UNCHANGED <<negra, acortada>>
     /\ UNCHANGED <<usuario, token, refresco, sesiones, codigo, ahora, pedidas, antes, cortado,
                    seguidos, solapado, usos, datos>>

\* register_session_from_token, of a token with a second to live at least; an
\* error of Redis is swallowed.
register_session_from_token(r) ==
  LET p == pet[r]
      queda == Vivo(p.j) /\ get_token_remaining_seconds(p.j) > 0
  IN
  /\ p.en = "sesion"
  /\ \/ /\ sesiones' = [sesiones EXCEPT ![p.u] = IF queda THEN @ \cup {p.j} ELSE @]
        /\ UNCHANGED fallos
     \/ Falla /\ UNCHANGED sesiones
  /\ IF p.tipo \in {"login", "refrescar", "usar"} THEN Fin(r) ELSE Ir(r, [p EXCEPT !.en = "leer"])
  /\ UNCHANGED <<usuario, token, refresco, negra, codigo, ahora, pedidas, historia>>

\* refresh_token: neither the blacklist nor the password is consulted.
Refrescar(r) ==
  LET p == pet[r] IN
  /\ p.en = "leer" /\ p.tipo = "refrescar"
  /\ IF usuario[p.u].activo /\ usuario[p.u].correo # "anon"
     THEN _create_token(p.u) /\ Ir(r, [p EXCEPT !.en = "sesion", !.j = Emitidos + 1])
     ELSE Fin(r) /\ UNCHANGED token
  /\ UNCHANGED <<usuario, refresco, redis, ahora, pedidas, fallos, historia>>

\* close_session blacklists the jti of the path, whichever it is, for an hour;
\* logout the token it brings, for what is left of it.
CerrarSesion(r) ==
  LET p == pet[r] IN
  /\ p.en = "leer" /\ p.tipo \in {"logout", "cerrar"}
  /\ \/ /\ p.tipo = "cerrar" /\ \E k \in DOMAIN token : negra' = blacklist_token(k, TtlCierre)
        /\ UNCHANGED <<acortada, fallos>>
     \/ /\ p.tipo = "logout" /\ UNCHANGED fallos
        /\ IF Vivo(p.j) THEN RevocarResto(p.j) ELSE UNCHANGED <<negra, acortada>>
     \/ Falla /\ UNCHANGED <<negra, acortada>>
  /\ Fin(r)
  /\ UNCHANGED <<usuario, token, refresco, sesiones, codigo, ahora, pedidas, antes, cortado,
                 seguidos, solapado, usos, datos>>

\* revoke_all_user_tokens: the members of the set...
LeerSesiones(r) ==
  /\ pet[r].en = "revocar"
  /\ \/ /\ Ir(r, [pet[r] EXCEPT !.en = "negar", !.faltan = sesiones[pet[r].u]])
        /\ UNCHANGED <<fallos, cortado>>
     \/ Falla /\ cortado' = cortado \cup {pet[r].u} /\ Fin(r)
  /\ UNCHANGED <<usuario, token, refresco, redis, ahora, pedidas, antes, acortada, seguidos,
                 solapado, usos, datos>>

\* ... one by one; one that fails does not stop the others.
Negar(r) ==
  /\ pet[r].en = "negar"
  /\ IF pet[r].faltan = {} THEN Fin(r) /\ UNCHANGED <<negra, fallos, cortado>>
     ELSE \E j \in pet[r].faltan :
            /\ Ir(r, [pet[r] EXCEPT !.faltan = @ \ {j}])
            /\ \/ negra' = blacklist_token(j, TtlCierre) /\ UNCHANGED <<fallos, cortado>>
               \/ Falla /\ cortado' = cortado \cup {pet[r].u} /\ UNCHANGED negra
  /\ UNCHANGED <<usuario, token, refresco, sesiones, codigo, ahora, pedidas, antes, acortada,
                 seguidos, solapado, usos, datos>>

-----------------------------------------------------------------------------
(* The row: what each request makes of the one it loaded.                  *)

\* Mutant: a success leaves the count of failures.
SinReiniciar(f) == [f EXCEPT !.hasta = 0]
reset_failed_login_attempts(f) == [f EXCEPT !.intentos = 0, !.hasta = 0]

register_failed_login(f) ==
  [f EXCEPT !.intentos = @ + 1, !.hasta = IF f.intentos + 1 >= MaxIntentos THEN ahora + Bloqueo ELSE @]

\* Mutant: the token stays in the row, and unused.
SinGastar(f, n) == [f EXCEPT !.clave = n, !.intentos = 0, !.hasta = 0]
reset_password(f, n) ==
  [f EXCEPT !.clave = n, !.usado = TRUE, !.reset = 0, !.resetHasta = 0, !.intentos = 0,
            !.hasta = 0]

forgot_password(f, n) ==
  [f EXCEPT !.reset = n, !.resetHasta = ahora + TtlCierre, !.usado = FALSE]

\* Mutant: a field is forgotten.
SinRfc(f) == [f EXCEPT !.correo = "anon", !.nombre = "anon", !.activo = FALSE]
\* A user without an RFC is left without one.
Anonimizar(f) ==
  [f EXCEPT !.correo = "anon", !.nombre = "anon", !.activo = FALSE,
            !.rfc = IF f.rfc = "nulo" THEN "nulo" ELSE "anon"]

cancelar_usuario(f) ==
  [Anonimizar(f) EXCEPT !.intentos = 0, !.hasta = 0, !.reset = 0, !.resetHasta = 0, !.usado = FALSE]

\* What the request leaves when the row lets it, and whether it does.
Deja(p, f) ==
  CASE p.tipo = "login" -> IF p.n = f.clave THEN reset_failed_login_attempts(f)
                           ELSE register_failed_login(f)
    [] p.tipo = "cambiar" -> [f EXCEPT !.clave = p.num]
    [] p.tipo = "reset" -> reset_password(f, p.num)
    [] p.tipo = "olvido" -> forgot_password(f, p.num)
    [] p.tipo = "cancelar" -> cancelar_usuario(f)
    [] p.tipo = "retener" -> Anonimizar(f)
    [] OTHER -> f

Permite(p, f) ==
  CASE p.tipo = "login" -> f.correo # "anon" /\ f.activo /\ ~is_user_blocked(f)
    [] p.tipo = "cambiar" -> p.n = f.clave
    [] p.tipo = "reset" -> f.reset = p.n /\ ~f.usado /\ f.resetHasta >= ahora
    [] p.tipo = "olvido" -> f.correo # "anon" /\ f.activo
    [] p.tipo = "retener" -> f.activo
    [] OTHER -> TRUE

Escribe == {"login", "cambiar", "reset", "olvido", "cancelar", "retener", "rectificar"}

\* With a token the row is the one that get_current_user loaded.
Leer(r) ==
  LET p == pet[r]
      f == IF p.tipo \in ConToken THEN p.leido ELSE usuario[p.u]
  IN /\ p.en = "leer" /\ p.tipo \in Escribe
     /\ \/ p.tipo # "rectificar" /\ Permite(p, f)
           /\ Ir(r, [p EXCEPT !.en = "commit", !.leido = f, !.nueva = Deja(p, f)])
        \/ p.tipo # "rectificar" /\ ~Permite(p, f) /\ Fin(r)
        \/ p.tipo = "rectificar"
           /\ \E c \in Personal : Ir(r, [p EXCEPT !.en = "commit", !.nueva = [f EXCEPT ![c] = "nuevo"]])
     /\ UNCHANGED <<usuario, token, refresco, redis, ahora, pedidas, fallos, historia>>

\* Mutant: a recovery leaves the sessions open.
SinRevocar(p) ==
  IF p.tipo = "cambiar" THEN "revocar"
  ELSE IF p.tipo = "login" /\ p.n = p.leido.clave THEN "emitir"
  ELSE "libre"

\* What comes after the commit.
Sigue(p) ==
  IF p.tipo \in {"cambiar", "reset"} THEN "revocar"
  ELSE IF p.tipo = "login" /\ p.n = p.leido.clave THEN "emitir"
  ELSE "libre"

\* A recovery token or a code is used.
Usar(p) ==
  LET x == <<p.tipo, p.n>> IN
  /\ gastado' = gastado \cup {x}
  /\ reuso' = IF p.tarde THEN reuso \cup {x} ELSE reuso
  /\ repetido' = IF x \in gastado THEN repetido \cup {x} ELSE repetido

Commit(r) ==
  LET p == pet[r]
      falla == p.tipo = "login" /\ p.n # p.leido.clave
  IN /\ p.en = "commit"
     /\ usuario' = [usuario EXCEPT ![p.u] = Update(@, p)]
     /\ antes' = IF p.tipo \in {"cambiar", "reset"} THEN [antes EXCEPT ![p.u] = sesiones[p.u]] ELSE antes
     /\ cortado' = IF p.tipo \in {"cambiar", "reset"} THEN cortado \ {p.u} ELSE cortado
     /\ seguidos' = IF p.tipo \notin EscribeBloqueo THEN seguidos
                    ELSE [seguidos EXCEPT ![p.u] = IF falla THEN @ + 1 ELSE 0]
     /\ IF p.tipo = "reset" THEN Usar(p) ELSE UNCHANGED usos
     /\ rectificada' = CASE p.tipo \in {"cancelar", "retener"} -> rectificada \ {p.u}
                         [] p.tipo = "rectificar" -> rectificada \cup {p.u}
                         [] OTHER -> rectificada
     /\ cruzada' = IF /\ p.tipo = "rectificar" /\ p.leido.rfc = "nulo" /\ p.nueva.rfc # "nulo"
                      /\ \E x \in Peticion : pet[x].u = p.u /\ pet[x].tipo \in {"cancelar", "retener"}
                   THEN cruzada \cup {p.u} ELSE cruzada
     /\ IF Sigue(p) = "libre" THEN Fin(r) ELSE Ir(r, [p EXCEPT !.en = Sigue(p)])
     /\ UNCHANGED <<token, refresco, redis, ahora, pedidas, fallos, acortada, solapado>>

Emitir(r) ==
  /\ pet[r].en = "emitir"
  /\ _create_token(pet[r].u)
  /\ refresco' = refresco \cup {pet[r].u}
  /\ Ir(r, [pet[r] EXCEPT !.en = "sesion", !.j = Emitidos + 1])
  /\ UNCHANGED <<usuario, redis, ahora, pedidas, fallos, historia>>

-----------------------------------------------------------------------------
(* OAuth2 and SSO: tokens that no session registers until they are used.   *)

generate_authorization_code(r) ==
  LET p == pet[r] IN
  /\ p.en = "leer" /\ p.tipo = "autorizar"
  /\ codigo' = [c \in DOMAIN codigo \cup {p.num} |-> IF c = p.num THEN p.u ELSE codigo[c]]
  /\ Fin(r)
  /\ UNCHANGED <<usuario, token, refresco, negra, sesiones, ahora, pedidas, fallos, historia>>

\* exchange_code_for_token: the code is read, ...
LeerCodigo(r) ==
  LET p == pet[r] IN
  /\ p.en = "leer" /\ p.tipo = "canjear"
  /\ IF p.n \in DOMAIN codigo THEN Ir(r, [p EXCEPT !.en = "canjear", !.u = codigo[p.n]])
     ELSE Fin(r)
  /\ UNCHANGED <<usuario, token, refresco, redis, ahora, pedidas, fallos, historia>>

\* ... deleted, and exchanged if the address still has a user.
Canjear(r) ==
  LET p == pet[r]
      hay == usuario[p.u].correo # "anon"
  IN /\ p.en = "canjear"
     /\ codigo' = [c \in DOMAIN codigo \ {p.n} |-> codigo[c]]
     /\ IF hay THEN _create_token(p.u) /\ Usar(p) ELSE UNCHANGED <<token, usos>>
     /\ Fin(r)
     /\ UNCHANGED <<usuario, refresco, negra, sesiones, ahora, pedidas, fallos, antes, acortada,
                    cortado, seguidos, solapado, datos>>

\* handle_google_callback of a user that is there.
sync_user_from_google(r) ==
  LET p == pet[r] IN
  /\ p.en = "leer" /\ p.tipo = "sso"
  /\ IF usuario[p.u].correo # "anon" THEN _create_token(p.u) ELSE UNCHANGED token
  /\ Fin(r)
  /\ UNCHANGED <<usuario, refresco, redis, ahora, pedidas, fallos, historia>>

-----------------------------------------------------------------------------
\* The process dies: what was committed stays, what was to come does not.
Morir(r) ==
  /\ pet[r].en # "libre" /\ Falla
  /\ cortado' = IF pet[r].en \in {"revocar", "negar"} THEN cortado \cup {pet[r].u} ELSE cortado
  /\ Fin(r)
  /\ UNCHANGED <<usuario, token, refresco, redis, ahora, pedidas, antes, acortada, seguidos,
                 solapado, usos, datos>>

Pasar ==
  /\ ahora < MaxReloj
  /\ ahora' = ahora + 1
  /\ UNCHANGED <<usuario, token, refresco, redis, pet, pedidas, fallos, historia>>

Paso(r) ==
  \/ Autenticar(r) \/ register_session_from_token(r) \/ Refrescar(r) \/ CerrarSesion(r)
  \/ LeerSesiones(r) \/ Negar(r) \/ Leer(r) \/ Commit(r) \/ Emitir(r)
  \/ generate_authorization_code(r) \/ LeerCodigo(r) \/ Canjear(r) \/ sync_user_from_google(r)

\* The bound on requests is asked first, so that TLC looks at none beyond it.
Next ==
  \/ \E r \in Peticion :
       \/ /\ pedidas < MaxPeticiones
          /\ \E t \in Tipo, u \in Usuario, j \in {0} \cup Jti, n \in Numero : Pedir(r, t, u, j, n)
       \/ Paso(r) \/ Morir(r)
  \/ Pasar

Spec == Init /\ [][Next]_vars

-----------------------------------------------------------------------------
\* Types.
TypeOK ==
  /\ usuario \in [Usuario -> Fila]
  /\ DOMAIN token \subseteq Jti
  /\ \A j \in DOMAIN token : token[j].u \in Usuario /\ token[j].exp \in 0..(MaxReloj + Vida)
  /\ refresco \subseteq Usuario
  /\ negra \in [Jti -> 0..(MaxReloj + TtlCierre)]
  /\ sesiones \in [Usuario -> SUBSET DOMAIN token]
  /\ DOMAIN codigo \subseteq Numero
  /\ ahora \in 0..MaxReloj /\ pedidas \in Numero /\ fallos \in 0..MaxFallos
  /\ seguidos \in [Usuario -> Nat]

\* After a change or a recovery of the password has revoked the sessions, a
\* token that was registered when the new password was committed is accepted no
\* more, however late it is used; one that is then revoked again for what is
\* left of it (logout, use from another address) only gets back the last second
\* before it expires and the one it expires in.  Not if Redis failed or the
\* process died.
RevocadasFuera ==
  \A u \in Usuario \ cortado :
    (\A r \in Peticion : ~(pet[r].u = u /\ pet[r].en \in {"revocar", "negar"})) =>
      \A j \in antes[u] :
        Vivo(j) => is_blacklisted(j) \/ (j \in acortada /\ ahora + Segundo > token[j].exp)

\* An account has a lock exactly when it has had MAX_FAILED_LOGIN_ATTEMPTS
\* failed logins since its last success: the count in the row loses no failure
\* and keeps none, as long as no two requests that write it overlap.
BloqueoExacto ==
  \A u \in Usuario \ solapado : usuario[u].hasta # 0 <=> seguidos[u] >= MaxIntentos

\* A recovery token and an authorization code are not used again by a request
\* that comes after a use: only requests that are there together can share one,
\* whatever ran in between and whatever a late one writes over the row.
SinReuso == reuso = {}

\* What the code says of a recovery token and of a code: each is of a single use.
UnSoloUso == repetido = {}

\* A cancelled or retired account holds no personal data, unless a
\* rectification was committed after the cancellation; and but for an RFC that
\* was null and was given while the cancellation was under way.
CancelacionLimpia ==
  \A u \in Usuario \ rectificada :
    ~usuario[u].activo =>
      \A c \in Personal : usuario[u][c] \in {"anon", "nulo"} \/ (c = "rfc" /\ u \in cruzada)
=============================================================================
