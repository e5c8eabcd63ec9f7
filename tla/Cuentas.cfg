CONSTANTS
  r1 = r1
  r2 = r2
  Usuario = {1}
  Peticion = {r1, r2}
  MaxIntentos = 2
  Segundo = 2
  Vida = 4
  Bloqueo = 1
  TtlCierre = 6
  Inactivos = {1}
  MaxTokens = 3
  Abiertas <- UnaSesion
  MaxPeticiones = 3
  Inicio = 1
  MaxReloj = 3
  MaxFallos = 1
SPECIFICATION Spec
SYMMETRY Simetria
INVARIANTS TypeOK RevocadasFuera BloqueoExacto SinReuso CancelacionLimpia
CHECK_DEADLOCK FALSE
