CONSTANTS
  r1 = r1
  r2 = r2
  Usuario = {1}
  Peticion = {r1, r2}
  MaxIntentos = 2
  Segundo = 1
  Vida = 1
  Bloqueo = 1
  TtlCierre = 4
  Inactivos = {1}
  MaxTokens = 3
  Abiertas <- UnaSesion
  MaxPeticiones = 3
  Inicio = 0
  MaxReloj = 1
  MaxFallos = 0
SPECIFICATION Spec
SYMMETRY Simetria
INVARIANTS UnSoloUso
CHECK_DEADLOCK FALSE
