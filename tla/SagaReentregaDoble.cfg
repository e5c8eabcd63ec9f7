CONSTANTS
  s1 = s1
  s2 = s2
  p1 = p1
  p2 = p2
  i1 = i1
  Saga = {s1}
  Proceso = {p1, p2}
  Item = {i1}
  ItemDe <- UnItem
  Cantidad <- Dos
  Existencias <- SoloTres
  Banderas = {{}}
  Fallas = {"conexion"}
  MaxFallos = 1
SPECIFICATION Spec
INVARIANTS EfectoUnaVez
CHECK_DEADLOCK FALSE
