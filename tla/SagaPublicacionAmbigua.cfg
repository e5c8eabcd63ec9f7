CONSTANTS
  s1 = s1
  s2 = s2
  p1 = p1
  p2 = p2
  i1 = i1
  Saga = {s1}
  Proceso = {p1}
  Item = {i1}
  ItemDe <- UnItem
  Cantidad <- Dos
  Existencias <- SoloTres
  Banderas = {{}}
  Fallas = {"ambigua"}
  MaxFallos = 1
SPECIFICATION Spec
PROPERTIES EstadoFinalEstable
CHECK_DEADLOCK FALSE
