CONSTANTS
  s1 = s1
  s2 = s2
  p1 = p1
  p2 = p2
  i1 = i1
  Saga = {s1, s2}
  Proceso = {p1}
  Item = {i1}
  ItemDe <- MismoItem
  Cantidad <- DosCadaUno
  Existencias <- TresOCuatro
  Banderas <- ConYSinCobro
  Fallas = {"ambigua", "bd"}
  MaxFallos = 1
SYMMETRY Simetria
SPECIFICATION Spec
INVARIANTS TypeOK ReservaRespalda
PROPERTIES LibroDeStock
CHECK_DEADLOCK FALSE
