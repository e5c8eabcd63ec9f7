CONSTANTS
  d1 = d1
  i1 = i1
  i2 = i2
  r1 = r1
  r2 = r2
  Pedido = {d1}
  Intento = {i1, i2}
  PedidoDe <- UnPedido
  Peticion = {r1, r2}
  Repite = FALSE
  MaxFallos = 0
SPECIFICATION Spec
INVARIANTS CobroUnico
CHECK_DEADLOCK FALSE
