CONSTANTS
  d1 = d1
  i1 = i1
  i2 = i2
  r1 = r1
  r2 = r2
  Pedido = {d1}
  Intento = {i1}
  PedidoDe <- UnIntento
  Peticion = {r1, r2}
  Repite = TRUE
  MaxFallos = 2
SPECIFICATION SpecJusta
INVARIANTS TypeOK PagoRespaldado ConfirmadoCobrado CobroAvisado
PROPERTIES CobroSeRegistra
CHECK_DEADLOCK FALSE
