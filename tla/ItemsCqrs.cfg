CONSTANTS
  r1 = r1
  r2 = r2
  q1 = q1
  lista = lista
  Item = {1, 2}
  Creados = {2}
  Peticion = {r1, r2}
  Lector = {q1}
  Listado = {lista}
  MaxEscrituras = 2
  MaxFallos = 1
SPECIFICATION SpecJusta
INVARIANTS TypeOK ProyeccionAlDia PrefijoAplicado CompletadaVisible
PROPERTIES Convergencia LecturaSeRenueva
CHECK_DEADLOCK FALSE
