CONSTANTS
  r1 = r1
  r2 = r2
  k1 = k1
  Item = {1, 2}
  TamPagina = 1
  Pagina = {1, 2}
  Peticion = {r1, r2}
  Imagen = {k1}
  Entradas <- Todas
  Iniciales <- DosONinguno
  Limite = 1
  MaxEscrituras = 2
  MaxPeticiones = 3
  MaxFallos = 1
SPECIFICATION SpecJusta
INVARIANTS TypeOK HistorialFiel TotalCuadra ImagenRespaldada RecorridoCompleto PaginaSolaAlDia SinAbrazo
PROPERTIES PeticionTermina
CHECK_DEADLOCK FALSE
