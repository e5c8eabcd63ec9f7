CONSTANTS
  w1 = w1
  w2 = w2
  a1 = a1
  Worker = {w1, w2}
  Alta = {a1}
  SkuDe <- SuSku
  Sku = {1, 2, 3}
  Escenarios <- LosEscenarios
  MaxReintentos = 1
  MaxCola = 1
  MaxFallos = 1
SPECIFICATION SpecJusta
INVARIANTS TypeOK AvisosContados IntentosAcotados RegistroEntero
PROPERTIES AvisoTermina ImportacionCompleta
