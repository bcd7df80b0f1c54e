\* One process at a time (GRADO_MAX_MULTIPROGRAMACION = 1): every process ends.
SPECIFICATION SpecJusta
CONSTANTS
  MaxPid = 2
  MaxRafagas = 3
  Grado = 1
  Algoritmo = "FEEDBACK"
  DispositivosIO <- UnDispositivo
  NombresIO = {"DISCO", "TECLADO"}
  Carreras = {"banderas"}
CHECK_DEADLOCK FALSE
INVARIANTS
  RespuestaPropia
  SinErrorDeMemoria
  FinalizarTrasLiberar
  SinUsoTrasPublicar
PROPERTIES
  TodoTermina
