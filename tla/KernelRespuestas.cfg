\* Two processes share the socket to the memory.
SPECIFICATION Spec
CONSTANTS
  MaxPid = 2
  MaxRafagas = 2
  Grado = 2
  Algoritmo = "FIFO"
  DispositivosIO <- UnDispositivo
  NombresIO = {}
  Carreras = {}
CHECK_DEADLOCK FALSE
INVARIANTS
  SinErrorDeMemoria
