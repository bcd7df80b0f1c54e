\* Two processes: the dispatcher may free the PCB a thread has just pushed.
SPECIFICATION Spec
CONSTANTS
  MaxPid = 2
  MaxRafagas = 2
  Grado = 2
  Algoritmo = "FIFO"
  DispositivosIO <- UnDispositivo
  NombresIO = {}
  Carreras = {}
CHECK_DEADLOCK FALSE
INVARIANTS
  SinUsoTrasPublicar
