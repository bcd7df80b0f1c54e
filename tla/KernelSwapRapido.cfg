\* A memory that answers a page fault at once.
SPECIFICATION Spec
CONSTANTS
  MaxPid = 1
  MaxRafagas = 2
  Grado = 1
  Algoritmo = "FIFO"
  DispositivosIO <- UnDispositivo
  NombresIO = {}
  Carreras = {"swap"}
CHECK_DEADLOCK FALSE
PROPERTIES
  PageFaultRespetado
