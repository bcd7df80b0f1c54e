\* The life cycle of the processes, one more than Grado, without late flag stores or
\* early answers of the memory (KernelSwapRapido.cfg).
SPECIFICATION Spec
CONSTANTS
  MaxPid = 3
  MaxRafagas = 2
  Grado = 2
  Algoritmo = "FIFO"
  DispositivosIO <- UnDispositivo
  NombresIO = {"IMPRESORA"}
  Carreras = {}
CHECK_DEADLOCK FALSE
INVARIANTS
  DuenioUnico
  SinUsoIndebido
  GradoRespetado
  MemoriaAcotada
  AdmisionEnOrden
PROPERTIES
  RefinaCicloDeVida
  PageFaultRespetado
