\* Every race window open: what holds whatever the timing of the threads.
SPECIFICATION Spec
CONSTANTS
  MaxPid = 2
  MaxRafagas = 2
  Grado = 2
  Algoritmo = "FEEDBACK"
  DispositivosIO <- UnDispositivo
  NombresIO = {"DISCO", "TECLADO"}
  Carreras = {"banderas", "swap"}
CHECK_DEADLOCK FALSE
INVARIANTS
  TypeOK
  SinColaVacia
  SinProcesoOlvidado
  NadieEsperaEnVano
  TurnoDePageFault
