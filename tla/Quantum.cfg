\* Three bursts of FEEDBACK, with and without preemption.
SPECIFICATION SpecJusta
CONSTANTS
  MaxRafagas = 3
  Algoritmo = "FEEDBACK"
CHECK_DEADLOCK FALSE
INVARIANTS
  TypeOK
  UnTemporizador
  QuantumArmado
  UnDesalojoPorQuantum
PROPERTIES
  QuantumSeCumple
