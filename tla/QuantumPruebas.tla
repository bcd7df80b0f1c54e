--------------------------- MODULE QuantumPruebas ---------------------------
(***************************************************************************)
(* Proofs about Quantum, for any number of bursts and every algorithm.     *)
(***************************************************************************)
EXTENDS Quantum, FiniteSetTheorems, TLAPS

LEMMA IInvInicial == Init => IInv
<1> SUFFICES ASSUME Init PROVE IInv
  OBVIOUS
<1>1. TypeOK
  <2>1. 0 \in 0..MaxRafagas /\ canal \in Seq(Rafagas)
    BY MaxRafagasAssumption DEF Init
  <2>2. /\ timer \in [Rafagas -> {"no_creado", "wait", "dormir", "send", "fin"}]
        /\ cancelado \in [Rafagas -> BOOLEAN]
    BY DEF Init
  <2>3. QED
    BY <2>1, <2>2 DEF Init, TypeOK
<1>2. Turnos /\ CheckTrasEjecutar /\ ArmadoAlEnviar /\ BloqueoSinDesalojo
  BY DEF Init, Turnos, CheckTrasEjecutar, ArmadoAlEnviar, BloqueoSinDesalojo
<1>3. UnTemporizador
  BY DEF Init, UnTemporizador, Vivos
<1>4. QED
  BY <1>1, <1>2, <1>3 DEF IInv

-----------------------------------------------------------------------------
(* The dispatcher *)

LEMMA SeleccionarPcbIInv ==
    ASSUME IInv, SeleccionarPcb
    PROVE  IInv'
<1> USE DEF IInv, SeleccionarPcb, timers, ciclo
<1>1. TypeOK'
  <2>1. con_desalojo' \in BOOLEAN
    BY AlgoritmoQAssumption
  <2>2. rafaga' \in 0..MaxRafagas /\ corto_plazo' \in {"crear", "enviar"}
    BY MaxRafagasAssumption DEF TypeOK
  <2>3. QED
    BY <2>1, <2>2 DEF TypeOK
<1>2. Turnos'
  BY MaxRafagasAssumption DEF TypeOK, Turnos, Rafagas
<1>3. UnTemporizador'
  BY DEF UnTemporizador, Vivos
<1>4. CheckTrasEjecutar' /\ BloqueoSinDesalojo'
  BY DEF CheckTrasEjecutar, BloqueoSinDesalojo
<1>5. ArmadoAlEnviar'
  BY DEF Turnos, ArmadoAlEnviar
<1>6. QED
  BY <1>1, <1>2, <1>3, <1>4, <1>5

LEMMA IniciarInterrupcionIInv ==
    ASSUME IInv, IniciarInterrupcion
    PROVE  IInv'
<1> USE DEF IInv, IniciarInterrupcion, ciclo
<1>0. rafaga \in Rafagas /\ timer[rafaga] = "no_creado" /\ ~cancelado[rafaga]
  BY DEF Turnos
<1>1. TypeOK'
  BY <1>0 DEF TypeOK
<1>2. Turnos'
  BY <1>0 DEF TypeOK, Turnos, Rafagas
<1>3. UnTemporizador'
  BY <1>0 DEF UnTemporizador, Vivos, TypeOK, Turnos
<1>4. CheckTrasEjecutar' /\ BloqueoSinDesalojo'
  BY DEF CheckTrasEjecutar, BloqueoSinDesalojo
<1>5. ArmadoAlEnviar'
  BY DEF Turnos, ArmadoAlEnviar
<1>6. QED
  BY <1>1, <1>2, <1>3, <1>4, <1>5

LEMMA AvisarQuantumIInv ==
    ASSUME IInv, AvisarQuantum
    PROVE  IInv'
<1> USE DEF IInv, AvisarQuantum, timers, ciclo
<1>1. TypeOK'
  BY DEF TypeOK
<1>2. Turnos'
  BY DEF Turnos
<1>3. UnTemporizador'
  BY DEF UnTemporizador, Vivos, Turnos
<1>4. CheckTrasEjecutar' /\ BloqueoSinDesalojo'
  BY DEF CheckTrasEjecutar, BloqueoSinDesalojo
<1>5. ArmadoAlEnviar'
  \* The timer of the burst is alive: it waits, now with a unit, or it runs.
  <2>1. rafaga \in Rafagas /\ rafaga \in Vivos
    BY DEF UnTemporizador, Turnos
  <2>2. timer[rafaga] \in {"wait", "dormir", "send"}
    BY <2>1 DEF Vivos, Turnos, TypeOK
  <2>3. interrupcion_quantum' > 0
    BY DEF TypeOK
  <2>4. QED
    BY <2>2, <2>3 DEF ArmadoAlEnviar, Armado
<1>6. QED
  BY <1>1, <1>2, <1>3, <1>4, <1>5

LEMMA EnviarPcbIInv ==
    ASSUME IInv, EnviarPcb
    PROVE  IInv'
<1> USE DEF IInv, EnviarPcb, timers
<1>1. TypeOK'
  BY MaxRafagasAssumption DEF TypeOK
<1>2. Turnos'
  BY DEF Turnos
<1>3. UnTemporizador'
  BY DEF UnTemporizador, Vivos
<1>4. CheckTrasEjecutar' /\ BloqueoSinDesalojo'
  BY DEF CheckTrasEjecutar, BloqueoSinDesalojo
<1>5. ArmadoAlEnviar'
  BY DEF ArmadoAlEnviar, Armado
<1>6. QED
  BY <1>1, <1>2, <1>3, <1>4, <1>5

LEMMA AnalizarContextoRecibidoIInv ==
    ASSUME IInv, AnalizarContextoRecibido
    PROVE  IInv'
<1> USE DEF IInv, AnalizarContextoRecibido
<1>1. TypeOK'
  BY DEF TypeOK
<1>2. Turnos'
  <2>1. con_desalojo => th_timer = rafaga /\ rafaga \in Rafagas /\ rafaga \in Vivos
    BY DEF Turnos, UnTemporizador
  <2>2. \A t \in Rafagas : cancelado'[t] => cancelado[t] \/ t \in Vivos
    BY <2>1 DEF TypeOK
  <2>3. QED
    BY <2>1, <2>2 DEF Turnos, TypeOK, Vivos
<1>3. UnTemporizador'
  <2>1. CASE con_desalojo
    BY <2>1 DEF UnTemporizador, Vivos, Turnos, TypeOK
  <2>2. CASE ~con_desalojo
    BY <2>2 DEF UnTemporizador, Vivos
  <2>3. QED
    BY <2>1, <2>2
<1>4. CheckTrasEjecutar' /\ BloqueoSinDesalojo'
  BY DEF CheckTrasEjecutar, BloqueoSinDesalojo
<1>5. ArmadoAlEnviar'
  BY DEF ArmadoAlEnviar
<1>6. QED
  BY <1>1, <1>2, <1>3, <1>4, <1>5

-----------------------------------------------------------------------------
(* The timers.  None of their steps makes one alive or lets a quantum go. *)

LEMMA EnviarInterruptIInv ==
    ASSUME IInv, NEW t \in Rafagas, EnviarInterrupt(t)
    PROVE  IInv'
<1> USE DEF IInv, kernel, ciclo
<1> DEFINE Quieto == UNCHANGED <<kernel, cancelado, interrupcion, ciclo>>
<1>1. /\ Quieto
      /\ timer[t] \in {"wait", "dormir", "send"}
      /\ \E l \in {"wait", "dormir", "send", "fin"} :
            timer' = [timer EXCEPT ![t] = l] /\ (l = "fin" => cancelado[t])
  BY DEF EnviarInterrupt, EsperarQuantum, VencerQuantum, EnviarInterrupcion, Morir
<1>2. TypeOK'
  <2>1. CASE EsperarQuantum(t)
    BY <2>1 DEF TypeOK, EsperarQuantum
  <2>2. CASE VencerQuantum(t)
    BY <2>2 DEF TypeOK, VencerQuantum
  <2>3. CASE EnviarInterrupcion(t)
    BY <2>3 DEF TypeOK, EnviarInterrupcion
  <2>4. CASE Morir(t)
    BY <2>4 DEF TypeOK, Morir
  <2>5. QED
    BY <2>1, <2>2, <2>3, <2>4 DEF EnviarInterrupt
<1>3. Turnos'
  BY <1>1 DEF Turnos, TypeOK
<1>4. UnTemporizador'
  <2>1. Vivos' = Vivos
    BY <1>1 DEF Vivos, TypeOK
  <2>2. QED
    BY <1>1, <2>1 DEF UnTemporizador
<1>5. CheckTrasEjecutar' /\ BloqueoSinDesalojo'
  BY <1>1 DEF CheckTrasEjecutar, BloqueoSinDesalojo
<1>6. ArmadoAlEnviar'
  <2> SUFFICES ASSUME con_desalojo, corto_plazo = "enviar" \/ cpu \in {"execute", "check"}
               PROVE  Armado'
    BY <1>1 DEF ArmadoAlEnviar
  <2>1. Armado /\ rafaga' = rafaga
    BY <1>1 DEF ArmadoAlEnviar
  <2>2. rafaga \in Rafagas /\ Vivos = {rafaga} /\ ~cancelado[rafaga]
    BY DEF Turnos, UnTemporizador, Vivos
  <2>3. CASE EsperarQuantum(t)
    <3>1. t = rafaga
      BY <2>2, <2>3 DEF EsperarQuantum, Vivos
    <3>2. QED
      BY <2>1, <2>2, <2>3, <3>1 DEF EsperarQuantum, Armado, TypeOK
  <2>4. CASE VencerQuantum(t)
    BY <2>1, <2>2, <2>4 DEF VencerQuantum, Armado, TypeOK
  <2>5. CASE EnviarInterrupcion(t)
    BY <2>5 DEF EnviarInterrupcion, Armado, TypeOK
  <2>6. CASE Morir(t)
    BY <2>1, <2>2, <2>6 DEF Morir, Armado, TypeOK
  <2>7. QED
    BY <2>3, <2>4, <2>5, <2>6 DEF EnviarInterrupt
<1>7. QED
  BY <1>2, <1>3, <1>4, <1>5, <1>6

-----------------------------------------------------------------------------
(* The CPU *)

LEMMA AtenderKernelInterruptIInv ==
    ASSUME IInv, AtenderKernelInterrupt
    PROVE  IInv'
<1> USE DEF IInv, AtenderKernelInterrupt, kernel, timers, ciclo
<1>0. Head(canal) \in Rafagas /\ Tail(canal) \in Seq(Rafagas)
  BY DEF TypeOK
<1>1. TypeOK'
  BY <1>0 DEF TypeOK, Rafagas
<1>2. Turnos' /\ CheckTrasEjecutar' /\ BloqueoSinDesalojo'
  BY DEF Turnos, CheckTrasEjecutar, BloqueoSinDesalojo
<1>3. UnTemporizador'
  BY DEF UnTemporizador, Vivos
<1>4. ArmadoAlEnviar'
  BY <1>0, MaxRafagasAssumption DEF ArmadoAlEnviar, Armado, Rafagas
<1>5. QED
  BY <1>1, <1>2, <1>3, <1>4

LEMMA CicloDeInstruccionIInv ==
    ASSUME IInv, CicloDeInstruccion
    PROVE  IInv'
<1> USE DEF IInv, kernel, timers
<1>1. CASE Ejecutar
  BY <1>1 DEF Ejecutar, TypeOK, Turnos, UnTemporizador, Vivos, CheckTrasEjecutar,
              BloqueoSinDesalojo, ArmadoAlEnviar, Armado
<1>2. CASE CheckInterrupt
  BY <1>2 DEF CheckInterrupt, TypeOK, Turnos, UnTemporizador, Vivos, CheckTrasEjecutar,
              BloqueoSinDesalojo, ArmadoAlEnviar, Armado
<1>3. CASE BajarInterrupcion
  BY <1>3, MaxRafagasAssumption
     DEF BajarInterrupcion, TypeOK, Turnos, UnTemporizador, Vivos, CheckTrasEjecutar,
         BloqueoSinDesalojo, ArmadoAlEnviar, Armado
<1>4. QED
  BY <1>1, <1>2, <1>3 DEF CicloDeInstruccion

-----------------------------------------------------------------------------
LEMMA IInvPaso == IInv /\ [Next]_vars => IInv'
<1> SUFFICES ASSUME IInv, [Next]_vars PROVE IInv'
  OBVIOUS
<1>1. CASE PlanificarEjecucion
  BY <1>1, SeleccionarPcbIInv, IniciarInterrupcionIInv, AvisarQuantumIInv, EnviarPcbIInv,
     AnalizarContextoRecibidoIInv DEF PlanificarEjecucion
<1>2. CASE \E t \in Rafagas : EnviarInterrupt(t)
  BY <1>2, EnviarInterruptIInv
<1>3. CASE AtenderKernelInterrupt
  BY <1>3, AtenderKernelInterruptIInv
<1>4. CASE CicloDeInstruccion
  BY <1>4, CicloDeInstruccionIInv
<1>5. CASE UNCHANGED vars
  BY <1>5 DEF IInv, TypeOK, Turnos, UnTemporizador, Vivos, CheckTrasEjecutar, ArmadoAlEnviar,
              Armado, BloqueoSinDesalojo, vars, kernel, timers, ciclo
<1>6. QED
  BY <1>1, <1>2, <1>3, <1>4, <1>5 DEF Next

\* The inductive invariant of Quantum, from which the others follow.
THEOREM Invariante == Spec => []IInv
  BY IInvInicial, IInvPaso, PTL DEF Spec

\* The timer pthread_cancel finds is the one of the burst that is back, and no
\* other is alive.
THEOREM TemporizadorUnico == Spec => []UnTemporizador
<1>1. IInv => UnTemporizador
  BY DEF IInv
<1>2. QED
  BY <1>1, Invariante, PTL

\* The quantum of a burst with preemption is never lost.
THEOREM QuantumNoSePierde == Spec => []QuantumArmado
<1>1. IInv => QuantumArmado
  BY DEF IInv, ArmadoAlEnviar, Armado, QuantumArmado
<1>2. QED
  BY <1>1, Invariante, PTL

\* An IO or a memory fault never comes back as the end of a quantum.
THEOREM BloqueoNoEsDesalojo == Spec => []BloqueoSinDesalojo
<1>1. IInv => BloqueoSinDesalojo
  BY DEF IInv
<1>2. QED
  BY <1>1, Invariante, PTL

-----------------------------------------------------------------------------
(* Quanta armed, interrupts under way and bursts preempted *)

LEMMA Tipos ==
    ASSUME TypeOK
    PROVE  /\ IsFiniteSet(Corriendo) /\ EnMarcha \in Nat
           /\ IsFiniteSet(Armados) /\ Cardinality(Armados) \in Nat
           /\ Mensajes \in Nat /\ interrupcion_quantum \in Nat /\ desalojos \in Nat
           /\ Levantada \in Nat /\ PorAvisar \in Nat
<1>1. IsFiniteSet(Rafagas)
  BY MaxRafagasAssumption, FS_Interval DEF Rafagas
<1>2. IsFiniteSet(Corriendo) /\ IsFiniteSet(Armados)
  BY <1>1, FS_Subset DEF Corriendo, Armados
<1>3. Len(canal) \in Nat
  BY DEF TypeOK
<1>4. QED
  BY <1>2, <1>3, FS_CardinalityType DEF TypeOK, Levantada, PorAvisar, EnMarcha, Mensajes

LEMMA CuotaInicial == Init => Cuota
<1> SUFFICES ASSUME Init PROVE Cuota
  OBVIOUS
<1>1. TypeOK
  BY IInvInicial DEF IInv
<1>2. Corriendo = {} /\ Mensajes = 0 /\ Levantada = 0 /\ PorAvisar = 0
  BY DEF Init, Corriendo, Levantada, PorAvisar, Mensajes
<1>3. EnMarcha = 0 /\ Cardinality(Armados) \in Nat
  BY <1>1, <1>2, Tipos, FS_EmptySet DEF EnMarcha
<1>4. QED
  BY <1>2, <1>3 DEF Init, Cuota, PorVenir

LEMMA CuotaKernel ==
    ASSUME IInv, Cuota, PlanificarEjecucion
    PROVE  Cuota'
<1>1. TypeOK /\ TypeOK'
  BY IInvPaso DEF IInv, Next
<1>2. UNCHANGED <<desalojos, canal, interrupcion>>
  BY DEF PlanificarEjecucion, SeleccionarPcb, IniciarInterrupcion, AvisarQuantum, EnviarPcb,
         AnalizarContextoRecibido, ciclo
<1>3. Levantada' = Levantada
  BY <1>2 DEF IInv, Turnos, PlanificarEjecucion, SeleccionarPcb, IniciarInterrupcion, AvisarQuantum, EnviarPcb,
         AnalizarContextoRecibido, ciclo, Levantada
<1>4. CASE IniciarInterrupcion
  <2>1. rafaga \in Rafagas /\ timer[rafaga] = "no_creado"
    BY <1>4 DEF IInv, Turnos, IniciarInterrupcion
  <2>2. Corriendo' = Corriendo
    BY <1>1, <1>4, <2>1 DEF TypeOK, Corriendo, IniciarInterrupcion
  <2>3. Armados' = Armados \cup {rafaga} /\ rafaga \notin Armados
    BY <1>1, <1>4, <2>1 DEF TypeOK, Armados, IniciarInterrupcion
  <2>4. Cardinality(Armados') = Cardinality(Armados) + 1
    BY <1>1, <2>3, Tipos, FS_AddElement
  <2>5. PorAvisar' = 1 /\ PorAvisar = 0 /\ interrupcion_quantum' = interrupcion_quantum
    BY <1>4 DEF IniciarInterrupcion, PorAvisar
  <2>6. PorVenir' = PorVenir /\ PorVenir \in Nat
    <3>1. EnMarcha' = EnMarcha /\ Mensajes' = Mensajes
      BY <1>2, <2>2 DEF EnMarcha, Mensajes
    <3>2. QED
      BY <1>1, <1>3, <2>5, <3>1, Tipos DEF PorVenir
  <2>7. QED
    BY <1>1, <1>2, <2>4, <2>5, <2>6, Tipos DEF Cuota
<1>5. CASE AvisarQuantum
  <2>1. PorAvisar' = 0 /\ PorAvisar = 1
        /\ interrupcion_quantum' = interrupcion_quantum + 1
        /\ Corriendo' = Corriendo /\ Armados' = Armados
    BY <1>5 DEF AvisarQuantum, PorAvisar, timers, Corriendo, Armados
  <2>2. PorVenir' = PorVenir + 1 /\ PorVenir \in Nat
    <3>1. EnMarcha' = EnMarcha /\ Mensajes' = Mensajes
      BY <1>2, <2>1 DEF EnMarcha, Mensajes
    <3>2. QED
      BY <1>1, <1>3, <2>1, <3>1, Tipos DEF PorVenir
  <2>3. QED
    BY <1>1, <1>2, <2>1, <2>2, Tipos DEF Cuota
<1>6. CASE SeleccionarPcb \/ EnviarPcb \/ AnalizarContextoRecibido
  <2>1. PorAvisar' = 0 /\ PorAvisar = 0 /\ UNCHANGED <<interrupcion_quantum, timer>>
    BY <1>6 DEF SeleccionarPcb, EnviarPcb, AnalizarContextoRecibido, PorAvisar, timers
  <2>2. Corriendo' = Corriendo /\ Armados' = Armados
    BY <2>1 DEF Corriendo, Armados
  <2>3. PorVenir' = PorVenir
    BY <1>2, <1>3, <2>1, <2>2 DEF PorVenir, EnMarcha, Mensajes
  <2>4. QED
    BY <1>2, <2>1, <2>2, <2>3 DEF Cuota
<1>7. QED
  BY <1>4, <1>5, <1>6 DEF PlanificarEjecucion

LEMMA CuotaTimer ==
    ASSUME IInv, Cuota, NEW t \in Rafagas, EnviarInterrupt(t)
    PROVE  Cuota'
<1>1. TypeOK /\ TypeOK'
  BY IInvPaso DEF IInv, Next
<1>2. /\ UNCHANGED <<kernel, interrupcion, ciclo>>
      /\ \E l \in {"wait", "dormir", "send", "fin"} : timer' = [timer EXCEPT ![t] = l]
      /\ timer[t] # "no_creado"
  BY DEF EnviarInterrupt, EsperarQuantum, VencerQuantum, EnviarInterrupcion, Morir
<1>3. Armados' = Armados /\ Levantada' = Levantada /\ PorAvisar' = PorAvisar
      /\ desalojos' = desalojos
  BY <1>1, <1>2 DEF TypeOK, Armados, Levantada, PorAvisar, kernel, ciclo
<1>4. PorVenir' <= PorVenir /\ PorVenir \in Nat /\ PorVenir' \in Nat
  <2>1. CASE EsperarQuantum(t)
    <3>1. Corriendo' = Corriendo \cup {t} /\ t \notin Corriendo
      BY <1>1, <2>1 DEF TypeOK, Corriendo, EsperarQuantum
    <3>2. EnMarcha' = EnMarcha + 1
      BY <1>1, <3>1, Tipos, FS_AddElement DEF EnMarcha
    <3>3. interrupcion_quantum' = interrupcion_quantum - 1 /\ Mensajes' = Mensajes
          /\ interrupcion_quantum > 0
      BY <2>1 DEF EsperarQuantum, Mensajes
    <3>4. QED
      BY <1>1, <1>3, <3>2, <3>3, Tipos DEF PorVenir
  <2>2. CASE EnviarInterrupcion(t)
    <3>1. Corriendo' = Corriendo \ {t} /\ t \in Corriendo
      BY <1>1, <2>2 DEF TypeOK, Corriendo, EnviarInterrupcion
    <3>2. EnMarcha' = EnMarcha - 1 /\ EnMarcha' \in Nat
      BY <1>1, <3>1, Tipos, FS_RemoveElement, FS_CardinalityType DEF EnMarcha
    <3>3. interrupcion_quantum' = interrupcion_quantum
      BY <2>2 DEF EnviarInterrupcion
    <3>4. Mensajes' = Mensajes + 1
      BY <1>1, <2>2 DEF EnviarInterrupcion, TypeOK, Mensajes
    <3>5. QED
      BY <1>1, <1>3, <3>2, <3>3, <3>4, Tipos DEF PorVenir
  <2>3. CASE VencerQuantum(t) \/ Morir(t)
    <3>1. Corriendo' \subseteq Corriendo
      BY <1>1, <2>3 DEF TypeOK, Corriendo, VencerQuantum, Morir
    <3>2. EnMarcha' <= EnMarcha /\ EnMarcha' \in Nat
      BY <1>1, <3>1, Tipos, FS_Subset, FS_CardinalityType DEF EnMarcha
    <3>3. interrupcion_quantum' = interrupcion_quantum /\ Mensajes' = Mensajes
      BY <2>3 DEF VencerQuantum, Morir, Mensajes
    <3>4. QED
      BY <1>1, <1>3, <3>2, <3>3, Tipos DEF PorVenir
  <2>4. QED
    BY <2>1, <2>2, <2>3 DEF EnviarInterrupt
<1>5. QED
  BY <1>1, <1>3, <1>4, Tipos DEF Cuota

\* The sums of CuotaCpu: a message becomes the flag, the flag a preemption.
LEMMA Sumas ==
    ASSUME NEW d \in Nat, NEW m \in Nat, NEW l \in Nat, NEW l1 \in Nat
    PROVE  /\ l1 <= 1 => d + (m - 1) + l1 <= d + m + l
           /\ l1 <= l => d + m + l1 <= d + m + l
           /\ \A d1 \in Nat : d1 + l1 = d + l => d1 + m + l1 <= d + m + l
OBVIOUS

LEMMA Reordenar ==
    ASSUME NEW d \in Nat, NEW m \in Nat, NEW l \in Nat,
           NEW q \in Nat, NEW e \in Nat, NEW a \in Nat
    PROVE  /\ d + (q + e + m + l) + a = (d + m + l) + (q + e + a)
           /\ d + m + l \in Nat /\ q + e + a \in Nat
OBVIOUS

LEMMA Acotar ==
    ASSUME NEW x \in Nat, NEW y \in Nat, NEW z \in Nat, NEW n \in Nat, x <= y, y + z <= n
    PROVE  x + z <= n
OBVIOUS

LEMMA CuotaCpu ==
    ASSUME IInv, Cuota, AtenderKernelInterrupt \/ CicloDeInstruccion
    PROVE  Cuota'
<1>1. TypeOK /\ TypeOK'
  BY IInvPaso DEF IInv, Next
<1>2. UNCHANGED <<kernel, interrupcion_quantum, timers>>
  BY DEF AtenderKernelInterrupt, CicloDeInstruccion, Ejecutar, CheckInterrupt,
         BajarInterrupcion
<1>3. Corriendo' = Corriendo /\ Armados' = Armados /\ PorAvisar' = PorAvisar
      /\ interrupcion_quantum' = interrupcion_quantum
  BY <1>2 DEF Corriendo, Armados, PorAvisar, kernel, timers
<1>4. /\ Mensajes \in Nat /\ Mensajes' \in Nat /\ desalojos \in Nat /\ desalojos' \in Nat
      /\ Levantada \in Nat /\ Levantada' \in Nat
      /\ desalojos' + Mensajes' + Levantada' <= desalojos + Mensajes + Levantada
  <2>0. Levantada <= 1 /\ Levantada' <= 1
    BY DEF Levantada
  <2>1. /\ Mensajes \in Nat /\ Mensajes' \in Nat /\ desalojos \in Nat
        /\ desalojos' \in Nat /\ Levantada \in Nat /\ Levantada' \in Nat
    <3>1. Mensajes \in Nat /\ desalojos \in Nat
      BY <1>1 DEF TypeOK, Mensajes
    <3>2. Mensajes' \in Nat /\ desalojos' \in Nat
      BY <1>1 DEF TypeOK, Mensajes
    <3>3. Levantada \in Nat /\ Levantada' \in Nat
      BY DEF Levantada
    <3> QED BY ONLY <3>1, <3>2, <3>3
  <2>2. CASE AtenderKernelInterrupt
    <3>1. Mensajes' = Mensajes - 1 /\ desalojos' = desalojos
      BY <1>1, <2>2 DEF AtenderKernelInterrupt, TypeOK, ciclo, Mensajes
    <3>2. Levantada' <= 1
      BY <2>0
    <3>3. QED
      BY ONLY <2>1, <3>1, <3>2, Sumas
  <2>3. CASE Ejecutar \/ BajarInterrupcion
    <3>1. Mensajes' = Mensajes /\ desalojos' = desalojos /\ Levantada' <= Levantada
      BY <2>3 DEF Ejecutar, BajarInterrupcion, Levantada, Mensajes
    <3>2. QED
      BY <2>1, <3>1, Sumas
  <2>4. CASE CheckInterrupt
    <3>1. Mensajes' = Mensajes
      BY <2>4 DEF CheckInterrupt, Mensajes
    <3>2. desalojos' + Levantada' = desalojos + Levantada
      BY <1>1, <2>4 DEF CheckInterrupt, Levantada, TypeOK
    <3>3. QED
      BY <2>1, <3>1, <3>2, Sumas
  <2>5. QED
    BY <2>2, <2>3, <2>4 DEF CicloDeInstruccion
<1>5. EnMarcha' = EnMarcha
  BY <1>3 DEF EnMarcha
<1>6. /\ desalojos + (interrupcion_quantum + EnMarcha + Mensajes + Levantada) + PorAvisar
           <= Cardinality(Armados)
      /\ EnMarcha \in Nat /\ PorAvisar \in Nat /\ interrupcion_quantum \in Nat
      /\ Cardinality(Armados) \in Nat
  BY <1>1, Tipos DEF Cuota, PorVenir
<1>7. desalojos' + (interrupcion_quantum + EnMarcha + Mensajes' + Levantada') + PorAvisar
           <= Cardinality(Armados)
  <2> DEFINE x == desalojos' + Mensajes' + Levantada'
             y == desalojos + Mensajes + Levantada
             z == interrupcion_quantum + EnMarcha + PorAvisar
             n == Cardinality(Armados)
  <2>1. desalojos' + (interrupcion_quantum + EnMarcha + Mensajes' + Levantada') + PorAvisar
          = x + z /\ x \in Nat
    <3>1. /\ desalojos' \in Nat /\ Mensajes' \in Nat /\ Levantada' \in Nat
          /\ interrupcion_quantum \in Nat /\ EnMarcha \in Nat /\ PorAvisar \in Nat
      BY <1>4, <1>6
    <3> DEFINE d1 == desalojos'
               m1 == Mensajes'
               l1 == Levantada'
    <3>2. d1 \in Nat /\ m1 \in Nat /\ l1 \in Nat
      BY <3>1
    <3> HIDE DEF d1, m1, l1
    <3>3. /\ d1 + (interrupcion_quantum + EnMarcha + m1 + l1) + PorAvisar
               = (d1 + m1 + l1) + (interrupcion_quantum + EnMarcha + PorAvisar)
          /\ d1 + m1 + l1 \in Nat
      BY ONLY <3>1, <3>2, Reordenar
    <3>4. QED
      BY <3>3 DEF d1, m1, l1
  <2>2. desalojos + (interrupcion_quantum + EnMarcha + Mensajes + Levantada) + PorAvisar
          = y + z /\ y \in Nat /\ z \in Nat
    BY ONLY <1>4, <1>6, Reordenar
  <2>3. n \in Nat /\ y + z <= n /\ x <= y
    BY <1>4, <1>6, <2>2
  <2> HIDE DEF x, y, z, n
  <2>4. x + z <= n
    BY ONLY <2>1, <2>2, <2>3, Acotar
  <2>5. QED
    BY <2>1, <2>4 DEF n
<1>8. QED
  BY <1>3, <1>5, <1>7 DEF Cuota, PorVenir

\* Each quantum the kernel arms preempts at most one burst.
THEOREM DesalojosAcotados == Spec => []UnDesalojoPorQuantum
<1>1. Init => Cuota
  BY CuotaInicial
<1>2. IInv /\ Cuota /\ [Next]_vars => Cuota'
  <2> SUFFICES ASSUME IInv, Cuota, [Next]_vars PROVE Cuota'
    OBVIOUS
  <2>1. CASE UNCHANGED vars
    BY <2>1 DEF Cuota, PorVenir, PorAvisar, Levantada, EnMarcha, Mensajes, Corriendo,
                Armados, vars, kernel, timers, ciclo
  <2>2. QED
    BY <2>1, CuotaKernel, CuotaTimer, CuotaCpu DEF Next
<1>3. IInv /\ Cuota => UnDesalojoPorQuantum
  <2> SUFFICES ASSUME TypeOK, Cuota PROVE UnDesalojoPorQuantum
    BY DEF IInv
  <2>1. PorVenir \in Nat
    BY Tipos DEF PorVenir
  <2>2. QED
    BY <2>1, Tipos DEF Cuota, UnDesalojoPorQuantum
<1>4. QED
  BY <1>1, <1>2, <1>3, Invariante, PTL DEF Spec

\* Every field keeps its type: the timers, the messages, the flag and the CPU cycle never
\* leave the values the code gives them.
THEOREM TipoCorrecto == Spec => []TypeOK
<1>1. IInv => TypeOK
  BY DEF IInv
<1>2. QED
  BY <1>1, Invariante, PTL
=============================================================================
