------------------------------ MODULE Quantum ------------------------------
(***************************************************************************)
(* The quantum: the dispatcher of kernel/src/planificacion.c arms a timer  *)
(* thread for each burst with preemption and cancels it when the PCB is    *)
(* back; the timer sends an interrupt over a socket of its own; a thread   *)
(* of the CPU turns it into the flag its instruction cycle looks at.  The  *)
(* CPU has one flag, whoever runs when the interrupt gets there.           *)
(***************************************************************************)
EXTENDS Integers, Sequences, FiniteSets

CONSTANTS
    MaxRafagas,   \* bound: bursts dispatched
    Algoritmo     \* ALGORITMO_PLANIFICACION

ASSUME MaxRafagasAssumption == MaxRafagas \in Nat
ASSUME AlgoritmoQAssumption == Algoritmo \in {"FIFO", "RR", "FEEDBACK"}

Rafagas == 1..MaxRafagas

VARIABLES
    corto_plazo,           \* the dispatcher: the line it is about to run,
    rafaga, con_desalojo,  \*   the number of the burst, con_desalojo of its PCB
    interrupcion_quantum,  \* the timers' semaphore
    th_timer,              \* the last timer created: 0, or the burst it was for
    timer, cancelado,      \* each timer: where it is, whether it was cancelled
    canal,                 \* conexion_cpu_interrupt: the timer each message is from
    interrupcion,          \* the CPU's flag: 0, or the timer that raised it
    cpu,                   \* the CPU's cycle: the line it is about to run
    salida,                \* what ended the burst: "cpu", "io", "falla", "exit"
    desalojo,              \* interrupcion of the PCB: 0, or the timer it is due to
    desalojos              \* history: the bursts ended by an interrupt

kernel == <<corto_plazo, rafaga, con_desalojo, th_timer>>
timers == <<timer, cancelado>>
ciclo  == <<cpu, salida, desalojo, desalojos>>
vars == <<kernel, interrupcion_quantum, timers, canal, interrupcion, ciclo>>

-----------------------------------------------------------------------------
(* The dispatcher *)

\* seleccionar_pcb: which ready queue the PCB was in tells con_desalojo.
SeleccionarPcb ==
    /\ corto_plazo = "seleccionar"
    /\ rafaga < MaxRafagas
    /\ rafaga' = rafaga + 1
    /\ con_desalojo' \in (CASE Algoritmo = "FIFO"     -> {FALSE}
                            [] Algoritmo = "RR"       -> {TRUE}
                            [] Algoritmo = "FEEDBACK" -> BOOLEAN)
    /\ corto_plazo' = IF con_desalojo' THEN "crear" ELSE "enviar"
    /\ UNCHANGED <<th_timer, interrupcion_quantum, timers, canal, interrupcion, ciclo>>

IniciarInterrupcion ==
    /\ corto_plazo = "crear"
    /\ corto_plazo' = "post"
    /\ th_timer' = rafaga
    /\ timer' = [timer EXCEPT ![rafaga] = "wait"]
    /\ UNCHANGED <<rafaga, con_desalojo, cancelado, interrupcion_quantum, canal, interrupcion,
                   ciclo>>

\* Mutation: the unit the new timer waits for is not posted.
AvisarQuantumOmitido ==
    /\ corto_plazo = "post"
    /\ corto_plazo' = "enviar"
    /\ UNCHANGED <<rafaga, con_desalojo, th_timer, timers, canal, interrupcion, ciclo,
                   interrupcion_quantum>>

AvisarQuantum ==
    /\ corto_plazo = "post"
    /\ corto_plazo' = "enviar"
    /\ interrupcion_quantum' = interrupcion_quantum + 1
    /\ UNCHANGED <<rafaga, con_desalojo, th_timer, timers, canal, interrupcion, ciclo>>

EnviarPcb ==
    /\ corto_plazo = "enviar"
    /\ corto_plazo' = "recibir"
    /\ cpu' = "execute"
    /\ salida' = "cpu"
    /\ desalojo' = 0
    /\ UNCHANGED <<rafaga, con_desalojo, th_timer, interrupcion_quantum, timers, canal,
                   interrupcion, desalojos>>

\* Mutation: the timer is cancelled only if its quantum ended the burst.
AnalizarSinCancelar ==
    /\ corto_plazo = "recibir"
    /\ cpu = "lista"
    /\ cpu' = "libre"
    /\ corto_plazo' = "seleccionar"
    /\ cancelado' = IF con_desalojo /\ desalojo # 0
                    THEN [cancelado EXCEPT ![th_timer] = TRUE] ELSE cancelado
    /\ con_desalojo' = (con_desalojo /\ desalojo = 0)
    /\ UNCHANGED <<rafaga, th_timer, interrupcion_quantum, timer, canal, interrupcion, salida,
                   desalojo, desalojos>>

\* obtener_proceso_ejecutado and analizar_contexto_recibido.
AnalizarContextoRecibido ==
    /\ corto_plazo = "recibir"
    /\ cpu = "lista"
    /\ cpu' = "libre"
    /\ corto_plazo' = "seleccionar"
    /\ cancelado' = IF con_desalojo THEN [cancelado EXCEPT ![th_timer] = TRUE] ELSE cancelado
    /\ con_desalojo' = (con_desalojo /\ desalojo = 0)
    /\ UNCHANGED <<rafaga, th_timer, interrupcion_quantum, timer, canal, interrupcion, salida,
                   desalojo, desalojos>>

PlanificarEjecucion ==
    \/ SeleccionarPcb
    \/ IniciarInterrupcion
    \/ AvisarQuantum
    \/ EnviarPcb
    \/ AnalizarContextoRecibido

-----------------------------------------------------------------------------
(* enviar_interrupt, the timer of burst t.  sem_wait, the sleep and send are *)
(* cancellation points; a send under way when it is cancelled may go out.    *)

\* Mutation: the timer does not wait for its unit.
EsperarQuantumSinBloquear(t) ==
    /\ timer[t] = "wait" /\ ~cancelado[t]
    /\ interrupcion_quantum' = interrupcion_quantum - 1
    /\ timer' = [timer EXCEPT ![t] = "dormir"]
    /\ UNCHANGED <<kernel, cancelado, canal, interrupcion, ciclo>>

EsperarQuantum(t) ==
    /\ timer[t] = "wait" /\ ~cancelado[t]
    /\ interrupcion_quantum > 0
    /\ interrupcion_quantum' = interrupcion_quantum - 1
    /\ timer' = [timer EXCEPT ![t] = "dormir"]
    /\ UNCHANGED <<kernel, cancelado, canal, interrupcion, ciclo>>

VencerQuantum(t) ==
    /\ timer[t] = "dormir" /\ ~cancelado[t]
    /\ timer' = [timer EXCEPT ![t] = "send"]
    /\ UNCHANGED <<kernel, interrupcion_quantum, cancelado, canal, interrupcion, ciclo>>

EnviarInterrupcion(t) ==
    /\ timer[t] = "send"
    /\ canal' = Append(canal, t)
    /\ timer' = [timer EXCEPT ![t] = "wait"]
    /\ UNCHANGED <<kernel, interrupcion_quantum, cancelado, interrupcion, ciclo>>

Morir(t) ==
    /\ timer[t] \in {"wait", "dormir", "send"} /\ cancelado[t]
    /\ timer' = [timer EXCEPT ![t] = "fin"]
    /\ UNCHANGED <<kernel, interrupcion_quantum, cancelado, canal, interrupcion, ciclo>>

EnviarInterrupt(t) ==
    EsperarQuantum(t) \/ VencerQuantum(t) \/ EnviarInterrupcion(t) \/ Morir(t)

-----------------------------------------------------------------------------
(* The CPU *)

\* atender_kernel_interrupt.
AtenderKernelInterrupt ==
    /\ canal # <<>>
    /\ interrupcion' = Head(canal)
    /\ canal' = Tail(canal)
    /\ UNCHANGED <<kernel, interrupcion_quantum, timers, ciclo>>

\* fetch, decode and execute of one instruction: a memory fault and an IO leave
\* the cycle before the interrupt is looked at.
Ejecutar ==
    /\ cpu = "execute"
    /\ \E s \in {"cpu", "io", "falla", "exit"} :
          /\ salida' = s
          /\ cpu' = IF s \in {"io", "falla"} THEN "lista" ELSE "check"
    /\ UNCHANGED <<kernel, interrupcion_quantum, timers, canal, interrupcion, desalojo,
                   desalojos>>

CheckInterrupt ==
    /\ cpu = "check"
    /\ desalojo' = interrupcion
    /\ desalojos' = desalojos + IF interrupcion # 0 THEN 1 ELSE 0
    /\ cpu' = IF interrupcion # 0 THEN "bajar"
              ELSE IF salida = "cpu" THEN "execute" ELSE "lista"
    /\ UNCHANGED <<kernel, interrupcion_quantum, timers, canal, interrupcion, salida>>

\* Mutation: the flag stays up.
BajarInterrupcionOmitido ==
    /\ cpu = "bajar"
    /\ cpu' = "lista"
    /\ UNCHANGED <<kernel, interrupcion_quantum, timers, canal, interrupcion, salida, desalojo,
                   desalojos>>

\* The flag goes down later, under its mutex: an interrupt that came in between
\* goes down with it.
BajarInterrupcion ==
    /\ cpu = "bajar"
    /\ cpu' = "lista"
    /\ interrupcion' = 0
    /\ UNCHANGED <<kernel, interrupcion_quantum, timers, canal, salida, desalojo, desalojos>>

CicloDeInstruccion == Ejecutar \/ CheckInterrupt \/ BajarInterrupcion

-----------------------------------------------------------------------------
Init ==
    /\ corto_plazo = "seleccionar" /\ rafaga = 0 /\ con_desalojo = FALSE
    /\ interrupcion_quantum = 0 /\ th_timer = 0
    /\ timer = [t \in Rafagas |-> "no_creado"]
    /\ cancelado = [t \in Rafagas |-> FALSE]
    /\ canal = <<>> /\ interrupcion = 0
    /\ cpu = "libre" /\ salida = "cpu" /\ desalojo = 0 /\ desalojos = 0

Next ==
    \/ PlanificarEjecucion
    \/ \E t \in Rafagas : EnviarInterrupt(t)
    \/ AtenderKernelInterrupt
    \/ CicloDeInstruccion

Spec == Init /\ [][Next]_vars

\* Each thread runs on; a program may be longer than any quantum, so nothing makes
\* a burst end but its interrupt.
SpecJusta ==
    /\ Spec
    /\ WF_vars(PlanificarEjecucion)
    /\ \A t \in Rafagas : WF_vars(EnviarInterrupt(t))
    /\ WF_vars(AtenderKernelInterrupt)
    /\ WF_vars(CicloDeInstruccion)

-----------------------------------------------------------------------------
(* Properties *)

TypeOK ==
    /\ corto_plazo \in {"seleccionar", "crear", "post", "enviar", "recibir"}
    /\ rafaga \in 0..MaxRafagas /\ con_desalojo \in BOOLEAN
    /\ interrupcion_quantum \in Nat
    /\ th_timer \in 0..MaxRafagas
    /\ timer \in [Rafagas -> {"no_creado", "wait", "dormir", "send", "fin"}]
    /\ cancelado \in [Rafagas -> BOOLEAN]
    /\ canal \in Seq(Rafagas)
    /\ interrupcion \in 0..MaxRafagas
    /\ cpu \in {"libre", "execute", "check", "bajar", "lista"}
    /\ salida \in {"cpu", "io", "falla", "exit"}
    /\ desalojo \in 0..MaxRafagas /\ desalojos \in Nat

\* pthread_cancel finds the timer of the burst that is back: it is the only one
\* alive, so no timer of an earlier burst goes on sending or takes the unit of
\* interrupcion_quantum that was posted for another.
Vivos == {t \in Rafagas : timer[t] # "no_creado" /\ ~cancelado[t]}
UnTemporizador ==
    Vivos = IF con_desalojo /\ corto_plazo \in {"post", "enviar", "recibir"}
            THEN {rafaga} ELSE {}

\* The quantum of a burst with preemption is never lost: while the CPU executes it
\* the timer is running, or has a unit to wait for, or an interrupt is on its way.
QuantumArmado ==
    (corto_plazo = "recibir" /\ con_desalojo /\ cpu \in {"execute", "check"})
        => \/ timer[rafaga] \in {"dormir", "send"}
           \/ timer[rafaga] = "wait" /\ interrupcion_quantum > 0
           \/ canal # <<>> \/ interrupcion # 0

\* Each quantum armed preempts at most one burst: the bursts it ended and the
\* interrupts still to come (units left by cancelled timers, which make a later
\* timer fire twice, timers running, messages, the flag) are no more than the
\* quanta armed.
Corriendo == {t \in Rafagas : timer[t] \in {"dormir", "send"}}
Armados   == {t \in Rafagas : timer[t] # "no_creado"}
Levantada == IF interrupcion # 0 /\ cpu # "bajar" THEN 1 ELSE 0
EnMarcha  == Cardinality(Corriendo)
Mensajes  == Len(canal)
PorVenir  == interrupcion_quantum + EnMarcha + Mensajes + Levantada
UnDesalojoPorQuantum == desalojos + PorVenir <= Cardinality(Armados)

\* A burst that an IO or a memory fault ended never comes back as one its quantum
\* ended: the kernel would clear con_desalojo of a process that did not use it up.
BloqueoSinDesalojo == cpu = "lista" /\ desalojo # 0 => salida \in {"cpu", "exit"}

\* A burst with preemption ends, however long its program is.
QuantumSeCumple ==
    (corto_plazo = "recibir" /\ con_desalojo) ~> (corto_plazo = "seleccionar")

-----------------------------------------------------------------------------
(* What makes them inductive *)

\* The dispatcher and the CPU take turns, and the timer of a burst is created at
\* its line: no timer is of a burst to come, and only a cancelled one ends.
Turnos ==
    /\ cpu = "libre" <=> corto_plazo # "recibir"
    /\ corto_plazo # "seleccionar" => rafaga \in Rafagas
    /\ corto_plazo = "crear" => con_desalojo /\ timer[rafaga] = "no_creado"
    /\ corto_plazo = "post" => con_desalojo
    /\ con_desalojo /\ corto_plazo \in {"post", "enviar", "recibir"} => th_timer = rafaga
    /\ \A t \in Rafagas : /\ t > rafaga => timer[t] = "no_creado"
                          /\ timer[t] = "no_creado" => ~cancelado[t]
                          /\ timer[t] = "fin" => cancelado[t]

\* The CPU leaves the cycle with an interrupt only from its check.
CheckTrasEjecutar ==
    /\ cpu = "execute" => desalojo = 0
    /\ cpu \in {"check", "bajar"} => salida \in {"cpu", "exit"}
    /\ cpu = "check" => desalojo = 0

\* QuantumArmado, already when the PCB is about to be sent.
Armado ==
    \/ timer[rafaga] \in {"dormir", "send"}
    \/ timer[rafaga] = "wait" /\ interrupcion_quantum > 0
    \/ canal # <<>> \/ interrupcion # 0
ArmadoAlEnviar ==
    (con_desalojo /\ (corto_plazo = "enviar" \/ cpu \in {"execute", "check"})) => Armado

\* UnDesalojoPorQuantum, counting the unit that is about to be posted.
PorAvisar == IF corto_plazo = "post" THEN 1 ELSE 0
Cuota == desalojos + PorVenir + PorAvisar <= Cardinality(Armados)

IInv == TypeOK /\ Turnos /\ UnTemporizador /\ CheckTrasEjecutar /\ ArmadoAlEnviar
        /\ BloqueoSinDesalojo
=============================================================================
