--------------------------- MODULE Planificacion ---------------------------
(***************************************************************************)
(* The kernel's scheduler: the threads of kernel/src/planificacion.c and   *)
(* kernel/src/io.c, the queues and semaphores of kernel_utils.c they share,*)
(* and the three partners they talk to, each reduced to its side of the    *)
(* conversation: the memory (one server thread that answers requests in    *)
(* arrival order), the CPU (runs one burst of one PCB) and the consoles.   *)
(*                                                                         *)
(* One action is one step of one thread between two points where another   *)
(* thread can be observed: a semaphore, a mutex, a shared queue or a       *)
(* socket.  A PCB is a heap object: a reference to it is the pair          *)
(* <<pid, n>>, n counting how often the PCB came back from the CPU (each   *)
(* time as a new object).  Using a reference to a freed object, popping an *)
(* empty queue or reading a payload as a message code is recorded in falla *)
(* and ends the behaviour: nothing is claimed of what runs after it.       *)
(***************************************************************************)
EXTENDS Naturals, Sequences, FiniteSets

CONSTANTS
    MaxPid,          \* bound: consoles that connect
    MaxRafagas,      \* bound: CPU bursts of one process
    Grado,           \* GRADO_MAX_MULTIPROGRAMACION
    Algoritmo,       \* ALGORITMO_PLANIFICACION
    DispositivosIO,  \* DISPOSITIVOS_IO, the configured device names
    NombresIO,       \* the names the IO instructions of the programs mention
    Carreras         \* the windows without I/O that the timing of the threads
                     \* may hit:
                     \* "banderas": the dispatcher, woken for another PCB, takes
                     \*   and sends one before its pusher, past the unlock of
                     \*   the queue, stored its three fault flags;
                     \* "swap": the memory answers a page fault while the
                     \*   dispatcher that started it is still on the next line
                     \*   (the memory sleeps RETARDO_SWAP, 1 s or more in every
                     \*   shipped configuration, before it answers)

ASSUME LimitesAssumption == MaxPid \in Nat /\ MaxRafagas \in Nat
ASSUME GradoAssumption == Grado \in Nat
ASSUME AlgoritmoAssumption == Algoritmo \in {"FIFO", "RR", "FEEDBACK"}
ASSUME DispositivosAssumption == DispositivosIO \in Seq(STRING) /\ Len(DispositivosIO) > 0
ASSUME NombresAssumption == NombresIO \subseteq STRING \ {"ninguna", "CPU", "EXIT"}
ASSUME CarrerasAssumption == Carreras \subseteq {"banderas", "swap"}

Pids  == 1..MaxPid
Refs  == Pids \X (0..MaxRafagas)
NULO  == <<0, 0>>
Dispositivos == 1..Len(DispositivosIO)
ConsolaIO    == {"TECLADO", "PANTALLA"}

\* The threads.  A page fault and a console IO run in a thread of their own,
\* named after the PCB they were created with.
Conexiones == <<"conexiones", NULO>>
LargoPlazo == <<"largo_plazo", NULO>>
CortoPlazo == <<"corto_plazo", NULO>>
Rajar      == <<"rajar", NULO>>
ES(d)      == <<"dispositivo", <<d, 0>>>>
PF(r)      == <<"page_fault", r>>
IO(r)      == <<"io_consola", r>>
DeDispositivo == {ES(d) : d \in Dispositivos}
DePageFault   == {PF(r) : r \in Refs}
DeConsola     == {IO(r) : r \in Refs}
Hilos == {Conexiones, LargoPlazo, CortoPlazo, Rajar}
         \cup DeDispositivo \cup DePageFault \cup DeConsola

VARIABLES
    cola,                   \* cola_new_pcbs, cola_ready_RR_pcbs, ...: PCB references
    sem,                    \* the counting semaphores of kernel_utils.c
    cola_dispositivo, s_dispositivos_io,  \* queue and semaphore of each device
    pid_actual,
    pcb, vida, rafagas,     \* a PCB's contents, its life as an object, bursts received
    pc, ptr,                \* where each thread is, the PCB its local variable points to
    conexion_memoria_mutex, \* the socket to the memory: its mutex,
    pedidos, respuestas,    \*   the requests under way and the codes not read yet
    estructuras,            \* what the memory keeps of a process
    cpu, consola,
    falla

dispositivos == <<cola_dispositivo, s_dispositivos_io>>
procesos == <<pid_actual, pcb, vida, rafagas>>
memoria  == <<conexion_memoria_mutex, pedidos, respuestas, estructuras>>
entorno  == <<cpu, consola, falla>>
vars == <<cola, sem, dispositivos, procesos, pc, ptr, memoria, entorno>>

Colas == {"new", "rr", "fifo", "exit"}
Semaforos == {"procesos_new", "multiprogramacion", "procesos_ready",
              "procesos_finalizados", "proceso_page_fault"}

\* The part of t_pcb the scheduler looks at; ultima is what
\* obtener_ultima_instruccion finds at program_counter - 1.
Pcb == [estado : {"NEW", "READY", "EXEC", "BLOCK", "FINISH_EXIT"},
        con_desalojo : BOOLEAN, interrupcion : BOOLEAN,
        page_fault : BOOLEAN, segmentation_fault : BOOLEAN,
        ultima : {"ninguna", "CPU", "EXIT"} \cup NombresIO]

PcbNuevo == [estado |-> "NEW", con_desalojo |-> FALSE, interrupcion |-> FALSE,
             page_fault |-> FALSE, segmentation_fault |-> FALSE,
             ultima |-> "ninguna"]

-----------------------------------------------------------------------------
(* Steps of a thread *)

En(h, lugar) == falla = "ninguna" /\ pc[h] = lugar
Ir(h, lugar) == pc' = [pc EXCEPT ![h] = lugar]

\* Mutation: a wait that does not block.
EsperarSinBloquear(h, de, s, a) ==
    /\ En(h, de)
    /\ sem' = [sem EXCEPT ![s] = @ - 1]
    /\ Ir(h, a)
    /\ UNCHANGED <<cola, dispositivos, procesos, ptr, memoria, entorno>>

\* sem_wait and sem_post, when they are all a thread does.
Esperar(h, de, s, a) ==
    /\ En(h, de)
    /\ sem[s] > 0
    /\ sem' = [sem EXCEPT ![s] = @ - 1]
    /\ Ir(h, a)
    /\ UNCHANGED <<cola, dispositivos, procesos, ptr, memoria, entorno>>

Avisar(h, de, s, a) ==
    /\ En(h, de)
    /\ sem' = [sem EXCEPT ![s] = @ + 1]
    /\ Ir(h, a)
    /\ UNCHANGED <<cola, dispositivos, procesos, ptr, memoria, entorno>>

\* A step that only moves the thread.
Seguir(h, lugar) ==
    /\ Ir(h, lugar)
    /\ UNCHANGED <<cola, sem, dispositivos, procesos, ptr, memoria, entorno>>

\* The reference points to a PCB that is allocated in the kernel.
Valido(r) == r[1] \in Pids /\ vida[r[1]] = "viva" /\ rafagas[r[1]] = r[2]

\* Undefined behaviour: record it and stop.
Fallar(f) ==
    /\ falla' = f
    /\ UNCHANGED <<cola, sem, dispositivos, procesos, pc, ptr, memoria, cpu, consola>>

\* A PCB used after pcb_destroy.  That of a pusher still writing to the PCB it
\* published is told apart.
UsoTrasLiberar(h) ==
    /\ ~Valido(ptr[h])
    /\ Fallar(IF pc[h] = "limpiar" THEN "uso_tras_publicar" ELSE "uso_tras_liberar")

\* safe_pcb_pop of an empty queue, or of a PCB that was freed while queued.
PopIndebido(q) ==
    \/ q = <<>> /\ Fallar("cola_vacia")
    \/ q # <<>> /\ ~Valido(Head(q)) /\ Fallar("uso_tras_liberar")

PopPosible(q) == q # <<>> /\ Valido(Head(q))

\* A thread that took the wrong reply leaves a list on the socket: what is read
\* next as a message code is its first bytes.
TramaCortada == Head(respuestas).cod = "INDICES" /\ Fallar("trama_cortada")

\* Lock the socket and send a request.
Pedir(h, cod) ==
    /\ En(h, "pedir")
    /\ conexion_memoria_mutex = "libre"
    /\ conexion_memoria_mutex' = h[1]
    /\ pedidos' = Append(pedidos, [cod |-> cod, pid |-> ptr[h][1]])
    /\ Ir(h, "resp")
    /\ UNCHANGED <<cola, sem, dispositivos, procesos, ptr, respuestas, estructuras, entorno>>

\* recibir_operacion took a code: go on holding the mutex, or release it.
Recibir(h, lugar, mutex) ==
    /\ respuestas' = Tail(respuestas)
    /\ conexion_memoria_mutex' = mutex
    /\ Ir(h, lugar)
    /\ UNCHANGED <<cola, sem, dispositivos, procesos, ptr, pedidos, estructuras, entorno>>

-----------------------------------------------------------------------------
(* pasar_a_ready, run by every thread that returns a PCB to ready *)

Preemptible(r) ==
    \/ Algoritmo = "RR"
    \/ Algoritmo = "FEEDBACK" /\ pcb[r[1]].estado \in {"NEW", "BLOCK"}

\* push_ready_pcb up to the push: the PCB is shared from here on.  Its flags are
\* stored right after the unlock; they are part of this step if nobody gets in between.
PushReady(h) ==
    /\ En(h, "push_ready")
    /\ Valido(ptr[h])
    /\ cola' = [cola EXCEPT ![IF Preemptible(ptr[h]) THEN "rr" ELSE "fifo"] =
                  Append(@, ptr[h])]
    /\ pcb' = [pcb EXCEPT ![ptr[h][1]] =
                IF "banderas" \in Carreras
                THEN [@ EXCEPT !.con_desalojo = Preemptible(ptr[h])]
                ELSE [@ EXCEPT !.con_desalojo = Preemptible(ptr[h]), !.interrupcion = FALSE,
                               !.page_fault = FALSE, !.segmentation_fault = FALSE]]
    /\ Ir(h, "limpiar")
    /\ UNCHANGED <<sem, dispositivos, pid_actual, vida, rafagas, ptr, memoria, entorno>>

\* The rest of push_ready_pcb and cambiar_estado write to the PCB after the push.
LimpiarBanderas(h) ==
    /\ En(h, "limpiar")
    /\ Valido(ptr[h])
    /\ pcb' = [pcb EXCEPT ![ptr[h][1]] =
                [@ EXCEPT !.interrupcion = FALSE, !.page_fault = FALSE,
                          !.segmentation_fault = FALSE, !.estado = "READY"]]
    /\ Ir(h, "post_ready")
    /\ UNCHANGED <<cola, sem, dispositivos, pid_actual, vida, rafagas, ptr, memoria, entorno>>

\* Where the thread goes after pasar_a_ready.
TrasReady(h) ==
    CASE h = LargoPlazo         -> "espera_new"
      [] h = CortoPlazo         -> "espera_ready"
      [] h \in DeDispositivo    -> "espera"
      [] OTHER                  -> "fin"

\* Mutation: pasar_a_ready forgets its sem_post.
PasarAReadySinPost(h) ==
    \/ PushReady(h)
    \/ LimpiarBanderas(h)
    \/ En(h, "post_ready") /\ Seguir(h, TrasReady(h))

PasarAReady(h) ==
    \/ PushReady(h)
    \/ LimpiarBanderas(h)
    \/ (En(h, "push_ready") \/ En(h, "limpiar")) /\ UsoTrasLiberar(h)
    \/ Avisar(h, "post_ready", "procesos_ready", TrasReady(h))

-----------------------------------------------------------------------------
(* Long term: consoles arrive, are admitted, and leave *)

\* atender_nueva_consola: accept, receive PROCESO, pcb_create, push.
AtenderNuevaConsola ==
    /\ En(Conexiones, "esperar_cliente")
    /\ pid_actual < MaxPid
    /\ LET p == pid_actual + 1 IN
       /\ pid_actual' = p
       /\ pcb' = [pcb EXCEPT ![p] = PcbNuevo]
       /\ vida' = [vida EXCEPT ![p] = "viva"]
       /\ consola' = [consola EXCEPT ![p] = "esperando"]
       /\ cola' = [cola EXCEPT !["new"] = Append(@, <<p, 0>>)]
    /\ Ir(Conexiones, "post_new")
    /\ UNCHANGED <<sem, dispositivos, rafagas, ptr, memoria, cpu, falla>>

AvisarNew == Avisar(Conexiones, "post_new", "procesos_new", "esperar_cliente")

\* transicion_new_a_ready
EsperarNew   == Esperar(LargoPlazo, "espera_new", "procesos_new", "espera_grado")
\* Mutation: no wait for a unit of multiprogramacion.
EsperarGradoOmitido == En(LargoPlazo, "espera_grado") /\ Seguir(LargoPlazo, "sacar_new")
EsperarGrado == Esperar(LargoPlazo, "espera_grado", "multiprogramacion", "sacar_new")

\* Mutation: the newest process is admitted first.
SacarNewUltimo ==
    LET q == cola["new"] IN
    /\ En(LargoPlazo, "sacar_new")
    /\ q # <<>>
    /\ ptr' = [ptr EXCEPT ![LargoPlazo] = q[Len(q)]]
    /\ cola' = [cola EXCEPT !["new"] = SubSeq(q, 1, Len(q) - 1)]
    /\ Ir(LargoPlazo, "pedir")
    /\ UNCHANGED <<sem, dispositivos, procesos, memoria, entorno>>

SacarNew ==
    /\ En(LargoPlazo, "sacar_new")
    /\ \/ PopIndebido(cola["new"])
       \/ /\ PopPosible(cola["new"])
          /\ ptr' = [ptr EXCEPT ![LargoPlazo] = Head(cola["new"])]
          /\ cola' = [cola EXCEPT !["new"] = Tail(@)]
          /\ Ir(LargoPlazo, "pedir")
          /\ UNCHANGED <<sem, dispositivos, procesos, memoria, entorno>>

\* solicitar_creacion_estructuras_administrativas; on any other code the thread
\* that admits processes ends.
RecibirEstructuras ==
    /\ En(LargoPlazo, "resp")
    /\ respuestas # <<>>
    /\ \/ /\ Head(respuestas).cod = "OKI_ESTRUCTURAS"
          /\ Recibir(LargoPlazo, "resp_indices", conexion_memoria_mutex)
       \/ /\ Head(respuestas).cod \notin {"OKI_ESTRUCTURAS", "INDICES"}
          /\ Recibir(LargoPlazo, "muerto", "libre")
       \/ TramaCortada

RecibirIndices ==
    /\ En(LargoPlazo, "resp_indices")
    /\ respuestas # <<>>
    /\ IF Head(respuestas).cod = "INDICES"
       THEN Recibir(LargoPlazo, "push_ready", "libre")
       ELSE Fallar("trama_cortada")

NewAReady ==
    \/ EsperarNew
    \/ EsperarGrado
    \/ SacarNew
    \/ Pedir(LargoPlazo, "ESTRUCTURAS")
    \/ RecibirEstructuras
    \/ RecibirIndices
    \/ PasarAReady(LargoPlazo)

\* rajar_pcb
EsperarFinalizados ==
    Esperar(Rajar, "espera_finalizados", "procesos_finalizados", "sacar_exit")

SacarExit ==
    /\ En(Rajar, "sacar_exit")
    /\ \/ PopIndebido(cola["exit"])
       \/ /\ PopPosible(cola["exit"])
          /\ cola' = [cola EXCEPT !["exit"] = Tail(@)]
          /\ vida' = [vida EXCEPT ![Head(cola["exit"])[1]] = "destruida"]
          /\ Ir(Rajar, "post_grado")
          /\ UNCHANGED <<sem, dispositivos, pid_actual, pcb, rafagas, ptr, memoria, entorno>>

AvisarGrado == Avisar(Rajar, "post_grado", "multiprogramacion", "espera_finalizados")

RajarPcb == EsperarFinalizados \/ SacarExit \/ AvisarGrado

-----------------------------------------------------------------------------
(* Short term: planificar_ejecucion *)

EsperarReady == Esperar(CortoPlazo, "espera_ready", "procesos_ready", "mirar_rr")

\* Mutation: FEEDBACK takes from the RR queue without looking whether it is empty.
MirarRRSinMirar ==
    /\ En(CortoPlazo, "mirar_rr")
    /\ Seguir(CortoPlazo, IF Algoritmo = "FIFO" THEN "sacar_fifo" ELSE "sacar_rr")

\* pop_ready_pcb looks at the RR queue, releases its mutex, and pops later.
MirarRR ==
    /\ En(CortoPlazo, "mirar_rr")
    /\ Seguir(CortoPlazo,
          IF Algoritmo = "RR" \/ (Algoritmo = "FEEDBACK" /\ cola["rr"] # <<>>)
          THEN "sacar_rr" ELSE "sacar_fifo")

\* The pop, and cambiar_estado(pcb, EXEC).
SacarReady(lugar, q) ==
    LET r == Head(cola[q]) IN
    /\ En(CortoPlazo, lugar)
    /\ \/ PopIndebido(cola[q])
       \/ /\ PopPosible(cola[q])
          /\ cola' = [cola EXCEPT ![q] = Tail(@)]
          /\ ptr' = [ptr EXCEPT ![CortoPlazo] = r]
          /\ pcb' = [pcb EXCEPT ![r[1]].estado = "EXEC"]
          /\ Ir(CortoPlazo, "enviar")
          /\ UNCHANGED <<sem, dispositivos, pid_actual, vida, rafagas, memoria, entorno>>

\* enviar_pcb: the CPU gets a copy of the PCB as it is now.
EnviarPcb ==
    /\ En(CortoPlazo, "enviar")
    /\ \/ UsoTrasLiberar(CortoPlazo)
       \/ /\ Valido(ptr[CortoPlazo])
          /\ cpu' = [fase |-> "ejecutando", pid |-> ptr[CortoPlazo][1],
                     pcb |-> pcb[ptr[CortoPlazo][1]]]
          /\ Ir(CortoPlazo, "destruir")
          /\ UNCHANGED <<cola, sem, dispositivos, procesos, ptr, memoria, consola, falla>>

DestruirPcb ==
    /\ En(CortoPlazo, "destruir")
    /\ \/ UsoTrasLiberar(CortoPlazo)
       \/ /\ Valido(ptr[CortoPlazo])
          /\ vida' = [vida EXCEPT ![ptr[CortoPlazo][1]] = "en_cpu"]
          /\ Ir(CortoPlazo, "recibir")
          /\ UNCHANGED <<cola, sem, dispositivos, pid_actual, pcb, rafagas, ptr, memoria,
                         entorno>>

\* obtener_proceso_ejecutado and analizar_contexto_recibido: a new PCB object,
\* its quantum flags reset after an interrupt, and a thread for its page fault.
RecibirPcb ==
    /\ En(CortoPlazo, "recibir")
    /\ cpu.fase = "lista"
    /\ LET p == cpu.pid
           r == <<p, rafagas[p] + 1>>
           c == cpu.pcb
       IN
       /\ rafagas' = [rafagas EXCEPT ![p] = r[2]]
       /\ vida' = [vida EXCEPT ![p] = "viva"]
       /\ ptr' = [ptr EXCEPT ![CortoPlazo] = r]
       /\ cpu' = [cpu EXCEPT !.fase = "libre"]
       /\ pcb' = [pcb EXCEPT ![p] =
                   [c EXCEPT !.interrupcion = FALSE,
                             !.con_desalojo = @ /\ ~c.interrupcion,
                             !.estado = IF c.page_fault THEN "BLOCK" ELSE @]]
       /\ IF c.page_fault
          THEN /\ pc' = [pc EXCEPT ![CortoPlazo] = "dirigir", ![PF(r)] = "espera"]
               /\ sem' = [sem EXCEPT !["proceso_page_fault"] = @ + 1]
          ELSE Ir(CortoPlazo, "dirigir") /\ UNCHANGED sem
    /\ UNCHANGED <<cola, dispositivos, pid_actual, memoria, consola, falla>>

\* solicitar_finalizacion up to the request, which is sent without the mutex.
SolicitarFinalizacion(r) ==
    /\ pcb' = [pcb EXCEPT ![r[1]].estado = "FINISH_EXIT"]
    /\ cola' = [cola EXCEPT !["exit"] = Append(@, r)]
    /\ pedidos' = Append(pedidos, [cod |-> "LIBERAR_ESTRUCTURAS", pid |-> r[1]])
    /\ Ir(CortoPlazo, "resp_liberar")
    /\ UNCHANGED <<sem, dispositivos, pid_actual, vida, rafagas, ptr,
                   conexion_memoria_mutex, respuestas, estructuras, entorno>>

\* obtener_dispositivo_por_nombre: the device of that name, or the last one.
Dispositivo(nombre) ==
    IF \E d \in Dispositivos : DispositivosIO[d] = nombre
    THEN CHOOSE d \in Dispositivos :
            /\ DispositivosIO[d] = nombre
            /\ \A e \in 1..(d - 1) : DispositivosIO[e] # nombre
    ELSE Len(DispositivosIO)

SolicitarIO(r) ==
    LET nombre == pcb[r[1]].ultima
        d      == Dispositivo(nombre)
    IN
    /\ pcb' = [pcb EXCEPT ![r[1]].estado = "BLOCK"]
    /\ \/ /\ nombre \in ConsolaIO
          /\ pc' = [pc EXCEPT ![CortoPlazo] = "espera_ready", ![IO(r)] = "solicitud"]
          /\ UNCHANGED dispositivos
       \/ /\ nombre \notin ConsolaIO
          /\ cola_dispositivo' = [cola_dispositivo EXCEPT ![d] = Append(@, r)]
          /\ s_dispositivos_io' = [s_dispositivos_io EXCEPT ![d] = @ + 1]
          /\ Ir(CortoPlazo, "espera_ready")
    /\ UNCHANGED <<cola, sem, pid_actual, vida, rafagas, ptr, memoria, entorno>>

\* Mutation: the page fault is not taken into account.
DirigirSinPageFault ==
    LET r == ptr[CortoPlazo]
        c == pcb[r[1]]
    IN
    /\ En(CortoPlazo, "dirigir")
    /\ Valido(r)
    /\ \/ c.ultima = "ninguna" /\ ~c.segmentation_fault /\ Fallar("instruccion_nula")
       \/ (c.segmentation_fault \/ c.ultima = "EXIT") /\ SolicitarFinalizacion(r)
       \/ ~c.segmentation_fault /\ c.ultima \in NombresIO /\ SolicitarIO(r)
       \/ ~c.segmentation_fault /\ c.ultima = "CPU" /\ Seguir(CortoPlazo, "push_ready")

\* dirigir_proceso_ejecutado reads the flags of the PCB the page fault thread,
\* if there is one, is already working on.
DirigirProcesoEjecutado ==
    LET r == ptr[CortoPlazo]
        c == pcb[r[1]]
    IN
    /\ En(CortoPlazo, "dirigir")
    /\ \/ UsoTrasLiberar(CortoPlazo)
       \/ Valido(r) /\ c.segmentation_fault /\ SolicitarFinalizacion(r)
       \/ /\ Valido(r) /\ ~c.segmentation_fault /\ c.page_fault
          /\ Seguir(CortoPlazo, "espera_ready")
       \/ /\ Valido(r) /\ ~c.segmentation_fault /\ ~c.page_fault
          /\ \/ c.ultima = "ninguna" /\ Fallar("instruccion_nula")
             \/ c.ultima = "EXIT" /\ SolicitarFinalizacion(r)
             \/ c.ultima \in NombresIO /\ SolicitarIO(r)
             \/ c.ultima = "CPU" /\ Seguir(CortoPlazo, "push_ready")

\* Mutation: the reply to LIBERAR is not read.
RecibirLiberarSinLeer ==
    /\ En(CortoPlazo, "resp_liberar")
    /\ consola' = [consola EXCEPT ![ptr[CortoPlazo][1]] = "finalizada"]
    /\ sem' = [sem EXCEPT !["procesos_finalizados"] = @ + 1]
    /\ Ir(CortoPlazo, "espera_ready")
    /\ UNCHANGED <<cola, dispositivos, procesos, ptr, memoria, cpu, falla>>

\* The rest of solicitar_finalizacion: whatever code comes is taken as the reply.
RecibirLiberar ==
    /\ En(CortoPlazo, "resp_liberar")
    /\ respuestas # <<>>
    /\ \/ TramaCortada
       \/ /\ Head(respuestas).cod # "INDICES"
          /\ respuestas' = Tail(respuestas)
          /\ consola' = IF Head(respuestas).cod = "OKI_LIBERAR_ESTRUCTURAS"
                        THEN [consola EXCEPT ![ptr[CortoPlazo][1]] = "finalizada"]
                        ELSE consola
          /\ sem' = [sem EXCEPT !["procesos_finalizados"] = @ + 1]
          /\ Ir(CortoPlazo, "espera_ready")
          /\ UNCHANGED <<cola, dispositivos, procesos, ptr, conexion_memoria_mutex, pedidos,
                         estructuras, cpu, falla>>

PlanificarEjecucion ==
    \/ EsperarReady
    \/ MirarRR
    \/ SacarReady("sacar_rr", "rr")
    \/ SacarReady("sacar_fifo", "fifo")
    \/ EnviarPcb
    \/ DestruirPcb
    \/ RecibirPcb
    \/ DirigirProcesoEjecutado
    \/ RecibirLiberar
    \/ PasarAReady(CortoPlazo)

-----------------------------------------------------------------------------
(* Blocked processes: devices, console IO, page faults *)

EsperarDispositivo(d) ==
    /\ En(ES(d), "espera")
    /\ s_dispositivos_io[d] > 0
    /\ s_dispositivos_io' = [s_dispositivos_io EXCEPT ![d] = @ - 1]
    /\ Ir(ES(d), "sacar")
    /\ UNCHANGED <<cola, sem, cola_dispositivo, procesos, ptr, memoria, entorno>>

SacarDispositivo(d) ==
    /\ En(ES(d), "sacar")
    /\ \/ PopIndebido(cola_dispositivo[d])
       \/ /\ PopPosible(cola_dispositivo[d])
          /\ ptr' = [ptr EXCEPT ![ES(d)] = Head(cola_dispositivo[d])]
          /\ cola_dispositivo' = [cola_dispositivo EXCEPT ![d] = Tail(@)]
          /\ Ir(ES(d), "push_ready")
          /\ UNCHANGED <<cola, sem, s_dispositivos_io, procesos, memoria, entorno>>

EjecucionIO(d) == EsperarDispositivo(d) \/ SacarDispositivo(d) \/ PasarAReady(ES(d))

\* solicitar_io_consola: ask the console and wait for its answer.
Solicitud(r) ==
    /\ En(IO(r), "solicitud")
    /\ \/ UsoTrasLiberar(IO(r))
       \/ Valido(ptr[IO(r)]) /\ Seguir(IO(r), "push_ready")

SolicitarIOConsola(r) == Solicitud(r) \/ PasarAReady(IO(r))

\* manejar_page_fault.  Each thread waits once on a semaphore that its creator
\* posted once more; on a code other than OKI_PAGINA the thread ends and nobody
\* owns the PCB any more.
EsperarPageFault(r) == Esperar(PF(r), "espera", "proceso_page_fault", "pedir")

PedirPagina(r) ==
    \/ Valido(ptr[PF(r)]) /\ Pedir(PF(r), "PAGINA")
    \/ En(PF(r), "pedir") /\ UsoTrasLiberar(PF(r))

\* Mutation: the code of another message is expected.
RecibirPaginaOtroCodigo(r) ==
    /\ En(PF(r), "resp")
    /\ respuestas # <<>>
    /\ IF Head(respuestas).cod = "OKI_MARCO"
       THEN Recibir(PF(r), "push_ready", "libre")
       ELSE Recibir(PF(r), "muerto", "libre")

\* Mutation: the thread that reports an error does not end, and waits again.
RecibirPaginaSinFin(r) ==
    /\ En(PF(r), "resp")
    /\ respuestas # <<>>
    /\ \/ /\ Head(respuestas).cod = "OKI_PAGINA"
          /\ Recibir(PF(r), "push_ready", "libre")
       \/ /\ Head(respuestas).cod \notin {"OKI_PAGINA", "INDICES"}
          /\ Recibir(PF(r), "espera", "libre")
       \/ TramaCortada

RecibirPagina(r) ==
    /\ En(PF(r), "resp")
    /\ respuestas # <<>>
    /\ \/ /\ Head(respuestas).cod = "OKI_PAGINA"
          /\ Recibir(PF(r), "push_ready", "libre")
       \/ /\ Head(respuestas).cod \notin {"OKI_PAGINA", "INDICES"}
          /\ Recibir(PF(r), "muerto", "libre")
       \/ TramaCortada

ManejarPageFault(r) ==
    EsperarPageFault(r) \/ PedirPagina(r) \/ RecibirPagina(r) \/ PasarAReady(PF(r))

-----------------------------------------------------------------------------
(* The partners *)

Codigos(cod) ==
    CASE cod = "ESTRUCTURAS"         -> <<"OKI_ESTRUCTURAS", "INDICES">>
      [] cod = "PAGINA"              -> <<"OKI_PAGINA">>
      [] cod = "LIBERAR_ESTRUCTURAS" -> <<"OKI_LIBERAR_ESTRUCTURAS">>

\* memoria's atender_kernel: one request at a time, in order.
AtenderKernel ==
    /\ falla = "ninguna"
    /\ pedidos # <<>>
    /\ LET p    == Head(pedidos).pid
           cod  == Head(pedidos).cod
           cods == Codigos(cod)
       IN
       /\ "swap" \in Carreras \/ cod # "PAGINA"
             \/ ~(pc[CortoPlazo] = "dirigir" /\ ptr[CortoPlazo][1] = p)
       /\ pedidos' = Tail(pedidos)
       /\ respuestas' = respuestas \o [i \in 1..Len(cods) |-> [cod |-> cods[i], pid |-> p]]
       /\ estructuras' = CASE cod = "ESTRUCTURAS" -> [estructuras EXCEPT ![p] = "creadas"]
                           [] cod = "PAGINA"      -> estructuras
                           [] OTHER               -> [estructuras EXCEPT ![p] = "liberadas"]
    /\ UNCHANGED <<cola, sem, dispositivos, procesos, pc, ptr, conexion_memoria_mutex, entorno>>

\* How a burst of iniciar_ciclo_de_instruccion can leave the PCB: on a memory
\* instruction that faults (the program counter stays on it), after an IO, or at
\* the interrupt check after any other instruction.  Past the EXIT nothing runs.
Rafagas(c, final) ==
    LET Interrumpir == IF Algoritmo = "FIFO" THEN {} ELSE {TRUE} IN
    IF c.ultima = "EXIT" THEN {c}
    ELSE      {[c EXCEPT !.segmentation_fault = TRUE, !.ultima = u] : u \in {c.ultima, "CPU"}}
         \cup {[c EXCEPT !.ultima = "EXIT"]}
         \cup {[c EXCEPT !.ultima = "EXIT", !.interrupcion = i] : i \in Interrumpir}
         \cup IF final THEN {} ELSE
              {[c EXCEPT !.page_fault = TRUE, !.ultima = u] : u \in {c.ultima, "CPU"}}
         \cup {[c EXCEPT !.ultima = nombre] : nombre \in NombresIO}
         \cup {[c EXCEPT !.ultima = "CPU", !.interrupcion = i] : i \in Interrumpir}

\* cpu's atender_kernel_dispatch.  The last burst the bound allows ends the program.
EjecutarRafaga ==
    /\ falla = "ninguna"
    /\ cpu.fase = "ejecutando"
    /\ rafagas[cpu.pid] < MaxRafagas
    /\ \E c \in Rafagas(cpu.pcb, rafagas[cpu.pid] + 1 = MaxRafagas) :
          cpu' = [cpu EXCEPT !.fase = "lista", !.pcb = c]
    /\ UNCHANGED <<cola, sem, dispositivos, procesos, pc, ptr, memoria, consola, falla>>

-----------------------------------------------------------------------------
(* Specification *)

PcInicial(h) ==
    CASE h = Conexiones      -> "esperar_cliente"
      [] h = LargoPlazo      -> "espera_new"
      [] h = CortoPlazo      -> "espera_ready"
      [] h = Rajar           -> "espera_finalizados"
      [] h \in DeDispositivo -> "espera"
      [] OTHER               -> "no_creado"

Init ==
    /\ cola = [q \in Colas |-> <<>>]
    /\ sem = [s \in Semaforos |-> IF s = "multiprogramacion" THEN Grado ELSE 0]
    /\ cola_dispositivo = [d \in Dispositivos |-> <<>>]
    /\ s_dispositivos_io = [d \in Dispositivos |-> 0]
    /\ pid_actual = 0
    /\ pcb = [p \in Pids |-> PcbNuevo]
    /\ vida = [p \in Pids |-> "sin_crear"]
    /\ rafagas = [p \in Pids |-> 0]
    /\ pc = [h \in Hilos |-> PcInicial(h)]
    /\ ptr = [h \in Hilos |-> IF h \in DePageFault \cup DeConsola THEN h[2] ELSE NULO]
    /\ conexion_memoria_mutex = "libre"
    /\ pedidos = <<>> /\ respuestas = <<>>
    /\ estructuras = [p \in Pids |-> "no"]
    /\ cpu = [fase |-> "libre", pid |-> 0, pcb |-> PcbNuevo]
    /\ consola = [p \in Pids |-> "sin_conectar"]
    /\ falla = "ninguna"

Next ==
    \/ AtenderNuevaConsola
    \/ AvisarNew
    \/ NewAReady
    \/ RajarPcb
    \/ PlanificarEjecucion
    \/ \E d \in Dispositivos : EjecucionIO(d)
    \/ \E r \in Refs : SolicitarIOConsola(r)
    \/ \E r \in Refs : ManejarPageFault(r)
    \/ AtenderKernel
    \/ EjecutarRafaga

Spec == Init /\ [][Next]_vars

\* Every thread keeps running: each is a pthread of its own, blocked only in a
\* semaphore, a mutex or a socket; the memory, the CPU and the console answer.
Equidad ==
    /\ WF_vars(AvisarNew)
    /\ WF_vars(NewAReady)
    /\ WF_vars(RajarPcb)
    /\ WF_vars(PlanificarEjecucion)
    /\ \A d \in Dispositivos : WF_vars(EjecucionIO(d))
    /\ \A r \in Refs : WF_vars(SolicitarIOConsola(r)) /\ WF_vars(ManejarPageFault(r))
    /\ WF_vars(AtenderKernel)
    /\ WF_vars(EjecutarRafaga)

SpecJusta == Spec /\ Equidad
=============================================================================
