---------------------- MODULE PlanificacionPropiedades ----------------------
(***************************************************************************)
(* What the scheduler of Planificacion must satisfy: state invariants,     *)
(* action properties, the abstract life cycle it implements and the end of *)
(* every process.                                                          *)
(***************************************************************************)
EXTENDS Planificacion

\* The lines each thread stops at.
Lugares(h) ==
    CASE h = Conexiones ->
            {"esperar_cliente", "post_new"}
      [] h = LargoPlazo ->
            {"espera_new", "espera_grado", "sacar_new", "pedir", "resp",
             "resp_indices", "push_ready", "limpiar", "post_ready", "muerto"}
      [] h = CortoPlazo ->
            {"espera_ready", "mirar_rr", "sacar_rr", "sacar_fifo", "enviar",
             "destruir", "recibir", "dirigir", "resp_liberar", "push_ready",
             "limpiar", "post_ready"}
      [] h = Rajar ->
            {"espera_finalizados", "sacar_exit", "post_grado"}
      [] h \in DeDispositivo ->
            {"espera", "sacar", "push_ready", "limpiar", "post_ready"}
      [] h \in DePageFault ->
            {"no_creado", "espera", "pedir", "resp", "push_ready", "limpiar",
             "post_ready", "fin", "muerto"}
      [] h \in DeConsola ->
            {"no_creado", "solicitud", "push_ready", "limpiar", "post_ready", "fin"}

Lineas == UNION {Lugares(h) : h \in Hilos}

\* The variables have their types, and a thread is only at lines of its own.
TypeOK ==
    /\ cola \in [Colas -> Seq(Refs)]
    /\ sem \in [Semaforos -> Nat]
    /\ cola_dispositivo \in [Dispositivos -> Seq(Refs)]
    /\ s_dispositivos_io \in [Dispositivos -> Nat]
    /\ pid_actual \in 0..MaxPid
    /\ pcb \in [Pids -> Pcb]
    /\ vida \in [Pids -> {"sin_crear", "viva", "en_cpu", "destruida"}]
    /\ rafagas \in [Pids -> 0..MaxRafagas]
    /\ pc \in [Hilos -> Lineas]
    /\ \A h \in Hilos : pc[h] \in Lugares(h)
    /\ ptr \in [Hilos -> Refs \cup {NULO}]
    /\ conexion_memoria_mutex \in {"libre", "largo_plazo", "page_fault"}
    /\ pedidos \in Seq([cod : {"ESTRUCTURAS", "PAGINA", "LIBERAR_ESTRUCTURAS"},
                        pid : Pids])
    /\ respuestas \in Seq([cod : {"OKI_ESTRUCTURAS", "INDICES", "OKI_PAGINA",
                                  "OKI_LIBERAR_ESTRUCTURAS"}, pid : Pids])
    /\ estructuras \in [Pids -> {"no", "creadas", "liberadas"}]
    /\ cpu \in [fase : {"libre", "ejecutando", "lista"}, pid : 0..MaxPid, pcb : Pcb]
    /\ consola \in [Pids -> {"sin_conectar", "esperando", "finalizada"}]
    /\ falla \in {"ninguna", "cola_vacia", "uso_tras_liberar", "uso_tras_publicar",
                  "instruccion_nula", "trama_cortada"}

EnCola(r, q) == \E i \in DOMAIN q : q[i] = r
EnReady(r) == EnCola(r, cola["rr"]) \/ EnCola(r, cola["fifo"])

\* No thread takes a PCB from an empty queue (queue_pop would return NULL and
\* pcb->estado or pcb->pid crash the kernel): each sem_wait stands for one
\* element, whatever the order of pushes and posts of several threads, and the
\* queue pop_ready_pcb chose by an earlier look still has an element.
SinColaVacia == falla # "cola_vacia"

\* No wake-up is lost: if the dispatcher waits on procesos_ready and no thread is
\* between its push and its post, no process is left in a ready queue.
Publicando == {h \in Hilos : pc[h] \in {"limpiar", "post_ready"}}
SinProcesoOlvidado ==
    (pc[CortoPlazo] = "espera_ready" /\ sem["procesos_ready"] = 0 /\ Publicando = {})
        => cola["rr"] = <<>> /\ cola["fifo"] = <<>>

\* From the moment a process leaves the NEW queue to the moment its PCB is
\* destroyed it holds one of the Grado units of multiprogramacion.
Admitidos == {p \in Pids : /\ vida[p] \in {"viva", "en_cpu"}
                           /\ ~EnCola(<<p, 0>>, cola["new"])}
GradoRespetado == Cardinality(Admitidos) <= Grado

\* The memory never holds the structures of more than Grado processes, although
\* the dispatcher may take another thread's reply for the one to LIBERAR and give
\* the unit of multiprogramacion back early.
MemoriaAcotada == Cardinality({p \in Pids : estructuras[p] = "creadas"}) <= Grado

\* Nobody waits for a reply that cannot come: requests and codes under way are as
\* many as the threads blocked in recibir_operacion, swapped replies or not.
CodigosEnCamino == {i \in DOMAIN respuestas : respuestas[i].cod # "INDICES"}
NadieEsperaEnVano ==
    Len(pedidos) + Cardinality(CodigosEnCamino)
        = Cardinality({h \in Hilos : pc[h] \in {"resp", "resp_liberar"}})

\* All page fault threads wait on one semaphore, and one may take the unit posted for
\* another: each that has not begun still has a unit, so nobody is left without a turn.
TurnoDePageFault ==
    sem["proceso_page_fault"] = Cardinality({r \in Refs : pc[PF(r)] = "espera"})

\* The memory creates the structures of the processes in order of arrival.
AdmisionEnOrden ==
    \A p \in Pids : \A q \in 1..(p - 1) :
        estructuras[p] # "no" => estructuras[q] # "no"

\* A console is told to end only after the memory freed the process's structures.
\* With one process at a time: from three admitted processes on, the dispatcher that
\* took a page's OKI for the one to a LIBERAR later takes the OKI to that LIBERAR for
\* the next one's.
FinalizarTrasLiberar ==
    \A p \in Pids : consola[p] = "finalizada" => estructuras[p] = "liberadas"

\* A PCB is in one place: one position of one queue, or one thread that has it
\* before handing it on.
EnHilo(h) ==
    CASE h = LargoPlazo      -> {"pedir", "resp", "resp_indices", "push_ready"}
      [] h = CortoPlazo      -> {"enviar", "destruir", "push_ready"}
      [] h \in DeDispositivo -> {"push_ready"}
      [] h \in DePageFault   -> {"espera", "pedir", "resp", "push_ready"}
      [] h \in DeConsola     -> {"solicitud", "push_ready"}
      [] OTHER               -> {}
Duenios(r) ==
    {h \in Hilos : ptr[h] = r /\ pc[h] \in EnHilo(h)}
    \cup (UNION {{<<q, i>> : i \in {j \in DOMAIN cola[q] : cola[q][j] = r}} : q \in Colas})
    \cup (UNION {{<<"io", d, i>> : i \in {j \in DOMAIN cola_dispositivo[d] : cola_dispositivo[d][j] = r}}
                   : d \in Dispositivos})
DuenioUnico == \A r \in Refs : Cardinality(Duenios(r)) <= 1

\* Without the races of Carreras no thread takes, sends, directs or destroys a freed
\* PCB, and no PCB is directed by an instruction it does not have: the object the
\* dispatcher receives from the CPU replaces the one it freed before any other thread
\* can hold either.  What a pusher does to the PCB it published is the next property's.
SinUsoIndebido == falla \notin {"uso_tras_liberar", "instruccion_nula"}

\* A thread that pushed a PCB to ready finds it still allocated when it logs and stores
\* its new state: the dispatcher, woken for another one, did not take, send and destroy
\* it meanwhile.  With one process at a time there is no other one to be woken for.
SinUsoTrasPublicar == falla # "uso_tras_publicar"

\* A thread only reads the reply to its own request from the shared socket.
RespuestaPropia ==
    \A h \in Hilos :
        (pc[h] \in {"resp", "resp_indices", "resp_liberar"} /\ respuestas # <<>>)
            => Head(respuestas).pid = ptr[h][1]

\* "Error en page fault" and "Error al crear estructuras" are reported, and the
\* thread given up, only if the memory failed: its handler always answers OKI.
SinErrorDeMemoria == \A h \in Hilos : pc[h] # "muerto"

\* A process that came back with a page fault is left to its page fault thread:
\* the dispatcher does not direct it by the instruction before the faulting one.
PageFaultRespetado ==
    [][\A r \in Refs :
         (/\ pc[CortoPlazo] = "dirigir" /\ ptr[CortoPlazo] = r
          /\ pc[PF(r)] # "no_creado" /\ ~pcb[r[1]].segmentation_fault
          /\ pc'[CortoPlazo] # "dirigir")
            => pc'[CortoPlazo] = "espera_ready" /\ UNCHANGED <<cola_dispositivo, pcb>>
      ]_vars

-----------------------------------------------------------------------------
(* The accounts of queues and semaphores: what makes SinColaVacia inductive *)

Uno(b) == IF b THEN 1 ELSE 0

\* Each element of a queue is a unit of its semaphore, or a thread between its
\* push and its post, or one between its wait and its pop.
CuentaNew ==
    Len(cola["new"]) = sem["procesos_new"] + Uno(pc[Conexiones] = "post_new")
                       + Uno(pc[LargoPlazo] \in {"espera_grado", "sacar_new"})
CuentaExit ==
    Len(cola["exit"]) = sem["procesos_finalizados"] + Uno(pc[CortoPlazo] = "resp_liberar")
                        + Uno(pc[Rajar] = "sacar_exit")
CuentaDispositivos ==
    \A d \in Dispositivos :
        Len(cola_dispositivo[d]) = s_dispositivos_io[d] + Uno(pc[ES(d)] = "sacar")
EnReadys == Len(cola["rr"]) + Len(cola["fifo"])
CuentaReady ==
    /\ IsFiniteSet(Publicando)
    /\ EnReadys
         = sem["procesos_ready"] + Cardinality(Publicando)
           + Uno(pc[CortoPlazo] \in {"mirar_rr", "sacar_rr", "sacar_fifo"})

\* Only FEEDBACK uses both ready queues, and the one the dispatcher chose is not
\* empty when it gets to the pop.
ColaElegida ==
    /\ Algoritmo = "RR" => cola["fifo"] = <<>>
    /\ Algoritmo = "FIFO" => cola["rr"] = <<>>
    /\ pc[CortoPlazo] = "sacar_rr" => cola["rr"] # <<>>
    /\ pc[CortoPlazo] = "sacar_fifo" => cola["fifo"] # <<>>

\* The references TypeOK and the accounts need: what is sent to the memory or runs
\* on the CPU is a process, a burst that is back fits the bound, and the thread of
\* a page fault or of a console IO is not created twice.
Referencias ==
    /\ \A r \in Refs : (pc[PF(r)] # "no_creado" \/ pc[IO(r)] # "no_creado")
                        => r[2] <= rafagas[r[1]]
    /\ pc[CortoPlazo] = "dirigir" => /\ ptr[CortoPlazo] \in Refs
                                     /\ pc[IO(ptr[CortoPlazo])] = "no_creado"
    /\ pc[LargoPlazo] = "pedir" => ptr[LargoPlazo] \in Refs
    /\ cpu.fase # "libre" => cpu.pid \in Pids
    /\ cpu.fase = "lista" => rafagas[cpu.pid] < MaxRafagas

IInv ==
    /\ TypeOK /\ Referencias
    /\ CuentaNew /\ CuentaExit /\ CuentaDispositivos /\ CuentaReady
    /\ ColaElegida
    /\ SinColaVacia

-----------------------------------------------------------------------------
(* Admission: what makes GradoRespetado, AdmisionEnOrden and MemoriaAcotada        *)
(* inductive                                                                *)

\* Processes 1 to Corte left the NEW queue; the last of them may still be with the
\* thread that admits processes, the others were launched.
Corte == pid_actual - Len(cola["new"])
EnAdmision == {"pedir", "resp", "resp_indices", "push_ready", "muerto"}
Lanzado(p) == /\ p \in 1..Corte
              /\ p = Corte => pc[LargoPlazo] \notin EnAdmision

\* The NEW queue holds the latest arrivals in order, and nothing happened to them.
NewEnOrden ==
    /\ Len(cola["new"]) <= pid_actual
    /\ \A i \in DOMAIN cola["new"] : cola["new"][i] = <<Corte + i, 0>>
    /\ \A p \in Pids : p <= Corte => vida[p] # "sin_crear"
    /\ \A p \in Pids : Corte < p /\ p <= pid_actual => vida[p] = "viva"
    /\ \A p \in Pids : pid_actual < p => vida[p] = "sin_crear"

\* Every queue, thread and message but those of admission is about a launched process.
SoloLanzados ==
    /\ \A q \in {"rr", "fifo", "exit"} : \A i \in DOMAIN cola[q] : Lanzado(cola[q][i][1])
    /\ \A d \in Dispositivos : \A i \in DOMAIN cola_dispositivo[d] :
          Lanzado(cola_dispositivo[d][i][1])
    /\ \A d \in Dispositivos : pc[ES(d)] \notin {"espera", "sacar"} => Lanzado(ptr[ES(d)][1])
    /\ \A r \in Refs : pc[PF(r)] # "no_creado" \/ pc[IO(r)] # "no_creado" => Lanzado(r[1])
    /\ pc[CortoPlazo] \in {"enviar", "destruir", "dirigir", "push_ready", "limpiar",
                           "resp_liberar"} => Lanzado(ptr[CortoPlazo][1])
    /\ cpu.fase # "libre" => Lanzado(cpu.pid)
    /\ \A i \in DOMAIN pedidos : pedidos[i].cod # "ESTRUCTURAS" => Lanzado(pedidos[i].pid)
PunterosFijos ==
    /\ \A r \in Refs : ptr[PF(r)] = r /\ ptr[IO(r)] = r
    /\ pc[LargoPlazo] \in EnAdmision => ptr[LargoPlazo] = <<Corte, 0>>

\* The PCB the dispatcher destroys is the one it sent, and it stays with the CPU.
PcbEnCpu ==
    /\ pc[CortoPlazo] = "destruir" => cpu.fase # "libre" /\ cpu.pid = ptr[CortoPlazo][1]
    /\ pc[CortoPlazo] = "recibir" => cpu.fase # "libre" /\ vida[cpu.pid] = "en_cpu"

\* Each unit of multiprogramacion is in the semaphore, with the thread about to admit
\* or about to give it back, or with a process.
CuentaGrado ==
    sem["multiprogramacion"] + Uno(pc[LargoPlazo] = "sacar_new")
      + Uno(pc[Rajar] = "post_grado") + Cardinality(Admitidos) = Grado

\* At most one creation is under way, of the process being admitted; an answer to it
\* nobody read means that the thread still waits, or gave up.
CreacionUnica ==
    /\ \A i \in DOMAIN pedidos : pedidos[i].cod = "ESTRUCTURAS" =>
          /\ pedidos[i].pid = Corte /\ estructuras[Corte] = "no"
          /\ pc[LargoPlazo] \in {"resp", "muerto"}
    /\ \A i \in DOMAIN respuestas : respuestas[i].cod = "OKI_ESTRUCTURAS" =>
          /\ respuestas[i].pid = Corte /\ estructuras[Corte] # "no"
          /\ pc[LargoPlazo] \in {"resp", "muerto"}
    /\ \A i, j \in DOMAIN pedidos :
          pedidos[i].cod = "ESTRUCTURAS" /\ pedidos[j].cod = "ESTRUCTURAS" => i = j
    /\ \A i, j \in DOMAIN respuestas :
          respuestas[i].cod = "OKI_ESTRUCTURAS" /\ respuestas[j].cod = "OKI_ESTRUCTURAS"
            => i = j
EstructurasHasta ==
    /\ \A p \in Pids : Corte < p => estructuras[p] = "no"
    /\ \A p \in Pids : p < Corte => estructuras[p] # "no"
    /\ \A p \in Pids : p = Corte =>
          /\ pc[LargoPlazo] = "pedir" => estructuras[p] = "no"
          /\ pc[LargoPlazo] \notin {"pedir", "resp", "muerto"} => estructuras[p] # "no"

\* A process in the EXIT queue or destroyed was released, or will be by a request
\* already sent.
LiberacionEnviada(p, n) ==
    \E i \in DOMAIN pedidos :
        i < n /\ pedidos[i].cod = "LIBERAR_ESTRUCTURAS" /\ pedidos[i].pid = p
LiberacionPedida(p) ==
    estructuras[p] = "liberadas" \/ LiberacionEnviada(p, Len(pedidos) + 1)
Liberaciones ==
    /\ \A i \in DOMAIN cola["exit"] : LiberacionPedida(cola["exit"][i][1])
    /\ \A p \in Pids : vida[p] = "destruida" => LiberacionPedida(p)

\* The memory answers in order: when it gets to a creation, the releases sent before
\* it made room for it.
OcupadasAntes(n) ==
    {p \in Pids : estructuras[p] = "creadas" /\ ~LiberacionEnviada(p, n)}
CabeLaCreacion ==
    \A i \in DOMAIN pedidos : pedidos[i].cod = "ESTRUCTURAS" =>
        Cardinality(OcupadasAntes(i) \cup {pedidos[i].pid}) <= Grado

IAdmision ==
    /\ NewEnOrden /\ SoloLanzados /\ PunterosFijos /\ PcbEnCpu /\ CuentaGrado
    /\ CreacionUnica /\ EstructurasHasta
    /\ Liberaciones /\ CabeLaCreacion /\ MemoriaAcotada

-----------------------------------------------------------------------------
(* Ownership: what makes DuenioUnico, SinUsoIndebido and PageFaultRespetado        *)
(* inductive when no thread hits the windows of Carreras                    *)

\* The places a PCB can be in: a thread, a queue, the queue of a device.
EnLaCola(q)       == <<q, NULO>>
EnDispositivo(d)  == <<"io", <<d, 0>>>>
Sitios == Hilos \cup {EnLaCola(q) : q \in Colas} \cup {EnDispositivo(d) : d \in Dispositivos}
Tiene(s, r) ==
    \/ s \in Hilos /\ ptr[s] = r /\ pc[s] \in EnHilo(s)
    \/ \E q \in Colas : s = EnLaCola(q) /\ EnCola(r, cola[q])
    \/ \E d \in Dispositivos : s = EnDispositivo(d) /\ EnCola(r, cola_dispositivo[d])

UnSoloSitio == \A r \in Refs : \A s, t \in Sitios : Tiene(s, r) /\ Tiene(t, r) => s = t
SinRepetir(q) == \A i, j \in DOMAIN q : q[i] = q[j] => i = j
SinRepetidos ==
    /\ \A q \in Colas : SinRepetir(cola[q])
    /\ \A d \in Dispositivos : SinRepetir(cola_dispositivo[d])
SoloValidos == \A r \in Refs \cup {NULO} : \A s \in Sitios : Tiene(s, r) => Valido(r)

\* A PCB whose pusher has not stored its new state yet was a PCB once, and it is not the
\* one the dispatcher directs.
PublicadoAparte ==
    \A h \in Hilos : pc[h] = "limpiar" =>
        /\ ptr[h] \in Refs /\ ptr[h][2] <= rafagas[ptr[h][1]]
        /\ pc[CortoPlazo] = "dirigir" => ptr[h] # ptr[CortoPlazo]
SinEstrenar == \A p \in Pids : vida[p] = "sin_crear" => rafagas[p] = 0

\* A PCB goes to the CPU without the flags of its last fault, and comes back with
\* one of them or with an instruction to direct it by.
SinFallo(c) == ~c.page_fault /\ ~c.segmentation_fault
Encaminable(c) == /\ ~(c.page_fault /\ c.segmentation_fault)
                  /\ SinFallo(c) => c.ultima # "ninguna"
Limpios ==
    /\ \A r \in Refs : EnReady(r) => SinFallo(pcb[r[1]])
    /\ pc[CortoPlazo] = "enviar" => SinFallo(pcb[ptr[CortoPlazo][1]])
    /\ cpu.fase = "ejecutando" => SinFallo(cpu.pcb)
    /\ cpu.fase = "lista" => Encaminable(cpu.pcb)

\* One thread at a time between the lock of conexion_memoria_mutex and its unlock.
EnElSocket(h) == h \in {LargoPlazo} \cup DePageFault /\ pc[h] \in {"resp", "resp_indices"}
SocketTomado ==
    /\ \A h \in Hilos : EnElSocket(h) => conexion_memoria_mutex # "libre"
    /\ \A h, k \in Hilos : EnElSocket(h) /\ EnElSocket(k) => h = k

\* While the dispatcher directs a PCB nobody else has it, except the thread of its
\* page fault, which gets no answer before the dispatcher is done.
PaginaPedida(r) ==
    pc[PF(r)] = "resp" =>
        /\ pedidos = <<[cod |-> "PAGINA", pid |-> r[1]]>>
        /\ \A i \in DOMAIN respuestas : respuestas[i].cod = "INDICES"
ADirigir ==
    pc[CortoPlazo] = "dirigir" =>
        LET r == ptr[CortoPlazo]
            c == pcb[r[1]]
        IN
        /\ Valido(r) /\ Encaminable(c)
        /\ c.page_fault => pc[PF(r)] \in {"espera", "pedir", "resp"} /\ PaginaPedida(r)
        /\ ~c.page_fault => pc[PF(r)] = "no_creado" /\ \A s \in Sitios : ~Tiene(s, r)

IDuenio ==
    /\ UnSoloSitio /\ SinRepetidos /\ SoloValidos /\ PublicadoAparte /\ SinEstrenar
    /\ Limpios /\ SocketTomado /\ ADirigir
    /\ SinUsoIndebido

-----------------------------------------------------------------------------
(* One process at a time: what makes RespuestaPropia, SinErrorDeMemoria and        *)
(* FinalizarTrasLiberar inductive when Grado = 1                            *)

\* What a thread asks of the memory, and the answer of AtenderKernel.
PedidoDe(h) ==
    [cod |-> IF h = LargoPlazo THEN "ESTRUCTURAS"
             ELSE IF h = CortoPlazo THEN "LIBERAR_ESTRUCTURAS" ELSE "PAGINA",
     pid |-> ptr[h][1]]
RespuestaA(h) ==
    LET cods == Codigos(PedidoDe(h).cod)
    IN [i \in 1..Len(cods) |-> [cod |-> cods[i], pid |-> ptr[h][1]]]

\* All there is on the socket is the request of the one thread that waits, or what it has
\* not read yet of its answer.
Conversa(h) == pc[h] \in {"resp", "resp_indices", "resp_liberar"}
UnaConversacion ==
    /\ \A h \in Hilos : pc[h] \in {"resp", "resp_liberar"} =>
          \/ pedidos = <<PedidoDe(h)>> /\ respuestas = <<>>
          \/ pedidos = <<>> /\ respuestas = RespuestaA(h)
    /\ pc[LargoPlazo] = "resp_indices" =>
          pedidos = <<>> /\ respuestas = Tail(RespuestaA(LargoPlazo))
    /\ (\A h \in Hilos : ~Conversa(h)) => pedidos = <<>> /\ respuestas = <<>>

\* The dispatcher waits for a release while the PCB is in the EXIT queue, and an answer to
\* a release is true for good.
LiberarEnExit == pc[CortoPlazo] = "resp_liberar" => EnCola(ptr[CortoPlazo], cola["exit"])
RespuestaLiberada ==
    \A i \in DOMAIN respuestas : respuestas[i].cod = "OKI_LIBERAR_ESTRUCTURAS" =>
        estructuras[respuestas[i].pid] = "liberadas"

IUno ==
    /\ UnaConversacion /\ LiberarEnExit /\ RespuestaLiberada
    /\ FinalizarTrasLiberar /\ SinErrorDeMemoria

-----------------------------------------------------------------------------
(* The life cycle the threads implement *)

\* Blocked: queued or held for a device or a console IO, or with the page fault
\* thread (for ever, if that thread gave up).
Bloqueado(r) ==
    \/ \E d \in Dispositivos : EnCola(r, cola_dispositivo[d])
    \/ \E d \in Dispositivos : pc[ES(d)] = "push_ready" /\ ptr[ES(d)] = r
    \/ pc[PF(r)] \in {"espera", "pedir", "resp", "push_ready", "muerto"}
    \/ pc[IO(r)] \in {"solicitud", "push_ready"}

Ejecutando(r) ==
    \/ vida[r[1]] = "en_cpu"
    \/ /\ ptr[CortoPlazo] = r /\ ~Bloqueado(r)
       /\ pc[CortoPlazo] \in {"enviar", "destruir", "dirigir", "push_ready"}

\* Where a process is, told by the queue or the thread that has its PCB, the queue
\* first: a PCB just pushed is its queue's.
EstadoAbstracto(p) ==
    LET r == <<p, rafagas[p]>> IN
    IF vida[p] = "sin_crear"          THEN "FUERA"
    ELSE IF vida[p] = "destruida"     THEN "FIN"
    ELSE IF EnReady(r)                THEN "READY"
    ELSE IF EnCola(r, cola["exit"])   THEN "EXIT"
    ELSE IF Bloqueado(r)              THEN "BLOCK"
    ELSE IF Ejecutando(r)             THEN "EXEC"
    ELSE "NEW"

Ciclo == INSTANCE CicloDeVida WITH estado <- [p \in Pids |-> EstadoAbstracto(p)]
RefinaCicloDeVida == Ciclo!Spec

\* What the steps need to be those of the life cycle: nobody has the PCB of a page fault
\* thread that gave up, the CPU has the process the dispatcher waits for, and a launched
\* process is somewhere.
Difuntos ==
    \A r \in Refs : pc[PF(r)] = "muerto" => Valido(r) /\ \A s \in Sitios : ~Tiene(s, r)
EnCpuSolo == \A p \in Pids : vida[p] = "en_cpu" => pc[CortoPlazo] = "recibir" /\ cpu.pid = p
NadieSePierde == \A p \in Pids : Lanzado(p) => EstadoAbstracto(p) \notin {"FUERA", "NEW"}
ICiclo == Difuntos /\ EnCpuSolo /\ NadieSePierde

-----------------------------------------------------------------------------
\* Every process whose console connected ends: its structures are freed, its
\* console is told, its PCB is destroyed.
TodoTermina ==
    \A p \in Pids : vida[p] = "viva" ~> vida[p] = "destruida" /\ consola[p] = "finalizada"
=============================================================================
