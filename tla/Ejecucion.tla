----------------------------- MODULE Ejecucion -----------------------------
(***************************************************************************)
(* The whole system, from the program file of a console to what it prints:  *)
(* the consoles (consola/src), their sockets, the kernel's threads that     *)
(* carry a PCB (planificacion.c, io.c), the CPU's cycle and the memory's    *)
(* handlers, with everything that is sent in bytes.                        *)
(*                                                                         *)
(* The algorithm is RR: the other two, and the races inside the kernel, are *)
(* in Planificacion; when the interrupt comes is in Quantum, and here it    *)
(* may come after any instruction.                                         *)
(***************************************************************************)
EXTENDS Cpu, Consola

CONSTANTS
    Consolas,
    Archivos(_),           \* the program files a console may be given
    Segmentos(_),          \* SEGMENTOS in its configuration
    Grado,                 \* GRADO_MAX_MULTIPROGRAMACION
    Teclas,                \* what may be typed
    Interrumpibles,        \* consoles whose user may type ^C
    Reuso                  \* whether a console accepted may get the descriptor of a dead
                           \* one while a PCB has its number, as the kernel lets it;
                           \* FALSE is the bound that keeps those descriptors apart

Cerrado == "cerrado"       \* a descriptor that is no console's

ASSUME EjecucionAssumption ==
    /\ Grado \in Nat \ {0} /\ Interrumpibles \subseteq Consolas /\ Teclas \subseteq Enteros
    /\ IsFiniteSet(Consolas) /\ Cerrado \notin Consolas /\ Reuso \in BOOLEAN
    \* an int holds every address and size
    /\ {TamPagina * CantMarcos, Cardinality(Consolas)} \subseteq Enteros

\* Files are lines of words, and what is printed is a register: the value of any other is
\* read from a variable nobody wrote (obtener_valor_del_registro).
ImprimeRegistro(linea) ==
    (Len(linea) >= 3 /\ linea[1] = "I/O" /\ linea[2] = "PANTALLA")
        => \E n \in DOMAIN Registros : linea[3] = Registros[n]
ASSUME ArchivosAssumption ==
    \A c \in Consolas :
        /\ EsLista(Segmentos(c)) /\ \A i \in DOMAIN Segmentos(c) : EsTexto(Segmentos(c)[i])
        /\ \A archivo \in Archivos(c) :
              /\ EsLista(archivo) /\ archivo # <<>>
              /\ \A i \in DOMAIN archivo :
                    /\ EsLista(archivo[i]) /\ archivo[i] # <<>> /\ ImprimeRegistro(archivo[i])
                    /\ \A k \in DOMAIN archivo[i] : EsTexto(archivo[i][k])

\* No program has an address that reads past the list of its segments, and an int holds the
\* index of every table there will be.
ASSUME DireccionesAssumption ==
    \A c \in Consolas :
        /\ Len(Segmentos(c)) * Cardinality(Consolas) \in Enteros
        /\ \A archivo \in Archivos(c) : SePuedeLeer(archivo) =>
              Direccionable(obtener_pseudocodigo(archivo), Len(Segmentos(c)))

Pids == 1..Cardinality(Consolas)
Descriptores == 1..Cardinality(Consolas)     \* those the kernel gets for consoles
Ninguno == 0

VARIABLES
    consola,        \* what the process of each console is doing
    haciaKernel,    \* the bytes a console sent that the kernel did not read
    haciaConsola,   \* the bytes the kernel sent that the console did not read
    pendientes,     \* consoles connected and not accepted
    fds,            \* the kernel's descriptors
    aceptado,       \* consola_fd of atender_nueva_consola
    pid_actual,
    pcbs,           \* the PCBs in the kernel's heap, by pid
    cola_new, cola_ready, cola_dispositivo, cola_exit,
    multiprogramacion,
    hilo,           \* what the thread started for a PCB has to do with it
    cpu,
    memoria,
    tlb,
    \* history: the console of each process, the processes past a console instruction
    \* that has not had its effect, and what each console printed
    consolaDe, falta, pantalla

deConsolas == <<consola, haciaKernel, haciaConsola>>
conexiones == <<pendientes, fds, aceptado>>
colas == <<cola_new, cola_ready, cola_dispositivo, cola_exit>>
deKernel == <<pid_actual, pcbs, colas, multiprogramacion, hilo>>
historia == <<consolaDe, falta, pantalla>>
vars == <<deConsolas, conexiones, deKernel, cpu, memoria, tlb, historia>>

Libre == [estado |-> "libre"]

Init ==
    /\ consola = [c \in Consolas |-> "sin iniciar"]
    /\ haciaKernel = [c \in Consolas |-> <<>>] /\ haciaConsola = [c \in Consolas |-> <<>>]
    /\ pendientes = <<>> /\ fds = [f \in Descriptores |-> Cerrado] /\ aceptado = Ninguno
    /\ pid_actual = 0 /\ pcbs = <<>> /\ multiprogramacion = Grado
    /\ cola_new = <<>> /\ cola_ready = <<>> /\ cola_dispositivo = <<>> /\ cola_exit = <<>>
    /\ hilo = [p \in Pids |-> "ninguno"]
    /\ cpu = Libre /\ memoria = MemoriaVacia /\ tlb = TlbVacia
    /\ consolaDe = <<>> /\ falta = [p \in Pids |-> FALSE] /\ pantalla = [c \in Consolas |-> <<>>]

---------------------------------------------------------------------------
(* The consoles *)

Terminada(c) == consola[c] \in {"fin", "muerta"}
AlKernel(c, bytes) == haciaKernel' = [haciaKernel EXCEPT ![c] = @ \o bytes]

Conectar(c) ==
    /\ consola[c] = "sin iniciar"
    /\ consola' = [consola EXCEPT ![c] = "conectada"]
    /\ pendientes' = Append(pendientes, c)
    /\ UNCHANGED <<haciaKernel, haciaConsola, fds, aceptado, deKernel, cpu, memoria, tlb, historia>>

\* main reads the file after it has connected.
EnviarPrograma(c) ==
    /\ consola[c] = "conectada"
    /\ \E archivo \in Archivos(c) :
          IF SePuedeLeer(archivo)
          THEN /\ AlKernel(c, Paquete("PROCESO", empaquetar_proceso(
                      [instrucciones |-> obtener_pseudocodigo(archivo),
                       segmentos |-> Segmentos(c)])))
               /\ consola' = [consola EXCEPT ![c] = "atiende"]
          ELSE consola' = [consola EXCEPT ![c] = "fin"] /\ UNCHANGED haciaKernel
    /\ UNCHANGED <<haciaConsola, conexiones, deKernel, cpu, memoria, tlb, historia>>

PuedeAtender(c) == consola[c] = "atiende" /\ haciaConsola[c] # <<>>

\* atender_solicitud_kernel; what printing leaves for later is ContestarPantalla.
Atender(c) ==
    LET flujo == haciaConsola[c]
        valor == Valor(Buffer(flujo))
        suyos == {p \in DOMAIN consolaDe : consolaDe[p] = c}
    IN
    /\ PuedeAtender(c)
    /\ CASE Operacion(flujo) = "TECLADO" ->
              /\ \E valor_ingresado \in Teclas :
                    AlKernel(c, ValorConCodigo(valor_ingresado, "OKI_TECLADO"))
              /\ haciaConsola' = [haciaConsola EXCEPT ![c] = TrasOperacion(@)]
              /\ UNCHANGED <<consola, pantalla, falta>>
         [] Operacion(flujo) = "PANTALLA" ->
              /\ pantalla' = [pantalla EXCEPT ![c] = Append(@, valor)]
              /\ falta' = [p \in Pids |-> falta[p] /\ p \notin suyos]
              /\ haciaConsola' = [haciaConsola EXCEPT ![c] = TrasPaquete(@)]
              /\ consola' = [consola EXCEPT ![c] = "imprimio"]
              /\ UNCHANGED haciaKernel
         [] OTHER ->      \* FINALIZAR, or an unknown message
              /\ consola' = [consola EXCEPT ![c] = "fin"]
              /\ haciaConsola' = [haciaConsola EXCEPT ![c] = TrasOperacion(@)]
              /\ UNCHANGED <<haciaKernel, pantalla, falta>>
    /\ UNCHANGED <<conexiones, deKernel, cpu, memoria, tlb, consolaDe>>

ContestarPantalla(c) ==
    /\ consola[c] = "imprimio"
    /\ AlKernel(c, Codigo("OKI_PANTALLA"))
    /\ consola' = [consola EXCEPT ![c] = "atiende"]
    /\ UNCHANGED <<haciaConsola, conexiones, deKernel, cpu, memoria, tlb, historia>>

\* sighandler ends the process, whatever it was doing.
Sigint(c) ==
    /\ c \in Interrumpibles /\ consola[c] \in {"conectada", "atiende", "imprimio"}
    /\ consola' = [consola EXCEPT ![c] = "muerta"]
    /\ haciaConsola' = [haciaConsola EXCEPT ![c] = <<>>]
    /\ UNCHANGED <<haciaKernel, conexiones, deKernel, cpu, memoria, tlb, historia>>

---------------------------------------------------------------------------
(* The kernel and its sockets *)

\* What recv can say of a descriptor: there is something to read, or it fails; with
\* neither, recv waits.
HayDatos(fd) == fds[fd] # Cerrado /\ haciaKernel[fds[fd]] # <<>>


RecvFalla(fd) == IF fds[fd] = Cerrado THEN TRUE
                 ELSE Terminada(fds[fd]) /\ haciaKernel[fds[fd]] = <<>>
Flujo(fd) == haciaKernel[fds[fd]]
Leido(fd, resto) == haciaKernel' = [haciaKernel EXCEPT ![fds[fd]] = resto]

\* recibir_operacion closes a descriptor that fails.
Cerrar(fd) == fds' = [fds EXCEPT ![fd] = Cerrado]

\* enviar_datos, enviar_paquete: to a console that is gone, or to a closed descriptor,
\* the bytes are lost.
Enviar(fd, bytes) ==
    haciaConsola' = IF fds[fd] # Cerrado /\ ~Terminada(fds[fd])
                    THEN [haciaConsola EXCEPT ![fds[fd]] = @ \o bytes] ELSE haciaConsola

\* A PCB in the heap or in the CPU has the number of this descriptor.
EnUnPcb(fd) ==
    \/ \E p \in DOMAIN pcbs : pcbs[p].socket_consola = fd
    \/ cpu # Libre /\ cpu.pcb.socket_consola = fd

\* atender_nueva_consola: esperar_cliente gives the lowest descriptor that is free.
Disponible(fd) == fds[fd] = Cerrado /\ (Reuso \/ ~EnUnPcb(fd))
PuedeAceptar == aceptado = Ninguno /\ pendientes # <<>>
AceptarConsola ==
    /\ PuedeAceptar
    /\ \E fd \in Descriptores :
          /\ Disponible(fd) /\ \A g \in 1..(fd - 1) : ~Disponible(g)
          /\ fds' = [fds EXCEPT ![fd] = Head(pendientes)]
          /\ aceptado' = fd
    /\ pendientes' = Tail(pendientes)
    /\ UNCHANGED <<deConsolas, deKernel, cpu, memoria, tlb, historia>>

pcb_create(proceso, pid, socket) ==
    [pid |-> pid, program_counter |-> 0, estado |-> "NEW", socket_consola |-> socket,
     interrupcion |-> FALSE, con_desalojo |-> FALSE, page_fault |-> FALSE,
     segmentation_fault |-> FALSE,
     registros |-> [AX |-> 0, BX |-> 0, CX |-> 0, DX |-> 0], pagina_fault |-> Nulo,
     instrucciones |-> proceso.instrucciones, tabla_de_segmentos |-> <<>>,
     tamanio_segmentos |-> proceso.segmentos]

\* The object of a PCB, or its new fields, in the heap.
Guardar(pcb) ==
    pcbs' = [p \in DOMAIN pcbs \cup {pcb.pid} |-> IF p = pcb.pid THEN pcb ELSE pcbs[p]]

PuedeRecibir == aceptado # Ninguno /\ (HayDatos(aceptado) \/ RecvFalla(aceptado))
RecibirProceso ==
    LET fd == aceptado
        pid == pid_actual + 1
    IN
    /\ PuedeRecibir
    /\ \/ /\ HayDatos(fd)
          /\ Leido(fd, TrasPaquete(Flujo(fd)))
          /\ IF Operacion(Flujo(fd)) = "PROCESO"
             THEN /\ Guardar(pcb_create(deserializar_proceso(Buffer(Flujo(fd))), pid, fd))
                  /\ cola_new' = Append(cola_new, pid)
                  /\ pid_actual' = pid
                  /\ consolaDe' = Append(consolaDe, fds[fd])
             ELSE UNCHANGED <<pcbs, cola_new, pid_actual, consolaDe>>
          /\ UNCHANGED fds
       \/ /\ RecvFalla(fd) /\ Cerrar(fd)
          /\ UNCHANGED <<haciaKernel, pcbs, cola_new, pid_actual, consolaDe>>
    /\ aceptado' = Ninguno
    /\ UNCHANGED <<consola, haciaConsola, pendientes, cola_ready, cola_dispositivo, cola_exit,
                   multiprogramacion, hilo, cpu, memoria, tlb, falta, pantalla>>

---------------------------------------------------------------------------
(* The kernel's schedulers *)

\* pasar_a_ready, of the PCB as it stands: push_ready_pcb and cambiar_estado.
PasarAReady(pcb) ==
    /\ Guardar([pcb EXCEPT !.estado = "READY", !.con_desalojo = TRUE, !.interrupcion = FALSE,
                           !.page_fault = FALSE, !.segmentation_fault = FALSE])
    /\ cola_ready' = Append(cola_ready, pcb.pid)

\* Mutation: a process is admitted without waiting its turn.
TomarUnidadOmitido == UNCHANGED multiprogramacion

\* sem_wait(&multiprogramacion).
TomarUnidad == multiprogramacion' = multiprogramacion - 1

crear_tabla_segmentos(indices, tamanios) ==
    [i \in DOMAIN indices |->
        [nro_segmento |-> i - 1, indice_tabla_paginas |-> atoi(indices[i]),
         tamanio_segmento |-> atoi(tamanios[i])]]

\* transicion_new_a_ready and solicitar_creacion_estructuras_administrativas.
PuedeAdmitir == cola_new # <<>> /\ multiprogramacion > 0
CrearEstructuras ==
    LET pcb == pcbs[Head(cola_new)]
        r == AtenderPedidoDeEstructuras(memoria, Buffer(Paquete("ESTRUCTURAS",
                 empaquetar_pcb_memoria([pid |-> pcb.pid, segmentos |-> pcb.tamanio_segmentos]))))
        indices == deserializar_strings(Buffer(r.respuesta), 0).valor
    IN
    /\ PuedeAdmitir
    /\ TomarUnidad
    /\ cola_new' = Tail(cola_new)
    /\ memoria' = r.mem
    /\ PasarAReady([pcb EXCEPT !.tabla_de_segmentos =
                        crear_tabla_segmentos(indices, pcb.tamanio_segmentos)])
    /\ UNCHANGED <<deConsolas, conexiones, pid_actual, cola_dispositivo, cola_exit, hilo,
                   cpu, tlb, historia>>

\* What the other end of conexion_cpu_dispatch makes of a PCB.
PorDispatch(pcb) == recibir_pcb(Buffer(Paquete("PCB", empaquetar_pcb(pcb))))

EnCpu(pcb) ==
    [estado |-> IF pcb.program_counter < Len(pcb.instrucciones) THEN "ejecuta" ELSE "devuelve",
     pcb |-> pcb]

\* planificar_ejecucion as far as pcb_destroy.
PuedeDespachar == cpu = Libre /\ cola_ready # <<>>
Despachar ==
    LET pid == Head(cola_ready) IN
    /\ PuedeDespachar
    /\ cpu' = EnCpu(PorDispatch([pcbs[pid] EXCEPT !.estado = "EXEC"]))
    /\ cola_ready' = Tail(cola_ready)
    /\ pcbs' = Restrict(pcbs, DOMAIN pcbs \ {pid})
    /\ UNCHANGED <<deConsolas, conexiones, pid_actual, cola_new, cola_dispositivo, cola_exit,
                   multiprogramacion, hilo, memoria, tlb, historia>>

EsDeConsola(i) == i.operacion = "IO" /\ i.parametro1 \in {"TECLADO", "PANTALLA"}

\* One turn of iniciar_ciclo_de_instruccion.
EjecutarInstruccion ==
    LET pcb == cpu.pcb
        i == fetch(pcb)
        d == decode(pcb, i, memoria, tlb)
        e == ejecutar_instruccion(d.pcb, i, memoria, d)
        seguido == [e.pcb EXCEPT !.program_counter = @ + 1]
    IN
    /\ cpu.estado = "ejecuta"
    /\ IF d.error
       THEN /\ cpu' = [estado |-> "devuelve", pcb |-> d.pcb]
            /\ tlb' = d.tlb
            /\ UNCHANGED <<memoria, falta>>
       ELSE /\ memoria' = e.mem /\ tlb' = e.tlb
            /\ falta' = [falta EXCEPT ![pcb.pid] = EsDeConsola(i)]
            /\ IF i.operacion = "IO" THEN cpu' = [estado |-> "devuelve", pcb |-> seguido]
               ELSE \/ cpu' = EnCpu(seguido)
                    \/ cpu' = [estado |-> "devuelve", pcb |-> [seguido EXCEPT !.interrupcion = TRUE]]
    /\ UNCHANGED <<deConsolas, conexiones, deKernel, consolaDe, pantalla>>

\* solicitar_finalizacion: the memory answers before the console is told.
Finalizar(pcb) ==
    LET r == AtenderLiberarEstructuras(memoria,
                 Buffer(ValorConCodigo(pcb.pid, "LIBERAR_ESTRUCTURAS"))) IN
    /\ Guardar([pcb EXCEPT !.estado = "FINISH_EXIT"])
    /\ cola_exit' = Append(cola_exit, pcb.pid)
    /\ memoria' = r.mem
    /\ IF Operacion(r.respuesta) = "OKI_LIBERAR_ESTRUCTURAS"
       THEN Enviar(pcb.socket_consola, Codigo("FINALIZAR")) ELSE UNCHANGED haciaConsola
    /\ UNCHANGED <<cola_ready, cola_dispositivo, hilo>>

\* The PCB is blocked, and a thread or the queue of the device has it.
Bloquear(pcb, trabajo) ==
    /\ Guardar([pcb EXCEPT !.estado = "BLOCK"])
    /\ IF trabajo = "dispositivo"
       THEN cola_dispositivo' = Append(cola_dispositivo, pcb.pid) /\ UNCHANGED hilo
       ELSE hilo' = [hilo EXCEPT ![pcb.pid] = trabajo] /\ UNCHANGED cola_dispositivo
    /\ UNCHANGED <<cola_ready, cola_exit, memoria, haciaConsola>>

\* planificar_ejecucion after obtener_proceso_ejecutado: analizar_contexto_recibido, which
\* clears what the interrupt left, and dirigir_proceso_ejecutado.
Devolver ==
    LET recibido == PorDispatch(cpu.pcb)
        pcb == IF recibido.interrupcion
               THEN [recibido EXCEPT !.interrupcion = FALSE, !.con_desalojo = FALSE] ELSE recibido
        ultima == obtener_ultima_instruccion(pcb)
        fallo == pcb.segmentation_fault \/ pcb.page_fault
    IN
    /\ cpu.estado = "devuelve"
    /\ CASE pcb.page_fault -> Bloquear(pcb, "page fault")
         [] pcb.segmentation_fault -> Finalizar(pcb)
         [] ~fallo /\ ultima.operacion = "EXIT" -> Finalizar(pcb)
         [] ~fallo /\ ultima.operacion = "IO" ->
              Bloquear(pcb, IF EsDeConsola(ultima) THEN "pedir" ELSE "dispositivo")
         [] OTHER -> /\ PasarAReady(pcb)
                     /\ UNCHANGED <<cola_dispositivo, cola_exit, hilo, memoria, haciaConsola>>
    /\ cpu' = Libre
    /\ UNCHANGED <<consola, haciaKernel, conexiones, pid_actual, cola_new, multiprogramacion,
                   tlb, historia>>

\* Mutation: the place of a process that ended is lost.
SoltarUnidadOmitido == UNCHANGED multiprogramacion

\* sem_post(&multiprogramacion).
SoltarUnidad == multiprogramacion' = multiprogramacion + 1

\* rajar_pcb.
Rajar ==
    /\ cola_exit # <<>>
    /\ cola_exit' = Tail(cola_exit)
    /\ pcbs' = Restrict(pcbs, DOMAIN pcbs \ {Head(cola_exit)})
    /\ SoltarUnidad
    /\ UNCHANGED <<deConsolas, conexiones, pid_actual, cola_new, cola_ready, cola_dispositivo,
                   hilo, cpu, memoria, tlb, historia>>

---------------------------------------------------------------------------
(* The kernel's threads that unblock a PCB *)

TrasDesbloquear(pid) == hilo' = [hilo EXCEPT ![pid] = "ninguno"]

\* manejar_page_fault.
MemoriasTrasPageFault(pid) ==
    AtenderPedidoDePaginaFault(memoria,
        Buffer(Paquete("PAGINA", empaquetar_pagina(pcbs[pid].pagina_fault))))
PuedeAtenderPageFault(pid) == hilo[pid] = "page fault" /\ MemoriasTrasPageFault(pid) # {}
AtenderPageFault(pid) ==
    /\ hilo[pid] = "page fault"
    /\ memoria' \in MemoriasTrasPageFault(pid)
    /\ PasarAReady(pcbs[pid]) /\ TrasDesbloquear(pid)
    /\ UNCHANGED <<deConsolas, conexiones, pid_actual, cola_new, cola_dispositivo, cola_exit,
                   multiprogramacion, cpu, tlb, historia>>

\* ejecucion_io, when the wait is over.
FinDispositivo ==
    /\ cola_dispositivo # <<>>
    /\ cola_dispositivo' = Tail(cola_dispositivo)
    /\ PasarAReady(pcbs[Head(cola_dispositivo)])
    /\ UNCHANGED <<deConsolas, conexiones, pid_actual, cola_new, cola_exit, hilo,
                   multiprogramacion, cpu, memoria, tlb, historia>>

\* solicitud, as far as the recv.
Pedir(pid) ==
    LET pcb == pcbs[pid]
        i == obtener_ultima_instruccion(pcb)
    IN
    /\ hilo[pid] = "pedir"
    /\ Enviar(pcb.socket_consola,
              IF i.parametro1 = "TECLADO" THEN Codigo("TECLADO")
              ELSE ValorConCodigo(obtener_valor_del_registro(pcb, i.parametro2), "PANTALLA"))
    /\ hilo' = [hilo EXCEPT ![pid] = "contestar"]
    /\ UNCHANGED <<consola, haciaKernel, conexiones, pid_actual, pcbs, colas, multiprogramacion,
                   cpu, memoria, tlb, historia>>

\* solicitud from the recv, and pasar_a_ready: an error is logged, and nothing else.
PuedeContestar(pid) ==
    /\ hilo[pid] = "contestar"
    /\ HayDatos(pcbs[pid].socket_consola) \/ RecvFalla(pcbs[pid].socket_consola)
Contestar(pid) ==
    LET pcb == pcbs[pid]
        fd == pcb.socket_consola
        i == obtener_ultima_instruccion(pcb)
    IN
    /\ PuedeContestar(pid)
    /\ \/ /\ HayDatos(fd)
          /\ IF i.parametro1 = "TECLADO" /\ Operacion(Flujo(fd)) = "OKI_TECLADO"
             THEN /\ Leido(fd, TrasPaquete(Flujo(fd)))
                  /\ PasarAReady(set_valor_registro(pcb, i.parametro2,
                                                    ValorString(Buffer(Flujo(fd)))))
             ELSE Leido(fd, TrasOperacion(Flujo(fd))) /\ PasarAReady(pcb)
          /\ UNCHANGED fds
       \/ RecvFalla(fd) /\ Cerrar(fd) /\ PasarAReady(pcb) /\ UNCHANGED haciaKernel
    /\ falta' = [falta EXCEPT ![pid] = FALSE]
    /\ TrasDesbloquear(pid)
    /\ UNCHANGED <<consola, haciaConsola, pendientes, aceptado, pid_actual, cola_new,
                   cola_dispositivo, cola_exit, multiprogramacion, cpu, memoria, tlb,
                   consolaDe, pantalla>>

---------------------------------------------------------------------------

DeConsola(c) == EnviarPrograma(c) \/ Atender(c) \/ ContestarPantalla(c)
Hilo(pid) == AtenderPageFault(pid) \/ Pedir(pid) \/ Contestar(pid)

Next ==
    \/ \E c \in Consolas : Conectar(c) \/ DeConsola(c) \/ Sigint(c)
    \/ AceptarConsola \/ RecibirProceso \/ CrearEstructuras \/ Despachar
    \/ EjecutarInstruccion \/ Devolver \/ Rajar \/ FinDispositivo
    \/ \E pid \in Pids : Hilo(pid)

\* Every thread goes on when it can, and users answer; nobody has to start a console.
\* This is weak fairness of each action with its guard written out: to find ENABLED, TLC
\* would serialize and read the messages again at each use of a value.
Fairness ==
    /\ \A c \in Consolas :
          \/ []<>~(consola[c] \in {"conectada", "imprimio"} \/ PuedeAtender(c))
          \/ []<><<DeConsola(c)>>_vars
    /\ []<>~PuedeAceptar \/ []<><<AceptarConsola>>_vars
    /\ []<>~PuedeRecibir \/ []<><<RecibirProceso>>_vars
    /\ []<>~PuedeAdmitir \/ []<><<CrearEstructuras>>_vars
    /\ []<>~(PuedeDespachar \/ cpu.estado = "devuelve") \/ []<><<Despachar \/ Devolver>>_vars
    /\ []<>~(cpu.estado = "ejecuta") \/ []<><<EjecutarInstruccion>>_vars
    /\ []<>~(cola_exit # <<>>) \/ []<><<Rajar>>_vars
    /\ []<>~(cola_dispositivo # <<>>) \/ []<><<FinDispositivo>>_vars
    /\ \A pid \in Pids :
          \/ []<>~(PuedeAtenderPageFault(pid) \/ hilo[pid] = "pedir" \/ PuedeContestar(pid))
          \/ []<><<Hilo(pid)>>_vars

Spec == Init /\ [][Next]_vars /\ Fairness
=============================================================================
