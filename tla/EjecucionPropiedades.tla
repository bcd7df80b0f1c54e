------------------------ MODULE EjecucionPropiedades ------------------------
(* What the whole system promises, as invariants, as progress, and as the    *)
(* machine of its own that each console has (Maquina).                       *)
EXTENDS Ejecucion

Formas == {"sin iniciar", "conectada", "atiende", "imprimio", "fin", "muerta"}

\* The sets the variables stay in: a descriptor is of a console, every pid of a queue has
\* a PCB in the heap, and the CPU has the one that is in no queue.
TypeOK ==
    /\ consola \in [Consolas -> Formas]
    /\ fds \in [Descriptores -> Consolas \cup {Cerrado}]
    /\ aceptado \in Descriptores \cup {Ninguno}
    /\ pid_actual \in {0} \cup Pids /\ DOMAIN consolaDe = 1..pid_actual
    /\ multiprogramacion \in 0..Grado
    /\ \A cola \in {cola_new, cola_ready, cola_dispositivo, cola_exit} :
          \A i \in DOMAIN cola : cola[i] \in DOMAIN pcbs
    /\ DOMAIN pcbs \subseteq 1..pid_actual
    /\ cpu = Libre \/ cpu.pcb.pid \in (1..pid_actual) \ DOMAIN pcbs
    /\ hilo \in [Pids -> {"ninguno", "page fault", "pedir", "contestar"}]

---------------------------------------------------------------------------
(* Processes *)

EnCpuEsta(p) == cpu # Libre /\ cpu.pcb.pid = p
PcbDe(p) == IF EnCpuEsta(p) THEN cpu.pcb ELSE pcbs[p]
Vive(p) == EnCpuEsta(p) \/ p \in DOMAIN pcbs
Admitido(p) == Vive(p) /\ \A i \in DOMAIN cola_new : cola_new[i] # p

\* It has run to its end: to an EXIT, the last instruction there is, or to an access out
\* of its segments.
Acabado(p) ==
    \/ ~Vive(p)
    \/ PcbDe(p).segmentation_fault
    \/ PcbDe(p).program_counter = Len(PcbDe(p).instrucciones)

\* The process of a console: none before the kernel has received its program.
Procesos(c) == {p \in DOMAIN consolaDe : consolaDe[p] = c}

\* A socket never has more than one message, whole, and of the kind its reader is about
\* to take: FINALIZAR for a process that ended, TECLADO or PANTALLA and their answers for
\* the thread that waits for them (solicitud and atender_solicitud_kernel).
PedidoYRespuesta ==
    \A c \in Consolas :
        LET k == haciaKernel[c]
            m == haciaConsola[c]
            pide == {obtener_ultima_instruccion(pcbs[p]).parametro1 :
                        p \in {q \in Procesos(c) : hilo[q] = "contestar"}}
        IN
        /\ k = <<>> \/ m = <<>>
        /\ k # <<>> =>
              \/ Operacion(k) = "PROCESO" /\ TrasPaquete(k) = <<>> /\ Procesos(c) = {}
              \/ Operacion(k) = "OKI_TECLADO" /\ TrasPaquete(k) = <<>> /\ "TECLADO" \in pide
              \/ k = Codigo("OKI_PANTALLA") /\ "PANTALLA" \in pide
        /\ m # <<>> =>
              \/ m = Codigo("FINALIZAR") /\ \A p \in Procesos(c) : Acabado(p)
              \/ m = Codigo("TECLADO") /\ "TECLADO" \in pide
              \/ Operacion(m) = "PANTALLA" /\ TrasPaquete(m) = <<>> /\ "PANTALLA" \in pide

\* The descriptor a PCB carries through every conversion and queue is that of the console
\* that sent its program, or closed.
ConsolaPropia ==
    \A p \in 1..pid_actual :
        Vive(p) => fds[PcbDe(p).socket_consola] \in {consolaDe[p], Cerrado}

\* A PCB that is about to cross conexion_cpu_dispatch arrives as it left, but for
\* tamanio_segmentos, and reading it uses up exactly its bytes.
PorViajar ==
    {pcbs[cola_ready[i]] : i \in IF cpu = Libre THEN DOMAIN cola_ready \cap {1} ELSE {}}
    \cup (IF cpu.estado = "devuelve" THEN {cpu.pcb} ELSE {})
IdaYVuelta ==
    \A pcb \in PorViajar :
        LET bytes == empaquetar_pcb(pcb) IN
        deserializar_pcb(bytes) =
            [valor |-> [pcb EXCEPT !.tamanio_segmentos = Nulo,
                                   !.pagina_fault = IF @ = Nulo THEN <<-1, -1>> ELSE @],
             d |-> Len(bytes)]

\* A place of multiprogramacion is of a process from the moment it leaves NEW until it is
\* destroyed: none is lost and none is given twice (transicion_new_a_ready, rajar_pcb).
GradoExacto ==
    multiprogramacion + Cardinality({p \in 1..pid_actual : Admitido(p)}) = Grado

\* The frames are of a process that is admitted and not ended: when the last console ends
\* nothing is kept (solicitar_finalizacion).
SinFugas ==
    \A m \in Marcos : memoria.marcos[m] # PidLibre =>
        LET p == memoria.marcos[m] IN
        Admitido(p) /\ \A i \in DOMAIN cola_exit : cola_exit[i] # p

---------------------------------------------------------------------------
(* Progress *)



---------------------------------------------------------------------------
(* What programs and segments respect *)

\* t_registros.
NombresRegistros == {"AX", "BX", "CX", "DX"}

\* A program ends with EXIT, computes with registers and has aligned addresses.
ProgramaNormal(L) ==
    /\ L[Len(L)].operacion = "EXIT"
    /\ \A i \in DOMAIN L :
          /\ L[i].operacion = "ADD" =>
                L[i].parametro1 \in NombresRegistros /\ L[i].parametro2 \in NombresRegistros
          /\ L[i].operacion = "MOV_OUT" => L[i].parametro2 \in NombresRegistros
          /\ EsAcceso(L[i]) => obtener_dir_logica(L[i]) % AnchoInt = 0

\* And a segment is not larger than what its table can map.
ProgramasNormales ==
    \A c \in Consolas :
        /\ \A i \in DOMAIN Segmentos(c) : atoi(Segmentos(c)[i]) <= TamPagina * EntradasPorTabla
        /\ \A a \in Archivos(c) : SePuedeLeer(a) => ProgramaNormal(obtener_pseudocodigo(a))

---------------------------------------------------------------------------
(* The machine of each console *)

Traducir(i) ==
    CASE i.operacion = "SET" -> [op |-> "SET", r |-> i.parametro1, n |-> atoi(i.parametro2)]
      [] i.operacion = "ADD" -> [op |-> "ADD", r |-> i.parametro1, s |-> i.parametro2]
      [] i.operacion = "MOV_IN" ->
            [op |-> "MOV_IN", r |-> i.parametro1, dir |-> atoi(i.parametro2)]
      [] i.operacion = "MOV_OUT" ->
            [op |-> "MOV_OUT", r |-> i.parametro2, dir |-> atoi(i.parametro1)]
      [] EsDeConsola(i) -> [op |-> i.parametro1, r |-> i.parametro2]
      [] i.operacion = "IO" /\ ~EsDeConsola(i) -> [op |-> "ESPERA"]
      [] OTHER -> [op |-> "EXIT"]
Traduccion(instrucciones) == [i \in DOMAIN instrucciones |-> Traducir(instrucciones[i])]

ProgramasDe(c) ==
    {Traduccion(obtener_pseudocodigo(a)) : a \in {b \in Archivos(c) : SePuedeLeer(b)}}

\* The addresses of a console: those its segments have, each in its own part of the space.
DireccionesDe(c) ==
    UNION {{(i - 1) * TamPagina * EntradasPorTabla + d :
              d \in {x \in 0..(atoi(Segmentos(c)[i]) - 1) : x % AnchoInt = 0}} :
           i \in DOMAIN Segmentos(c)}

\* Its process is born when it is admitted: that is when it gets its memory.
ProcesoDe(c) ==
    LET nacidos == {p \in Procesos(c) : \A i \in DOMAIN cola_new : cola_new[i] # p} IN
    IF nacidos = {} THEN [estado |-> "nada"]
    ELSE LET p == CHOOSE q \in nacidos : TRUE IN
         IF Acabado(p) /\ ~falta[p] THEN [estado |-> "fin"]
         ELSE [estado |-> "corre", programa |-> Traduccion(PcbDe(p).instrucciones),
               pc |-> PcbDe(p).program_counter + (IF falta[p] THEN 0 ELSE 1),
               registros |-> PcbDe(p).registros]

\* The word at a logical address, wherever the page is.
PalabraDe(pcb, dir) ==
    LET tam_max == TamPagina * EntradasPorTabla
        s == pcb.tabla_de_segmentos[(dir \div tam_max) + 1]
    IN Palabra(memoria, <<s.indice_tabla_paginas, (dir % tam_max) \div TamPagina>>,
               dir % TamPagina)
MemoriaDe(c) ==
    [dir \in DireccionesDe(c) |->
        LET ps == {p \in Procesos(c) : Admitido(p) /\ ~Acabado(p)} IN
        IF ps = {} THEN 0 ELSE SinSigno(PalabraDe(PcbDe(CHOOSE p \in ps : TRUE), dir))]

TecleadoDe(c) ==
    IF haciaKernel[c] # <<>> /\ Operacion(haciaKernel[c]) = "OKI_TECLADO"
    THEN <<Valor(Buffer(haciaKernel[c]))>> ELSE <<>>

Maq == INSTANCE Maquina WITH
    Usuarios <- Consolas, Programas <- ProgramasDe, Direcciones <- DireccionesDe,
    Modulo <- Modulo, Teclas <- Teclas, Mortales <- Interrumpibles,
    proceso <- [c \in Consolas |-> ProcesoDe(c)],
    memoria <- [c \in Consolas |-> MemoriaDe(c)],
    tecleado <- [c \in Consolas |-> TecleadoDe(c)],
    pantalla <- pantalla,
    presente <- [c \in Consolas |-> consola[c] # "muerta"]

\* Each console sees a machine of its own, that runs its program once and in order:
\* preemption, page faults, replacement, the TLB, the other processes and the trip of the
\* PCB to the CPU and back change nothing of what it computes, prints and reads.
RefinaMaquina == Maq!Spec
=============================================================================
