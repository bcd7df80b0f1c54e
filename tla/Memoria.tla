------------------------------ MODULE Memoria ------------------------------
(***************************************************************************)
(* The memory server (memoria/src) and the CPU that reads and writes        *)
(* through it (cpu/src/cpu_utils.c, tlb.c).                                *)
(*                                                                         *)
(* The memory has two threads, one for each connection: atender_kernel     *)
(* creates and frees the structures of processes and serves page faults,   *)
(* sleeping at each copy from or to the swap area; atender_cpu meanwhile   *)
(* gives frame numbers and reads and writes frames for the process that    *)
(* is running.  What a process does between two accesses is left out: the  *)
(* kernel (module Planificacion) is here the order in which it asks for    *)
(* structures, page faults and releases.                                   *)
(*                                                                         *)
(* Data: a frame or a slot of the swap area holds <<p, x>>, the data page  *)
(* x of process p has now, or Otro, anything else: an older version of a   *)
(* page, or a mixture of two.                                              *)
(***************************************************************************)
EXTENDS Reemplazo, Tlb

CONSTANTS
    Procesos,
    Nadie,                 \* the pid -1 of a free frame
    Grado,                 \* GRADO_MAX_MULTIPROGRAMACION of the kernel
    CantMarcos,            \* TAM_MEMORIA / TAM_PAGINA
    CantSwap,              \* TAMANIO_SWAP / TAM_PAGINA
    MarcosPorProceso       \* MARCOS_POR_PROCESO

ASSUME MemoriaAssumption ==
    /\ IsFiniteSet(Procesos) /\ Nadie \notin Procesos
    /\ {Grado, CantMarcos, CantSwap, MarcosPorProceso} \subseteq Nat \ {0}

VARIABLES
    proceso,               \* where the kernel has each process
    acceso,                \* the access a page fault interrupted, to be tried again
    tabla,                 \* lista_de_tablas_de_paginas: the entries of each process
    cursores,
    lista_de_marcos,       \* pid of each frame
    lista_de_marcos_swap,  \* pid of each slot of the swap area
    espacio_memoria,       \* content of each frame
    swap,                  \* content of each slot
    atiende,               \* the page fault atender_kernel is serving
    falla,                 \* why the memory stopped
    cpu,                   \* the instruction being decoded or executed
    tlb                    \* tabla_tlb

varsMemoria == <<tabla, cursores, lista_de_marcos, lista_de_marcos_swap,
                 espacio_memoria, swap, atiende, falla>>
vars == <<proceso, acceso, varsMemoria, cpu, tlb>>

Marcos     == 0..(CantMarcos - 1)
Posiciones == 0..(CantSwap - 1)
Accesos    == {"LEER", "ESCRIBIR"} \X Paginas
SinAcceso  == <<"", Ninguna>>
Otro       == <<Nadie, Ninguna>>
Ocioso     == [paso |-> "ocioso", pid |-> Nadie, pagina |-> Ninguna,
               victima |-> Ninguna, marco |-> -1]
Detenida   == [paso |-> "ociosa", pid |-> Nadie, acceso |-> SinAcceso, marco |-> -1]

\* entrada_tp_create.
EntradaNueva(posicion) ==
    [marco |-> -1, presencia |-> FALSE, uso |-> FALSE, modificado |-> FALSE,
     posicion_swap |-> posicion]

Activos == {p \in Procesos : proceso[p] \in {"listo", "cpu", "fault", "terminado"}}

Init ==
    /\ proceso = [p \in Procesos |-> "nuevo"]
    /\ acceso = [p \in Procesos |-> SinAcceso]
    /\ tabla = [p \in Procesos |-> [x \in Paginas |-> EntradaNueva(-1)]]
    /\ cursores = [p \in Procesos |-> Inicio]
    /\ lista_de_marcos = [f \in Marcos |-> Nadie]
    /\ lista_de_marcos_swap = [s \in Posiciones |-> Nadie]
    /\ espacio_memoria = [f \in Marcos |-> Otro]
    /\ swap = [s \in Posiciones |-> Otro]
    /\ atiende = Ocioso /\ falla = "ninguna"
    /\ cpu = Detenida /\ tlb = TlbVacia

(***************************************************************************)
(* atender_kernel                                                          *)
(***************************************************************************)
\* A null pointer is dereferenced, or obtener_victima_a_reemplazar never returns: the
\* first ends the server, the second its thread for the kernel.
Fallar(porque) ==
    /\ falla' = porque
    /\ UNCHANGED <<proceso, acceso, tabla, cursores, lista_de_marcos,
                   lista_de_marcos_swap, espacio_memoria, swap, atiende, cpu, tlb>>

Libres(lista) == {i \in DOMAIN lista : lista[i] = Nadie}
PrimerLibre(lista, i) == i \in Libres(lista) /\ \A j \in Libres(lista) : i <= j

\* obtener_posicion_libre_swap, once per page: the pages in order get the first free slots.
Repartos ==
    {pos \in [Paginas -> Libres(lista_de_marcos_swap)] :
        /\ \A x, y \in Paginas : Antes(x, y) => pos[x] < pos[y]
        /\ \A s \in Libres(lista_de_marcos_swap), x \in Paginas :
              s < pos[x] => \E y \in Paginas : pos[y] = s}

\* atender_pedido_de_estructuras.  A slot holds by definition the first data of the
\* page it is given to.  At most Grado processes have structures (see MemoriaAcotada
\* in PlanificacionPropiedades).
AtenderPedidoDeEstructuras(p) ==
    /\ atiende = Ocioso /\ falla = "ninguna"
    /\ proceso[p] = "nuevo" /\ Cardinality(Activos) < Grado
    /\ \/ Repartos = {} /\ Fallar("sin_swap")
       \/ \E pos \in Repartos :
             /\ tabla' = [tabla EXCEPT ![p] = [x \in Paginas |-> EntradaNueva(pos[x])]]
             /\ cursores' = [cursores EXCEPT ![p] = Inicio]
             /\ lista_de_marcos_swap' = [s \in Posiciones |->
                    IF \E x \in Paginas : pos[x] = s THEN p ELSE lista_de_marcos_swap[s]]
             /\ swap' = [s \in Posiciones |->
                    IF \E x \in Paginas : pos[x] = s
                    THEN <<p, CHOOSE x \in Paginas : pos[x] = s>> ELSE swap[s]]
             /\ proceso' = [proceso EXCEPT ![p] = "listo"]
             /\ UNCHANGED <<acceso, lista_de_marcos, espacio_memoria, atiende, falla, cpu, tlb>>

\* Mutation: a process may have one frame more.
SinMarcosPropiosTarde(p) ==
    Cardinality({f \in Marcos : lista_de_marcos[f] = p}) = MarcosPorProceso + 1

SinMarcosPropios(p) == Cardinality({f \in Marcos : lista_de_marcos[f] = p}) = MarcosPorProceso

\* atender_pedido_de_pagina_fault up to its first copy: the victim, or a free frame.
AtenderPedidoDePaginaFault(p) ==
    /\ atiende = Ocioso /\ falla = "ninguna" /\ proceso[p] = "fault"
    /\ IF SinMarcosPropios(p)
       THEN LET b == Busqueda(tabla[p], cursores[p]) IN
            IF b.fin = Ninguna THEN Fallar("sin_victima")
            ELSE IF b.fin \notin Paginas THEN Fallar("fuera_de_tabla")
            ELSE /\ tabla' = [tabla EXCEPT ![p] = b.tabla]
                 /\ cursores' = [cursores EXCEPT ![p] = Siguiente(b.fin)]
                 /\ atiende' = [paso |-> "rajar", pid |-> p, pagina |-> acceso[p][2],
                                victima |-> b.fin, marco |-> -1]
                 /\ UNCHANGED <<proceso, acceso, lista_de_marcos, lista_de_marcos_swap,
                                espacio_memoria, swap, falla, cpu, tlb>>
       ELSE \/ Libres(lista_de_marcos) = {} /\ Fallar("sin_marco")
            \/ /\ \E f \in Marcos : /\ PrimerLibre(lista_de_marcos, f)
                                    /\ atiende' = [paso |-> "cargar", pid |-> p, marco |-> f,
                                                   pagina |-> acceso[p][2], victima |-> Ninguna]
               /\ UNCHANGED <<proceso, acceso, tabla, cursores, lista_de_marcos,
                              lista_de_marcos_swap, espacio_memoria, swap, falla, cpu, tlb>>

\* Mutation: the page is not written to the swap area.
EscribirPaginaEnSwapOmitido(e) == swap

\* escribir_pagina_en_swap, called only for a modified page.
EscribirPaginaEnSwap(e) ==
    IF e.modificado THEN [swap EXCEPT ![e.posicion_swap] = espacio_memoria[e.marco]] ELSE swap

\* rajar_pagina: the victim goes to the swap area and leaves its frame.
RajarPagina ==
    /\ atiende.paso = "rajar"
    /\ LET p == atiende.pid
           v == atiende.victima
           e == tabla[p][v]
       IN /\ swap' = EscribirPaginaEnSwap(e)
          /\ lista_de_marcos' = [lista_de_marcos EXCEPT ![e.marco] = Nadie]
          /\ tabla' = [tabla EXCEPT ![p][v].modificado = FALSE, ![p][v].presencia = FALSE]
          /\ atiende' = [atiende EXCEPT !.paso = "cargar", !.marco = e.marco]
    /\ UNCHANGED <<proceso, acceso, cursores, lista_de_marcos_swap, espacio_memoria, falla, cpu, tlb>>

\* cargar_pagina_en_memoria_principal up to the copy, and after it.
CargarPagina ==
    /\ atiende.paso = "cargar"
    /\ LET p == atiende.pid
           x == atiende.pagina
       IN /\ tabla' = [tabla EXCEPT ![p][x].marco = atiende.marco]
          /\ espacio_memoria' =
                [espacio_memoria EXCEPT ![atiende.marco] = swap[tabla[p][x].posicion_swap]]
    /\ atiende' = [atiende EXCEPT !.paso = "presentar"]
    /\ UNCHANGED <<proceso, acceso, cursores, lista_de_marcos, lista_de_marcos_swap, swap,
                   falla, cpu, tlb>>

\* Mutation: the frame is not given to the process.
PresentarSinPid ==
    /\ atiende.paso = "presentar"
    /\ LET p == atiende.pid
           x == atiende.pagina
       IN /\ tabla' = [tabla EXCEPT ![p][x].presencia = TRUE, ![p][x].uso = TRUE]
          /\ proceso' = [proceso EXCEPT ![p] = "listo"]
    /\ atiende' = Ocioso
    /\ UNCHANGED <<acceso, cursores, lista_de_marcos, lista_de_marcos_swap, espacio_memoria, swap,
                   falla, cpu, tlb>>

\* Mutation: the page is not set present.
PresentarSinPresencia ==
    /\ atiende.paso = "presentar"
    /\ LET p == atiende.pid
           x == atiende.pagina
       IN /\ tabla' = [tabla EXCEPT ![p][x].uso = TRUE]
          /\ lista_de_marcos' = [lista_de_marcos EXCEPT ![atiende.marco] = p]
          /\ proceso' = [proceso EXCEPT ![p] = "listo"]
    /\ atiende' = Ocioso
    /\ UNCHANGED <<acceso, cursores, lista_de_marcos_swap, espacio_memoria, swap,
                   falla, cpu, tlb>>

\* The answer OKI_PAGINA makes the kernel push the process to ready.
PresentarPagina ==
    /\ atiende.paso = "presentar"
    /\ LET p == atiende.pid
           x == atiende.pagina
       IN /\ tabla' = [tabla EXCEPT ![p][x].presencia = TRUE, ![p][x].uso = TRUE]
          /\ lista_de_marcos' = [lista_de_marcos EXCEPT ![atiende.marco] = p]
          /\ proceso' = [proceso EXCEPT ![p] = "listo"]
    /\ atiende' = Ocioso
    /\ UNCHANGED <<acceso, cursores, lista_de_marcos_swap, espacio_memoria, swap, falla, cpu, tlb>>

\* Mutation: the frames of a process that ends are kept.
MarcosLiberadosOmitido(p) == {}

\* liberar_marco_memoria of every entry of the process: presencia is not reset.
MarcosLiberados(p) == {tabla[p][x].marco : x \in {y \in Paginas : tabla[p][y].presencia}}

\* Mutation: the slots of pages that are in memory are kept.
PosicionesLiberadasAusentes(p) ==
    {tabla[p][x].posicion_swap : x \in {y \in Paginas : ~tabla[p][y].presencia}}

\* liberar_marco_swap of every entry of the process.
PosicionesLiberadas(p) == {tabla[p][x].posicion_swap : x \in Paginas}

\* atender_liberar_estructuras.
AtenderLiberarEstructuras(p) ==
    /\ atiende = Ocioso /\ falla = "ninguna" /\ proceso[p] = "terminado"
    /\ lista_de_marcos' =
          [f \in Marcos |-> IF f \in MarcosLiberados(p) THEN Nadie ELSE lista_de_marcos[f]]
    /\ lista_de_marcos_swap' =
          [s \in Posiciones |-> IF s \in PosicionesLiberadas(p) THEN Nadie
                                ELSE lista_de_marcos_swap[s]]
    /\ proceso' = [proceso EXCEPT ![p] = "fin"]
    /\ UNCHANGED <<acceso, tabla, cursores, espacio_memoria, swap, atiende, falla, cpu, tlb>>

AtenderKernel ==
    \/ \E p \in Procesos : \/ AtenderPedidoDeEstructuras(p)
                           \/ AtenderPedidoDePaginaFault(p)
                           \/ AtenderLiberarEstructuras(p)
    \/ RajarPagina
    \/ CargarPagina
    \/ PresentarPagina

(***************************************************************************)
(* CPU, and atender_cpu, which answers each of its requests                *)
(***************************************************************************)
Viva == falla \in {"ninguna", "sin_victima"}

\* atender_kernel_dispatch receives a process.
Despachar(p) ==
    /\ cpu = Detenida /\ proceso[p] = "listo"
    /\ cpu' = [Detenida EXCEPT !.paso = "decodificar", !.pid = p]
    /\ proceso' = [proceso EXCEPT ![p] = "cpu"]
    /\ UNCHANGED <<acceso, varsMemoria, tlb>>

\* decode of MOV_IN or MOV_OUT, up to the request of the frame; after a page fault the
\* same instruction again.
Decodificar(a) ==
    /\ cpu.paso = "decodificar"
    /\ acceso[cpu.pid] \in {SinAcceso, a}
    /\ \/ /\ Buscar(tlb, cpu.pid, a[2]) = {}
          /\ cpu' = [cpu EXCEPT !.paso = "pedir", !.acceso = a]
          /\ UNCHANGED tlb
       \/ \E c \in Buscar(tlb, cpu.pid, a[2]) :
             /\ cpu' = [cpu EXCEPT !.paso = "acceder", !.acceso = a, !.marco = tlb.marco[c]]
             /\ tlb' = Referir(tlb, c)
    /\ UNCHANGED <<proceso, acceso, varsMemoria>>

\* obtener_numero_de_marco: -1 stands for PAGE_NOT_FOUND_404.
NumeroDeMarco(e) == IF e.presencia THEN e.marco ELSE -1

AtenderPedidoDeMarco ==
    /\ Viva /\ cpu.paso = "pedir"
    /\ cpu' = [cpu EXCEPT !.paso = "recibir",
                          !.marco = NumeroDeMarco(tabla[cpu.pid][cpu.acceso[2]])]
    /\ UNCHANGED <<proceso, acceso, varsMemoria, tlb>>

\* The rest of decode: the TLB learns the frame, or the process goes back to the kernel
\* with a page fault, its program counter where it was.
RecibirMarco ==
    /\ cpu.paso = "recibir"
    /\ IF cpu.marco # -1
       THEN /\ tlb' = Actualizar(tlb, <<cpu.pid, cpu.acceso[2]>>, cpu.marco)
            /\ cpu' = [cpu EXCEPT !.paso = "acceder"]
            /\ UNCHANGED <<proceso, acceso>>
       ELSE /\ acceso' = [acceso EXCEPT ![cpu.pid] = cpu.acceso]
            /\ proceso' = [proceso EXCEPT ![cpu.pid] = "fault"]
            /\ cpu' = Detenida
            /\ UNCHANGED tlb
    /\ UNCHANGED varsMemoria

\* The CPU goes on with the next instruction.
Ejecutada ==
    /\ cpu' = [Detenida EXCEPT !.paso = "decodificar", !.pid = cpu.pid]
    /\ acceso' = [acceso EXCEPT ![cpu.pid] = SinAcceso]

AtenderPedidoDeLectura ==
    /\ Viva /\ cpu.paso = "acceder" /\ cpu.acceso[1] = "LEER"
    /\ tabla' = [tabla EXCEPT ![cpu.pid][cpu.acceso[2]].uso = TRUE]
    /\ Ejecutada
    /\ UNCHANGED <<proceso, cursores, lista_de_marcos, lista_de_marcos_swap, espacio_memoria,
                   swap, atiende, falla, tlb>>

\* atender_pedido_de_escritura: the bits of the page.
EscribirBits(e) == [e EXCEPT !.uso = TRUE, !.modificado = TRUE]

\* The write goes to the frame the CPU says.  If the page was there, that frame now has
\* its data, and the copies are old; if it was not, no place has its data any more.
AtenderPedidoDeEscritura ==
    /\ Viva /\ cpu.paso = "acceder" /\ cpu.acceso[1] = "ESCRIBIR"
    /\ LET x == cpu.acceso[2]
           dato == <<cpu.pid, x>>
           f == cpu.marco
       IN /\ tabla' = [tabla EXCEPT ![cpu.pid][x] = EscribirBits(@)]
          /\ espacio_memoria' = [g \in Marcos |->
                 IF (espacio_memoria[g] = dato) = (g = f) THEN espacio_memoria[g] ELSE Otro]
          /\ swap' = [s \in Posiciones |-> IF swap[s] = dato THEN Otro ELSE swap[s]]
    /\ Ejecutada
    /\ UNCHANGED <<proceso, cursores, lista_de_marcos, lista_de_marcos_swap, atiende, falla, tlb>>

\* An interrupt or an IO, after an instruction: the kernel makes it ready again later.
Desalojar ==
    /\ cpu.paso = "decodificar" /\ acceso[cpu.pid] = SinAcceso
    /\ proceso' = [proceso EXCEPT ![cpu.pid] = "listo"]
    /\ cpu' = Detenida
    /\ UNCHANGED <<acceso, varsMemoria, tlb>>

\* EXIT, or a segmentation fault in decode, which leaves the TLB as it is.
Terminar ==
    /\ cpu.paso = "decodificar" /\ acceso[cpu.pid] = SinAcceso
    /\ \/ tlb' = LimpiarProceso(tlb, cpu.pid)
       \/ UNCHANGED tlb
    /\ proceso' = [proceso EXCEPT ![cpu.pid] = "terminado"]
    /\ cpu' = Detenida
    /\ UNCHANGED <<acceso, varsMemoria>>

AtenderCpu == AtenderPedidoDeMarco \/ AtenderPedidoDeLectura \/ AtenderPedidoDeEscritura

CicloDeInstruccion ==
    \/ \E p \in Procesos : Despachar(p)
    \/ \E a \in Accesos : Decodificar(a)
    \/ RecibirMarco
    \/ Desalojar
    \/ Terminar

Next == AtenderKernel \/ AtenderCpu \/ CicloDeInstruccion

Spec == Init /\ [][Next]_vars

(***************************************************************************)
(* Properties                                                              *)
(***************************************************************************)
EntradaTipo ==
    [marco : Marcos \cup {-1}, presencia : BOOLEAN, uso : BOOLEAN, modificado : BOOLEAN,
     posicion_swap : Posiciones \cup {-1}]
AtiendeTipo ==
    [paso : {"ocioso", "rajar", "cargar", "presentar"}, pid : Procesos \cup {Nadie},
     pagina : Paginas \cup {Ninguna}, victima : Paginas \cup {Ninguna}, marco : Marcos \cup {-1}]
CpuTipo ==
    [paso : {"ociosa", "decodificar", "pedir", "recibir", "acceder"}, pid : Procesos \cup {Nadie},
     acceso : Accesos \cup {SinAcceso}, marco : Marcos \cup {-1}]
Contenidos == (Procesos \X Paginas) \cup {Otro}

\* The process whose page is being brought in waits for it and a victim is in memory.
AtiendeOK ==
    /\ atiende \in AtiendeTipo
    /\ atiende.paso # "ocioso" => /\ atiende.pid \in Procesos
                                  /\ proceso[atiende.pid] = "fault"
                                  /\ atiende.pagina = acceso[atiende.pid][2]
    /\ atiende.paso = "rajar" => /\ atiende.victima \in Paginas
                                 /\ tabla[atiende.pid][atiende.victima].presencia
    /\ atiende.paso \in {"cargar", "presentar"} => atiende.marco \in Marcos

\* The process the CPU runs is the one the kernel believes; an access has a frame.
CpuOK ==
    /\ cpu \in CpuTipo
    /\ \A p \in Procesos : proceso[p] = "cpu" <=> cpu.pid = p
    /\ cpu.paso # "ociosa" => cpu.pid \in Procesos
    /\ cpu.paso \in {"pedir", "recibir", "acceder"} => cpu.acceso \in Accesos
    /\ cpu.paso = "acceder" => cpu.marco \in Marcos

\* Every variable has its type, and the two threads are where the kernel left them.
TypeOK ==
    /\ proceso \in [Procesos -> {"nuevo", "listo", "cpu", "fault", "terminado", "fin"}]
    /\ acceso \in [Procesos -> Accesos \cup {SinAcceso}]
    /\ tabla \in [Procesos -> [Paginas -> EntradaTipo]]
    /\ cursores \in [Procesos -> Paginas]
    /\ lista_de_marcos \in [Marcos -> Procesos \cup {Nadie}]
    /\ lista_de_marcos_swap \in [Posiciones -> Procesos \cup {Nadie}]
    /\ espacio_memoria \in [Marcos -> Contenidos]
    /\ swap \in [Posiciones -> Contenidos]
    /\ falla \in {"ninguna", "sin_swap", "sin_marco", "sin_victima", "fuera_de_tabla"}
    /\ Claves(tlb) \subseteq Procesos \X Paginas
    /\ \A c \in Claves(tlb) : tlb.marco[c] \in Marcos
    /\ AtiendeOK
    /\ CpuOK

Presentes(p) == {x \in Paginas : tabla[p][x].presencia}

\* The page tables and the list of frames say the same: the frames marked with a process
\* are exactly those of its present pages, one page in each.  A frame is marked and an
\* entry set present at different moments of a page fault, while the CPU goes on.
MarcosCoherentes ==
    \A p \in Procesos :
        LET suyos == {f \in Marcos : lista_de_marcos[f] = p} IN
        IF p \in Activos
        THEN /\ {tabla[p][x].marco : x \in Presentes(p)} = suyos
             /\ Cardinality(suyos) = Cardinality(Presentes(p))
        ELSE suyos = {}

\* No process ever has more than MARCOS_POR_PROCESO frames: the code replaces only when
\* the count is equal to the limit, so a process past it would never replace again.
MarcosAcotados ==
    \A p \in Procesos : Cardinality({f \in Marcos : lista_de_marcos[f] = p}) <= MarcosPorProceso

\* Each page of a process has its own slot of the swap area, marked with the process until
\* its structures are freed, and no slot stays marked afterwards.
SwapCoherente ==
    \A p \in Procesos :
        LET suyas == {s \in Posiciones : lista_de_marcos_swap[s] = p} IN
        IF p \in Activos
        THEN /\ {tabla[p][x].posicion_swap : x \in Paginas} = suyas
             /\ Cardinality(suyas) = Cardinality(Paginas)
        ELSE suyas = {}

\* If the configuration has frames and slots for Grado processes, a page fault always finds
\* a free frame (obtener_marco_libre does not return NULL) and a new process always finds
\* its slots.
RecursosSuficientes ==
    /\ Grado * MarcosPorProceso <= CantMarcos => falla # "sin_marco"
    /\ Grado * Cardinality(Paginas) <= CantSwap => falla # "sin_swap"

\* The data a process wrote is never lost, whatever is replaced and when: a page in memory
\* has its data in its frame, and one that is not, or was not modified since it came, has
\* it in its slot of the swap area.
CopiaVigente ==
    \A p \in Activos, x \in Paginas :
        LET e == tabla[p][x] IN
        /\ e.presencia => espacio_memoria[e.marco] = <<p, x>>
        /\ ~e.presencia \/ ~e.modificado => swap[e.posicion_swap] = <<p, x>>

\* The page a fault brought in is still there when its process runs the instruction again,
\* however many faults of other processes are served before: an instruction faults once.
SinFaltaRepetida ==
    \A p \in Procesos :
        proceso[p] \in {"listo", "cpu"} /\ acceso[p] # SinAcceso => acceso[p][2] \in Presentes(p)

\* The address of a read or write is in the frame that has the page, which may have come
\* from the TLB, or from a request answered before the frame is used.
AccesoAlMarcoPropio ==
    cpu.paso = "acceder" =>
        LET e == tabla[cpu.pid][cpu.acceso[2]] IN e.presencia /\ e.marco = cpu.marco

\* The TLB is right about every process that is not in the middle of a page fault.  The
\* memory never tells the CPU of a replacement, so this asks of the TLB that the entry of
\* the page that left be gone when the instruction that faulted is over: one of a single
\* entry always gives it to the page that came, a larger one may keep the old one.
TlbCoherente ==
    \A c \in Claves(tlb) :
        LET p == c[1]
            x == c[2]
        IN p \in Activos /\ acceso[p] = SinAcceso =>
               tabla[p][x].presencia /\ tabla[p][x].marco = tlb.marco[c]

\* Obtener_victima_a_reemplazar goes round for ever only if every page its
\* process has in memory is the last of its table, which no round from the first entry
\* looks at; with any other page the second round, which clears the use bits, makes a
\* victim of one for the third or the fourth.
VictimaSalvoUltimas ==
    falla = "sin_victima" =>
        \E p \in Procesos : /\ proceso[p] = "fault"
                            /\ SinMarcosPropios(p)
                            /\ \A x \in Presentes(p) : x[2] = EntradasPorTabla - 1

(***************************************************************************)
(* What makes them inductive                                               *)
(***************************************************************************)
\* MarcosCoherentes, entry by entry, and what a page fault under way owes to it.
EntradasEnSuMarco ==
    \A p \in Activos, x \in Paginas : tabla[p][x].presencia =>
        /\ tabla[p][x].marco \in Marcos
        /\ lista_de_marcos[tabla[p][x].marco] = p
        /\ \A y \in Paginas : tabla[p][y].presencia /\ tabla[p][y].marco = tabla[p][x].marco
                             => y = x
MarcosConEntrada ==
    \A f \in Marcos : lista_de_marcos[f] # Nadie =>
        /\ lista_de_marcos[f] \in Activos
        /\ \E x \in Paginas : /\ tabla[lista_de_marcos[f]][x].presencia
                              /\ tabla[lista_de_marcos[f]][x].marco = f
FaltaEnCurso ==
    /\ atiende.paso \in {"cargar", "presentar"} => lista_de_marcos[atiende.marco] = Nadie
    /\ atiende.paso = "presentar" => tabla[atiende.pid][atiende.pagina].marco = atiende.marco

\* A process waits for a page it does not have; the answer of the memory is true until
\* the CPU uses it, since the tables of the process that runs are left alone.
FaltaAusente ==
    \A p \in Procesos : proceso[p] = "fault" =>
        acceso[p] \in Accesos /\ ~tabla[p][acceso[p][2]].presencia
NuevoSinAcceso == \A p \in Procesos : proceso[p] = "nuevo" => acceso[p] = SinAcceso
RespuestaVigente ==
    cpu.paso = "recibir" =>
        LET e == tabla[cpu.pid][cpu.acceso[2]] IN
        IF cpu.marco = -1 THEN ~e.presencia ELSE e.presencia /\ e.marco = cpu.marco

\* SwapCoherente, slot by slot.
PosicionesPropias ==
    \A p \in Activos, x \in Paginas :
        /\ tabla[p][x].posicion_swap \in Posiciones
        /\ lista_de_marcos_swap[tabla[p][x].posicion_swap] = p
        /\ \A y \in Paginas : tabla[p][y].posicion_swap = tabla[p][x].posicion_swap => y = x
PosicionesConEntrada ==
    \A s \in Posiciones : lista_de_marcos_swap[s] # Nadie =>
        /\ lista_de_marcos_swap[s] \in Activos
        /\ \E x \in Paginas : tabla[lista_de_marcos_swap[s]][x].posicion_swap = s

\* A page fault under way has room for its page.
Cuenta(p) == Cardinality({f \in Marcos : lista_de_marcos[f] = p})
HayLugar == atiende.paso \in {"cargar", "presentar"} => Cuenta(atiende.pid) < MarcosPorProceso

\* RecursosSuficientes: who holds frames and slots was admitted, and at most Grado are.
GradoDeActivos == Cardinality(Activos) <= Grado
IInvRecursos == GradoDeActivos /\ RecursosSuficientes

\* CopiaVigente, when the page is in its frame and not yet present.
CopiaEnCurso ==
    atiende.paso = "presentar" => espacio_memoria[atiende.marco] = <<atiende.pid, atiende.pagina>>

\* A TLB of one entry.  The page of a pending access is not in it until the access has its
\* frame, and then it is the only one: that is why no entry of its process is old.
TlbUnica ==
    /\ \A c, d \in Claves(tlb) : c = d
    /\ EntradasTlb = 0 => Claves(tlb) = {}
TlbDeProcesos == \A c \in Claves(tlb) : proceso[c[1]] # "nuevo"
TlbSinPendiente ==
    /\ \A p \in Procesos : acceso[p] # SinAcceso /\ ~(cpu.pid = p /\ cpu.paso = "acceder")
                             => <<p, acceso[p][2]>> \notin Claves(tlb)
    /\ cpu.paso \in {"pedir", "recibir"} => <<cpu.pid, cpu.acceso[2]>> \notin Claves(tlb)
    /\ cpu.paso \in {"pedir", "recibir", "acceder"} => acceso[cpu.pid] \in {SinAcceso, cpu.acceso}
TlbVigente ==
    \A c \in Claves(tlb) :
        LET p == c[1]
            e == tabla[p][c[2]]
        IN p \in Activos /\ (acceso[p] = SinAcceso \/ (cpu.pid = p /\ cpu.paso = "acceder"))
               => e.presencia /\ e.marco = tlb.marco[c]

\* A fault that found no victim is not being served.
FallaSinFalta == falla # "ninguna" => atiende = Ocioso

IInvTablas ==
    /\ TypeOK /\ EntradasEnSuMarco /\ MarcosConEntrada /\ FaltaEnCurso /\ FaltaAusente
    /\ NuevoSinAcceso /\ RespuestaVigente /\ PosicionesPropias /\ PosicionesConEntrada
    /\ SinFaltaRepetida
IInvDatos ==
    /\ TlbUnica /\ TlbDeProcesos /\ TlbSinPendiente /\ TlbVigente
    /\ AccesoAlMarcoPropio /\ CopiaVigente /\ CopiaEnCurso
=============================================================================
