-------------------------- MODULE ServidorMemoria --------------------------
(***************************************************************************)
(* The handlers of memoria/src/memoria_utils.c as functions from a request, *)
(* in bytes, to the new memory and the answer, in bytes.  Module Memoria    *)
(* has the same server with its threads, walks, slots and sleeps; here it   *)
(* is what it stores: words.                                               *)
(*                                                                         *)
(* Accesses are aligned, so a page is a function of the offsets of its      *)
(* words.  The slot an entry has in the swap area is part of the entry      *)
(* (slots are nobody else's: Memoria!SwapCoherente), and any present page   *)
(* of the process may be the victim (Memoria says which).                   *)
(***************************************************************************)
EXTENDS Serializacion, FiniteSets

CONSTANTS
    TamPagina,             \* TAM_PAGINA
    EntradasPorTabla,      \* ENTRADAS_POR_TABLA
    CantMarcos,            \* TAM_MEMORIA / TAM_PAGINA
    MarcosPorProceso,      \* MARCOS_POR_PROCESO
    Residuo(_, _)          \* the word a new page finds at an offset of its slot

ASSUME ServidorAssumption ==
    /\ {TamPagina, EntradasPorTabla, CantMarcos, MarcosPorProceso} \subseteq Nat \ {0}
    /\ TamPagina % AnchoInt = 0

Offsets == {d \in 0..(TamPagina - 1) : d % AnchoInt = 0}

ASSUME ResiduoAssumption ==
    \A tabla \in Enteros, x \in 0..(EntradasPorTabla - 1), d \in Offsets :
        Residuo(<<tabla, x>>, d) \in Enteros

Marcos  == 0..(CantMarcos - 1)
PidLibre == -1
DirFisica(marco, d) == marco * TamPagina + d

\* entrada_tp_create.  Nobody clears a slot: a page starts with the words of whoever had it
\* (esquema.c, swap.c).  A page is a table, whose index is never given again, and an entry.
EntradaNueva(pagina) == [marco |-> -1, presencia |-> FALSE, modificado |-> FALSE,
                         swap |-> [d \in Offsets |-> Residuo(pagina, d)]]

\* No word of a frame is read before a page is loaded in it.
MemoriaVacia ==
    [tablas |-> <<>>, marcos |-> [m \in Marcos |-> PidLibre],
     espacio |-> [d \in {DirFisica(m, o) : m \in Marcos, o \in Offsets} |-> 0]]

\* obtener_entrada_tp, and the process of its table.
Entrada(mem, pagina) == mem.tablas[pagina[1] + 1].entradas[pagina[2]]
PidDe(mem, pagina) == mem.tablas[pagina[1] + 1].pid
ConEntrada(mem, pagina, entrada) ==
    [mem EXCEPT !.tablas[pagina[1] + 1].entradas[pagina[2]] = entrada]

PaginasDe(mem, pid) ==
    {x \in (0..(Len(mem.tablas) - 1)) \X (0..(EntradasPorTabla - 1)) : PidDe(mem, x) = pid}
Cargadas(mem, pid) == {x \in PaginasDe(mem, pid) : Entrada(mem, x).presencia}

\* The word at an offset of a page, wherever the page is.
Palabra(mem, pagina, d) ==
    LET e == Entrada(mem, pagina) IN
    IF e.presencia THEN mem.espacio[DirFisica(e.marco, d)] ELSE e.swap[d]

---------------------------------------------------------------------------
(* atender_kernel *)

\* atender_pedido_de_estructuras: a table per segment at the end of the list, and the
\* indices of all the tables of the process.
AtenderPedidoDeEstructuras(mem, buffer) ==
    LET pcb == recibir_pcb_memoria(buffer)
        nueva(i) == [pid |-> pcb.pid, entradas |-> [x \in 0..(EntradasPorTabla - 1) |->
                                          EntradaNueva(<<Len(mem.tablas) + i - 1, x>>)]]
        tablas == mem.tablas \o [i \in DOMAIN pcb.segmentos |-> nueva(i)]
        propias == FlattenSeq([i \in DOMAIN tablas |->
                                  IF tablas[i].pid = pcb.pid THEN <<i>> ELSE <<>>])
    IN [mem |-> [mem EXCEPT !.tablas = tablas],
        respuesta |-> Paquete("OKI_ESTRUCTURAS",
            empaquetar_strings([i \in DOMAIN propias |-> string_itoa(propias[i] - 1)]))]

\* Mutation: a modified page is dropped.
RajarSinEscribir(mem, pagina) ==
    LET e == Entrada(mem, pagina) IN
    ConEntrada([mem EXCEPT !.marcos[e.marco] = PidLibre], pagina,
               [e EXCEPT !.presencia = FALSE, !.modificado = FALSE])

\* rajar_pagina: a modified page is copied to its slot.
RajarPagina(mem, pagina) ==
    LET e == Entrada(mem, pagina)
        copia == [d \in Offsets |-> mem.espacio[DirFisica(e.marco, d)]]
    IN ConEntrada([mem EXCEPT !.marcos[e.marco] = PidLibre], pagina,
                  [e EXCEPT !.presencia = FALSE, !.modificado = FALSE,
                            !.swap = IF e.modificado THEN copia ELSE @])

\* cargar_pagina_en_memoria_principal.
CargarPagina(mem, pagina, marco) ==
    LET e == Entrada(mem, pagina) IN
    ConEntrada([mem EXCEPT !.marcos[marco] = PidDe(mem, pagina),
                           !.espacio = [dir \in DOMAIN @ |->
                               IF dir \div TamPagina = marco THEN e.swap[dir % TamPagina]
                               ELSE @[dir]]],
               pagina, [e EXCEPT !.presencia = TRUE, !.marco = marco])

\* atender_pedido_de_pagina_fault: the memories it may leave.  The answer is OKI_PAGINA.
AtenderPedidoDePaginaFault(mem, buffer) ==
    LET pagina == deserializar_pagina(buffer, 0)
        pid == PidDe(mem, pagina)
        libres == {m \in Marcos : mem.marcos[m] = PidLibre}
    IN IF Cardinality({m \in Marcos : mem.marcos[m] = pid}) = MarcosPorProceso
       THEN {CargarPagina(RajarPagina(mem, v), pagina, Entrada(mem, v).marco) :
                v \in Cargadas(mem, pid)}
       ELSE {CargarPagina(mem, pagina, m) : m \in {n \in libres : \A l \in libres : n <= l}}

\* Mutation: the frames are not given back.
LiberarSinMarcos(mem, buffer) == [mem |-> mem, respuesta |-> Codigo("OKI_LIBERAR_ESTRUCTURAS")]

\* atender_liberar_estructuras: the frames; the tables stay in the list.
AtenderLiberarEstructuras(mem, buffer) ==
    LET suyos == {Entrada(mem, x).marco : x \in Cargadas(mem, Valor(buffer))} IN
    [mem |-> [mem EXCEPT !.marcos = [m \in Marcos |-> IF m \in suyos THEN PidLibre ELSE @[m]]],
     respuesta |-> Codigo("OKI_LIBERAR_ESTRUCTURAS")]

---------------------------------------------------------------------------
(* atender_cpu *)

\* atender_pedido_de_marco.
AtenderPedidoDeMarco(mem, buffer) ==
    LET e == Entrada(mem, deserializar_pagina(buffer, 0)) IN
    IF e.presencia THEN ValorConCodigo(e.marco, "OKI_MARCO") ELSE Codigo("PAGE_NOT_FOUND_404")

\* atender_pedido_de_lectura: the page, and then the address on its own.
AtenderPedidoDeLectura(mem, flujo) ==
    ValorConCodigo(mem.espacio[LeerEntero(TrasPaquete(flujo), 0)], "OKI_LEER")

\* atender_pedido_de_escritura: the page, the address and the value.
AtenderPedidoDeEscritura(mem, flujo) ==
    LET pagina == deserializar_pagina(Buffer(flujo), 0)
        datos == TrasPaquete(flujo)
    IN [mem |-> ConEntrada([mem EXCEPT !.espacio[LeerEntero(datos, 0)] =
                                LeerEntero(datos, AnchoInt)],
                           pagina, [Entrada(mem, pagina) EXCEPT !.modificado = TRUE]),
        respuesta |-> Codigo("OKI_ESCRIBIR")]
=============================================================================
