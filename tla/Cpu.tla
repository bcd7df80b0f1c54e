-------------------------------- MODULE Cpu --------------------------------
(***************************************************************************)
(* The instruction cycle of cpu/src/cpu_utils.c: fetch, decode and execute  *)
(* on a PCB, in conversation with the memory.                              *)
(***************************************************************************)
EXTENDS ServidorMemoria, Mmu, Tlb

EsAcceso(i) == i.operacion \in {"MOV_IN", "MOV_OUT"}

\* The handshake: pagina_config is what the memory sent.
pagina_config ==
    recibir_configuracion_memoria(Buffer(ConfiguracionMemoria(TamPagina, EntradasPorTabla)))

\* A register that is none of the four is not assigned.
set_valor_en_registro(pcb, registro, valor) ==
    IF registro \in DOMAIN pcb.registros
    THEN [pcb EXCEPT !.registros[registro] = SinSigno(valor)] ELSE pcb
set_valor_registro(pcb, registro, texto) == set_valor_en_registro(pcb, registro, atoi(texto))
obtener_valor_del_registro(pcb, registro) == pcb.registros[registro]

fetch(pcb) == pcb.instrucciones[pcb.program_counter + 1]
obtener_ultima_instruccion(pcb) == pcb.instrucciones[pcb.program_counter]

\* obtener_dir_logica, of an access.
obtener_dir_logica(i) == atoi(IF i.operacion = "MOV_IN" THEN i.parametro2 ELSE i.parametro1)

\* The addresses of a program that has n segments are in one of them, perhaps past its size.
\* Beyond the last one decode follows the NULL of list_get.
Direccionable(instrucciones, n) ==
    \A i \in DOMAIN instrucciones : EsAcceso(instrucciones[i]) =>
        obtener_dir_logica(instrucciones[i]) \in 0..(n * TamPagina * EntradasPorTabla - 1)

\* The frame of a page: from the TLB, or asked for; NoEsta when the page is not loaded.
NoEsta == -1
PedirMarco(mem, tlb, pid, x, pagina) ==
    IF Buscar(tlb, pid, x) # {}
    THEN [marco |-> tlb.marco[<<pid, x>>], tlb |-> Referir(tlb, <<pid, x>>)]
    ELSE LET r == AtenderPedidoDeMarco(mem, Buffer(Paquete("PAGINA", empaquetar_pagina(pagina))))
         IN IF Operacion(r) = "OKI_MARCO"
            THEN [marco |-> Valor(Buffer(r)),
                  tlb |-> Actualizar(tlb, <<pid, x>>, Valor(Buffer(r)))]
            ELSE [marco |-> NoEsta, tlb |-> tlb]

\* decode: the PCB, the TLB, whether it is ERROR_MEMORIA and, of an access, its page and
\* direccion_fisica: a field of the PCB that only execute reads, in the same instruction.
decode(pcb, i, mem, tlb) ==
    LET tam_pagina == pagina_config.tamanio_pagina
        tam_max  == TamMaxSegmento(pagina_config.cantidad_entradas, tam_pagina)
        dir      == obtener_dir_logica(i)
        segmento == pcb.tabla_de_segmentos[obtener_nro_segmento(dir, tam_max) + 1]
        pagina   == <<segmento.indice_tabla_paginas, obtener_nro_pagina(dir, tam_max, tam_pagina)>>
        pedido   == PedirMarco(mem, tlb, pcb.pid, <<segmento.nro_segmento, pagina[2]>>, pagina)
    IN IF ~EsAcceso(i)
       THEN [pcb |-> pcb, tlb |-> tlb, pagina |-> Nulo, error |-> FALSE]
       ELSE IF obtener_desplazamiento_segmento(dir, tam_max) >= segmento.tamanio_segmento
       THEN [pcb |-> [pcb EXCEPT !.segmentation_fault = TRUE], tlb |-> tlb,
             pagina |-> pagina, error |-> TRUE]
       ELSE IF pedido.marco = NoEsta
       THEN [pcb |-> [pcb EXCEPT !.page_fault = TRUE, !.pagina_fault = pagina], tlb |-> tlb,
             pagina |-> pagina, error |-> TRUE]
       ELSE [pcb |-> pcb, tlb |-> pedido.tlb, pagina |-> pagina, error |-> FALSE,
             direccion_fisica |->
                 DireccionFisica(pedido.marco, tam_pagina,
                                 obtener_desplazamiento_pagina(dir, tam_max, tam_pagina))]

\* ejecutar_add goes through a text to reuse ejecutar_set.
ejecutar_add(pcb, destino, origen) ==
    set_valor_registro(pcb, destino,
        string_itoa(SinSigno(obtener_valor_del_registro(pcb, destino)
                             + obtener_valor_del_registro(pcb, origen))))

\* decode sent the code and the page, ejecutar_mov_in sends the address.
ejecutar_mov_in(pcb, registro, mem, d) ==
    LET r == AtenderPedidoDeLectura(mem,
                 Paquete("LEER", empaquetar_pagina(d.pagina)) \o Entero(d.direccion_fisica))
    IN IF Operacion(r) = "OKI_LEER"
       THEN set_valor_en_registro(pcb, registro, Valor(Buffer(r))) ELSE pcb

ejecutar_mov_out(pcb, registro, mem, d) ==
    AtenderPedidoDeEscritura(mem,
        Paquete("ESCRIBIR", empaquetar_pagina(d.pagina)) \o Entero(d.direccion_fisica)
        \o Entero(ConSigno(obtener_valor_del_registro(pcb, registro)))).mem

\* ejecutar_instruccion, with what decode gave: the PCB, the memory and the TLB.  IO does
\* nothing here.
ejecutar_instruccion(pcb, i, mem, d) ==
    [pcb |-> CASE i.operacion = "SET"    -> set_valor_registro(pcb, i.parametro1, i.parametro2)
               [] i.operacion = "ADD"    -> ejecutar_add(pcb, i.parametro1, i.parametro2)
               [] i.operacion = "MOV_IN" -> ejecutar_mov_in(pcb, i.parametro1, mem, d)
               [] OTHER                  -> pcb,
     mem |-> IF i.operacion = "MOV_OUT"
             THEN ejecutar_mov_out(pcb, i.parametro2, mem, d) ELSE mem,
     tlb |-> IF i.operacion = "EXIT" THEN LimpiarProceso(d.tlb, pcb.pid) ELSE d.tlb]
=============================================================================
