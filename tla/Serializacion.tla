--------------------------- MODULE Serializacion ---------------------------
(***************************************************************************)
(* static/src/utils/comunicacion.c: how the modules turn what they send     *)
(* into bytes, and back.                                                   *)
(*                                                                         *)
(* A byte is known by the object it was copied from: the type and width of  *)
(* the object, which of its bytes it is, and the value.  memcpy gives the   *)
(* value back if it copies exactly the bytes of one object, and something   *)
(* nobody sent otherwise.  A socket is the sequence of bytes not read yet.  *)
(*                                                                         *)
(* A number is an int of Bits bits; a register is the same bits without     *)
(* sign.  A text has its own width, strlen + 1.                             *)
(***************************************************************************)
EXTENDS Integers, Sequences, SequencesExt, TLC

CONSTANT Bits

ASSUME BitsAssumption == Bits \in Nat \ {0}

Modulo == 2 ^ Bits

\* What the proofs know of a power of two.
ASSUME ModuloAssumption == Modulo \in Nat \ {0} /\ Modulo % 2 = 0

Enteros == (-(Modulo \div 2))..((Modulo \div 2) - 1)

\* Conversion to uint32_t, and to int.
SinSigno(n) == n % Modulo
ConSigno(n) == IF SinSigno(n) < Modulo \div 2 THEN SinSigno(n) ELSE SinSigno(n) - Modulo

\* A text is as long as strlen says, and a sequence is a function from 1 to its length.
EsTexto(t) == Len(t) \in Nat
EsLista(s) == Len(s) \in Nat /\ s = [i \in 1..Len(s) |-> s[i]]

\* A number is written as a text, its own.
ASSUME NumeralAssumption ==
    /\ EsTexto("")
    /\ \A n \in Enteros : /\ EsTexto(ToString(n))
                          /\ \A m \in Enteros : ToString(m) = ToString(n) => m = n

Numeral == [n \in Enteros |-> ToString(n)]
string_itoa(n) == Numeral[ConSigno(n)]
Numerado == [t \in {Numeral[n] : n \in Enteros} |-> CHOOSE n \in Enteros : Numeral[n] = t]
atoi(t) == IF t \in DOMAIN Numerado THEN Numerado[t] ELSE 0

---------------------------------------------------------------------------
(* Objects in memory *)

AnchoInt == 4
AnchoBool == 1
AnchoTexto(t) == Len(t) + 1
NoEnviado == -(Modulo \div 2)     \* stands for what a copy of other bytes yields

Bytes(tipo, v, n) == [i \in 1..n |-> [tipo |-> tipo, ancho |-> n, byte |-> i, valor |-> v]]

\* The n bytes after the first d are one object of that type.
EsObjeto(b, d, tipo, n) ==
    /\ n > 0 /\ d + n <= Len(b)
    /\ \A i \in 1..n : b[d + i].tipo = tipo /\ b[d + i].ancho = n /\ b[d + i].byte = i

Leer(b, d, tipo, n, si_no) == IF EsObjeto(b, d, tipo, n) THEN b[d + 1].valor ELSE si_no

Entero(v)  == Bytes("int", v, AnchoInt)
Codigo(v)  == Bytes("enum", v, AnchoInt)
Booleano(v) == Bytes("bool", v, AnchoBool)
Texto(t)   == Bytes("texto", t, AnchoTexto(t))

LeerEntero(b, d)   == Leer(b, d, "int", AnchoInt, NoEnviado)
LeerCodigo(b, d)   == Leer(b, d, "enum", AnchoInt, "?")
LeerBooleano(b, d) == Leer(b, d, "bool", AnchoBool, TRUE)

\* agregar_a_paquete_con_header of a text, and how its readers take it.
ConHeader(t) == Entero(AnchoTexto(t)) \o Texto(t)
LeerConHeader(b, d) ==
    LET n == LeerEntero(b, d) IN
    [valor |-> Leer(b, d + AnchoInt, "texto", n, ""), d |-> d + AnchoInt + n]

\* A list: how many, then each.  The reader follows *desplazamiento.
Empaquetar(Uno(_), lista) ==
    Entero(Len(lista)) \o FlattenSeq([i \in DOMAIN lista |-> Uno(lista[i])])
LeerLista(Uno(_, _), b, d) ==
    LET n == LeerEntero(b, d)
        Hasta[i \in 0..n] ==
            IF i = 0 THEN [valor |-> <<>>, d |-> d + AnchoInt]
            ELSE LET previo == Hasta[i - 1]
                     e == Uno(b, previo.d)
                 IN [valor |-> Append(previo.valor, e.valor), d |-> e.d]
    IN IF n \in Nat THEN Hasta[n] ELSE [valor |-> <<>>, d |-> d + AnchoInt]

---------------------------------------------------------------------------
(* Messages *)

\* serializar_paquete: code, size, stream.
Paquete(codigo, stream) == Codigo(codigo) \o Entero(Len(stream)) \o stream

\* recibir_operacion, and the buffer that follows a code (recibir_buffer).
Operacion(flujo) == LeerCodigo(flujo, 0)
TrasOperacion(flujo) == SubSeq(flujo, AnchoInt + 1, Len(flujo))
Buffer(flujo) == SubSeq(flujo, 2 * AnchoInt + 1, 2 * AnchoInt + LeerEntero(flujo, AnchoInt))
TrasPaquete(flujo) ==
    SubSeq(flujo, 2 * AnchoInt + 1 + LeerEntero(flujo, AnchoInt), Len(flujo))

\* enviar_valor_con_codigo; recibir_valor_string and recibir_valor.
ValorConCodigo(valor, codigo) == Paquete(codigo, Texto(string_itoa(valor)))
ValorString(buffer) == Leer(buffer, 0, "texto", Len(buffer), "")
Valor(buffer) == atoi(ValorString(buffer))

empaquetar_strings(strings) == Empaquetar(ConHeader, strings)
deserializar_strings(b, d) == LeerLista(LeerConHeader, b, d)

serializar_instruccion(i) ==
    Codigo(i.operacion) \o ConHeader(i.parametro1) \o ConHeader(i.parametro2)
deserializar_instruccion(b, d) ==
    LET p1 == LeerConHeader(b, d + AnchoInt)
        p2 == LeerConHeader(b, p1.d)
    IN [valor |-> [operacion |-> LeerCodigo(b, d), parametro1 |-> p1.valor,
                   parametro2 |-> p2.valor], d |-> p2.d]
empaquetar_instrucciones(lista) == Empaquetar(serializar_instruccion, lista)
deserializar_instrucciones(b, d) == LeerLista(deserializar_instruccion, b, d)

\* enviar_proceso and deserializar_proceso.
empaquetar_proceso(proceso) ==
    empaquetar_instrucciones(proceso.instrucciones) \o empaquetar_strings(proceso.segmentos)
deserializar_proceso(b) ==
    LET is == deserializar_instrucciones(b, 0) IN
    [instrucciones |-> is.valor, segmentos |-> deserializar_strings(b, is.d).valor]

\* A page is <<indice_tabla_de_pagina, numero_pagina>>; Nulo is the null pointer, sent
\* as a page of -1.
Nulo == <<>>
empaquetar_pagina(pagina) ==
    IF pagina = Nulo THEN Entero(-1) \o Entero(-1) ELSE Entero(pagina[1]) \o Entero(pagina[2])
deserializar_pagina(b, d) == <<LeerEntero(b, d), LeerEntero(b, d + AnchoInt)>>

\* enviar_configuracion_memoria and recibir_configuracion_memoria.
ConfiguracionMemoria(tamanio_pagina, entradas) ==
    Paquete("HANDSHAKE", Entero(tamanio_pagina) \o Entero(entradas))
recibir_configuracion_memoria(b) ==
    [tamanio_pagina |-> LeerEntero(b, 0), cantidad_entradas |-> LeerEntero(b, AnchoInt)]

\* enviar_pcb_memoria and recibir_pcb_memoria.
empaquetar_pcb_memoria(pcb) == Entero(pcb.pid) \o empaquetar_strings(pcb.segmentos)
recibir_pcb_memoria(b) ==
    [pid |-> LeerEntero(b, 0), segmentos |-> deserializar_strings(b, AnchoInt).valor]

---------------------------------------------------------------------------
(* The PCB *)

Registros == <<"AX", "BX", "CX", "DX">>

\* Mutation: the fields go in another order than they are read in.
EmpaquetarSegmentoCambiado(s) ==
    Entero(s.nro_segmento) \o Entero(s.indice_tabla_paginas) \o Entero(s.tamanio_segmento)

empaquetar_segmento(s) ==
    Entero(s.nro_segmento) \o Entero(s.tamanio_segmento) \o Entero(s.indice_tabla_paginas)
deserializar_segmento(b, d) ==
    [valor |-> [nro_segmento |-> LeerEntero(b, d),
                tamanio_segmento |-> LeerEntero(b, d + AnchoInt),
                indice_tabla_paginas |-> LeerEntero(b, d + 2 * AnchoInt)],
     d |-> d + 3 * AnchoInt]
empaquetar_tabla_segmentos(tabla) == Empaquetar(empaquetar_segmento, tabla)
deserializar_tabla_segmentos(b, d) == LeerLista(deserializar_segmento, b, d)

empaquetar_registros(r) == Entero(r.AX) \o Entero(r.BX) \o Entero(r.CX) \o Entero(r.DX)

campos_fijos_pcb(pcb) ==
    Entero(pcb.pid) \o Entero(pcb.program_counter) \o Codigo(pcb.estado)
    \o Entero(pcb.socket_consola) \o Booleano(pcb.interrupcion) \o Booleano(pcb.con_desalojo)
    \o Booleano(pcb.page_fault) \o Booleano(pcb.segmentation_fault)
    \o empaquetar_registros(pcb.registros) \o empaquetar_pagina(pcb.pagina_fault)
empaquetar_pcb(pcb) ==
    campos_fijos_pcb(pcb) \o empaquetar_instrucciones(pcb.instrucciones)
    \o empaquetar_tabla_segmentos(pcb.tabla_de_segmentos)

\* recibir_pcb, given the two lists that follow the fixed fields.  tamanio_segmentos is not
\* sent and becomes NULL, and direccion_fisica is not a field here (see decode).
LugarFlags     == 4 * AnchoInt
LugarRegistros == LugarFlags + 4 * AnchoBool
LugarPagina    == LugarRegistros + 4 * AnchoInt
deserializar_campos_fijos(b, instrucciones, tabla) ==
    [pid |-> LeerEntero(b, 0), program_counter |-> LeerEntero(b, AnchoInt),
     estado |-> LeerCodigo(b, 2 * AnchoInt), socket_consola |-> LeerEntero(b, 3 * AnchoInt),
     interrupcion |-> LeerBooleano(b, LugarFlags),
     con_desalojo |-> LeerBooleano(b, LugarFlags + AnchoBool),
     page_fault |-> LeerBooleano(b, LugarFlags + 2 * AnchoBool),
     segmentation_fault |-> LeerBooleano(b, LugarFlags + 3 * AnchoBool),
     registros |-> [AX |-> LeerEntero(b, LugarRegistros),
                    BX |-> LeerEntero(b, LugarRegistros + AnchoInt),
                    CX |-> LeerEntero(b, LugarRegistros + 2 * AnchoInt),
                    DX |-> LeerEntero(b, LugarRegistros + 3 * AnchoInt)],
     pagina_fault |-> deserializar_pagina(b, LugarPagina),
     instrucciones |-> instrucciones, tabla_de_segmentos |-> tabla,
     tamanio_segmentos |-> Nulo]
deserializar_pcb(b) ==
    LET is   == deserializar_instrucciones(b, LugarPagina + 2 * AnchoInt)
        segs == deserializar_tabla_segmentos(b, is.d)
    IN [valor |-> deserializar_campos_fijos(b, is.valor, segs.valor), d |-> segs.d]
recibir_pcb(b) == deserializar_pcb(b).valor
=============================================================================
