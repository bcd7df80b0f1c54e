-------------------------------- MODULE Tlb --------------------------------
(***************************************************************************)
(* The TLB of cpu/src/tlb.c.  No page has two entries, so the list is the  *)
(* frame of each <<process, page>> it has and two orders of these: the one *)
(* they were added in, and that of their last references.  The source      *)
(* stamps each reference with a growing instant, and only compares them.   *)
(* An order is the set of its pairs <<earlier, later>>.                    *)
(***************************************************************************)
EXTENDS Naturals, FiniteSets

CONSTANTS
    EntradasTlb,     \* ENTRADAS_TLB
    ReemplazoTlb     \* REEMPLAZO_TLB

ASSUME TlbAssumption == EntradasTlb \in Nat /\ ReemplazoTlb \in {"FIFO", "LRU"}

TlbVacia == [marco |-> [c \in {} |-> 0], alta |-> {}, referencia |-> {}]
Claves(tlb) == DOMAIN tlb.marco

\* Mutation: the process of the entry is not compared.
BuscarSinPid(tlb, p, x) == {c \in Claves(tlb) : c[2] = x}

\* where_entrada_and_pid_is: the entries list_find looks for.
Buscar(tlb, p, x) == {c \in Claves(tlb) : c = <<p, x>>}

Sin(orden, cs) == {o \in orden : o[1] \notin cs /\ o[2] \notin cs}
AlFinal(orden, cs, c) == Sin(orden, {c}) \cup ((cs \ {c}) \X {c})

\* A hit: the entry gets the newest instant.
Referir(tlb, c) ==
    [marco |-> tlb.marco, alta |-> tlb.alta,
     referencia |-> AlFinal(tlb.referencia, Claves(tlb), c)]

\* rajar_entrada, and the removal in limpiar_proceso_de_la_tlb.
Sacar(tlb, cs) ==
    [marco |-> [c \in Claves(tlb) \ cs |-> tlb.marco[c]],
     alta |-> Sin(tlb.alta, cs), referencia |-> Sin(tlb.referencia, cs)]

LimpiarProceso(tlb, p) == Sacar(tlb, {c \in Claves(tlb) : c[1] = p})

\* obtener_victima_a_reemplazar: the first added, or the least recently referenced.
Victima(tlb) ==
    LET orden == IF ReemplazoTlb = "FIFO" THEN tlb.alta ELSE tlb.referencia IN
    CHOOSE c \in Claves(tlb) : \A d \in Claves(tlb) \ {c} : <<c, d>> \in orden

Agregar(tlb, c, marco) ==
    [marco |-> [d \in Claves(tlb) \cup {c} |-> IF d = c THEN marco ELSE tlb.marco[d]],
     alta |-> AlFinal(tlb.alta, Claves(tlb), c),
     referencia |-> AlFinal(tlb.referencia, Claves(tlb), c)]

\* Mutation: the list grows past ENTRADAS_TLB.
ActualizarSinReemplazo(tlb, c, marco) ==
    IF EntradasTlb = 0 THEN tlb ELSE Agregar(tlb, c, marco)

\* actualizar_tlb.
Actualizar(tlb, c, marco) ==
    IF EntradasTlb = 0 THEN tlb
    ELSE IF Cardinality(Claves(tlb)) = EntradasTlb
    THEN Agregar(Sacar(tlb, {Victima(tlb)}), c, marco)
    ELSE Agregar(tlb, c, marco)
=============================================================================
