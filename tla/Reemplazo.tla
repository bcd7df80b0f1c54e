----------------------------- MODULE Reemplazo -----------------------------
(***************************************************************************)
(* The replacement algorithms of memoria/src/esquema.c as they walk the    *)
(* page tables of one process: Segmentos tables of EntradasPorTabla        *)
(* entries, a cursor, and rounds that start at the cursor the first time   *)
(* and at the first entry from then on.                                    *)
(***************************************************************************)
EXTENDS Integers, FiniteSets

CONSTANTS
    Segmentos,            \* tables of a process
    EntradasPorTabla,     \* ENTRADAS_POR_TABLA
    AlgoritmoReemplazo    \* ALGORITMO_REEMPLAZO

ASSUME TablasAssumption ==
    Segmentos \in Nat \ {0} /\ EntradasPorTabla \in Nat \ {0}
ASSUME AlgoritmoReemplazoAssumption == AlgoritmoReemplazo \in {"CLOCK", "CLOCK-M"}

Paginas == (0..(Segmentos - 1)) \X (0..(EntradasPorTabla - 1))
Inicio  == <<0, 0>>
Ninguna == <<-1, -1>>

Antes(x, y) == x[1] < y[1] \/ (x[1] = y[1] /\ x[2] < y[2])
Primera(X) == CHOOSE x \in X : \A y \in X \ {x} : Antes(x, y)

\* The entries a round looks at: entradas_por_tabla - 1 of each table, counted from
\* the cursor in its table (where they may go past the end of the table, to an entry
\* that does not exist) and from the first entry in the tables after it.
Recorrido(cursor) ==
    {<<cursor[1], j>> : j \in cursor[2]..(cursor[2] + EntradasPorTabla - 2)}
    \cup (((cursor[1] + 1)..(Segmentos - 1)) \X (0..(EntradasPorTabla - 2)))

\* Mutation: pages that are not in memory are looked at too.
ElegibleSinPresencia(entrada, n) ==
    /\ ~entrada.uso
    /\ AlgoritmoReemplazo = "CLOCK-M" =>
          IF entrada.modificado THEN n \in {2, 4} ELSE n \in {1, 3}

\* Mutation: CLOCK-M takes no modified page in its fourth round.
ElegibleSinCuartaVuelta(entrada, n) ==
    /\ entrada.presencia /\ ~entrada.uso
    /\ AlgoritmoReemplazo = "CLOCK-M" =>
          IF entrada.modificado THEN n = 2 ELSE n \in {1, 3}

\* cumple_clock_m_condicion_victima, or the use bit alone, in round n.
Elegible(entrada, n) ==
    /\ entrada.presencia /\ ~entrada.uso
    /\ AlgoritmoReemplazo = "CLOCK-M" =>
          IF entrada.modificado THEN n \in {2, 4} ELSE n \in {1, 3}

\* One round: where it stops (at a victim, at an entry that does not exist, or
\* nowhere) and the tables it leaves.
Vuelta(tabla, cursor, n) ==
    LET lugares == {x \in Recorrido(cursor) : x \in Paginas => Elegible(tabla[x], n)}
        fin     == IF lugares = {} THEN Ninguna ELSE Primera(lugares)
        vistas  == {x \in Recorrido(cursor) \cap Paginas :
                       tabla[x].presencia /\ (fin = Ninguna \/ Antes(x, fin))}
        limpia  == AlgoritmoReemplazo = "CLOCK" \/ n = 2
    IN [fin   |-> fin,
        tabla |-> [x \in Paginas |-> IF limpia /\ x \in vistas
                                     THEN [tabla[x] EXCEPT !.uso = FALSE] ELSE tabla[x]]]

\* The next round, if the one before ended nowhere.
Otra(vuelta, n) == IF vuelta.fin = Ninguna THEN Vuelta(vuelta.tabla, Inicio, n) ELSE vuelta

\* obtener_victima_a_reemplazar.  After four rounds nothing changes any more: one
\* that ended nowhere goes on for ever.
Busqueda(tabla, cursor) == Otra(Otra(Otra(Vuelta(tabla, cursor, 1), 2), 3), 4)

\* actualizar_cursor: the entry after the victim, round the tables of the process.
Siguiente(x) ==
    IF x[2] < EntradasPorTabla - 1 THEN <<x[1], x[2] + 1>>
    ELSE IF x[1] < Segmentos - 1 THEN <<x[1] + 1, 0>>
    ELSE Inicio
=============================================================================
