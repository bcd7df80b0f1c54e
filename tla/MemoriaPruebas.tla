--------------------------- MODULE MemoriaPruebas ---------------------------
(***************************************************************************)
(* Proofs about Memoria, for any processes, tables, frames, slots and      *)
(* algorithms.  IInvTablas and IInvRecursos are inductive with any TLB;    *)
(* IInvDatos, which speaks of the data, with one of an entry or none: none *)
(* is the configuration the repository tests the memory with               *)
(* (cpu-prueba-memoria.config).                                            *)
(***************************************************************************)
EXTENDS Memoria, TLAPS, FiniteSetTheorems, WellFoundedInduction

-----------------------------------------------------------------------------
(* The replacement algorithms *)

\* A set of naturals with an element has a least one.
LEMMA Minimo ==
    ASSUME NEW S \in SUBSET Nat, S # {}
    PROVE  \E m \in S : \A n \in S : m <= n
<1> DEFINE T == {S \cap (0..m) : m \in S}
<1>1. T \subseteq FiniteSubsetsOf(Nat) /\ T # {}
  <2>1. \A m \in S : IsFiniteSet(0..m)
    BY FS_Interval
  <2>2. \A m \in S : IsFiniteSet(S \cap (0..m))
    BY <2>1, FS_Intersection
  <2> QED BY <2>2 DEF FiniteSubsetsOf
<1>2. PICK U \in T : \A V \in T : <<V, U>> \notin StrictSubsetOrdering(Nat)
  BY <1>1, FS_StrictSubsetOrderingWellFounded, WFMin
<1>3. PICK m \in S : U = S \cap (0..m)
  OBVIOUS
<1>4. ASSUME NEW n \in S, n < m PROVE FALSE
  <2> DEFINE V == S \cap (0..n)
  <2>1. V \in T
    OBVIOUS
  <2>2. V \subseteq U /\ V # U
    <3>1. m \in U /\ m \notin V
      BY <1>3, <1>4
    <3>2. V \subseteq U
      BY <1>3, <1>4
    <3> QED BY <3>1, <3>2
  <2>3. V \in SUBSET Nat /\ U \in SUBSET Nat
    BY <1>3
  <2>4. <<V, U>> \in StrictSubsetOrdering(Nat)
    BY <2>2, <2>3 DEF StrictSubsetOrdering
  <2> QED BY <2>1, <2>4, <1>2
<1>5. \A n \in S : m <= n
  BY <1>4
<1> QED BY <1>5

\* Primera is one of the places it is taken from.
LEMMA PrimeraEsta ==
    ASSUME NEW X \in SUBSET (Nat \X Nat), X # {}
    PROVE  Primera(X) \in X
<1>1. PICK a \in {x[1] : x \in X} : \A b \in {x[1] : x \in X} : a <= b
  <2>1. {x[1] : x \in X} \in SUBSET Nat /\ {x[1] : x \in X} # {}
    OBVIOUS
  <2> QED BY <2>1, Minimo
<1> DEFINE Y == {x[2] : x \in {y \in X : y[1] = a}}
<1>2. PICK b \in Y : \A c \in Y : b <= c
  <2>1. Y \in SUBSET Nat /\ Y # {}
    OBVIOUS
  <2>2. \E m \in Y : \A n \in Y : m <= n
    BY <2>1, Minimo
  <2> QED BY <2>2
<1>3. PICK x \in X : x[1] = a /\ x[2] = b
  OBVIOUS
<1>4. \A y \in X \ {x} : Antes(x, y)
  <2> TAKE y \in X \ {x}
  <2>1. a <= y[1] /\ a \in Nat /\ y[1] \in Nat /\ y[2] \in Nat /\ x[2] \in Nat
    BY <1>1, <1>3
  <2>2. CASE y[1] = a
    <3>1. b <= y[2]
      BY <1>2, <2>2
    <3>2. y[2] # b
      <4>1. y = <<y[1], y[2]>> /\ x = <<x[1], x[2]>>
        OBVIOUS
      <4> QED BY <4>1, <1>3, <2>2
    <3> QED BY <3>1, <3>2, <2>2, <1>3, <2>1 DEF Antes
  <2>3. CASE y[1] # a
    BY <2>3, <2>1, <1>3 DEF Antes
  <2> QED BY <2>2, <2>3
<1>5. Primera(X) = CHOOSE z \in X : \A y \in X \ {z} : Antes(z, y)
  BY DEF Primera
<1> QED BY <1>4, <1>5

\* u is t with other use bits, the only ones the algorithms change.
SoloUso(t, u) ==
    /\ u \in [Paginas -> EntradaTipo]
    /\ \A x \in Paginas : /\ u[x].marco = t[x].marco
                          /\ u[x].presencia = t[x].presencia
                          /\ u[x].modificado = t[x].modificado
                          /\ u[x].posicion_swap = t[x].posicion_swap

\* One round clears use bits and stops, if in the tables, at a page in memory.
LEMMA VueltaBien ==
    ASSUME NEW t \in [Paginas -> EntradaTipo], NEW c \in Paginas, NEW n
    PROVE  /\ SoloUso(t, Vuelta(t, c, n).tabla)
           /\ Vuelta(t, c, n).fin \in Paginas => t[Vuelta(t, c, n).fin].presencia
<1> DEFINE lugares == {x \in Recorrido(c) : x \in Paginas => Elegible(t[x], n)}
           fin     == IF lugares = {} THEN Ninguna ELSE Primera(lugares)
           vistas  == {x \in Recorrido(c) \cap Paginas :
                          t[x].presencia /\ (fin = Ninguna \/ Antes(x, fin))}
           limpia  == AlgoritmoReemplazo = "CLOCK" \/ n = 2
           u       == [x \in Paginas |-> IF limpia /\ x \in vistas
                                         THEN [t[x] EXCEPT !.uso = FALSE] ELSE t[x]]
<1>1. Vuelta(t, c, n) = [fin |-> fin, tabla |-> u]
  BY DEF Vuelta
<1>2. SoloUso(t, u)
  <2>1. \A x \in Paginas : t[x] \in EntradaTipo /\ [t[x] EXCEPT !.uso = FALSE] \in EntradaTipo
    BY DEF EntradaTipo
  <2>2. u \in [Paginas -> EntradaTipo]
    BY <2>1
  <2>3. \A x \in Paginas : u[x] = t[x] \/ u[x] = [t[x] EXCEPT !.uso = FALSE]
    OBVIOUS
  <2> HIDE DEF u
  <2> QED BY <2>1, <2>2, <2>3 DEF SoloUso, EntradaTipo
<1>3. ASSUME fin \in Paginas PROVE t[fin].presencia
  <2>1. Ninguna \notin Paginas
    BY TablasAssumption DEF Ninguna, Paginas
  <2>2. lugares # {} /\ fin = Primera(lugares)
    BY <1>3, <2>1
  <2>3. lugares \in SUBSET (Nat \X Nat)
    BY TablasAssumption DEF Recorrido, Paginas
  <2>4. fin \in lugares
    BY <2>2, <2>3, PrimeraEsta
  <2> HIDE DEF fin
  <2> QED BY <2>4, <1>3 DEF Elegible
<1> HIDE DEF fin, u
<1> QED BY <1>1, <1>2, <1>3

\* obtener_victima_a_reemplazar changes nothing but use bits, and its victim is in memory.
LEMMA BusquedaBien ==
    ASSUME NEW t \in [Paginas -> EntradaTipo], NEW c \in Paginas
    PROVE  /\ SoloUso(t, Busqueda(t, c).tabla)
           /\ Busqueda(t, c).fin \in Paginas => t[Busqueda(t, c).fin].presencia
<1> DEFINE Bien(v) == SoloUso(t, v.tabla) /\ (v.fin \in Paginas => t[v.fin].presencia)
<1>1. Inicio \in Paginas
  BY TablasAssumption DEF Inicio, Paginas
<1>2. ASSUME NEW v, Bien(v), NEW n PROVE Bien(Otra(v, n))
  <2>1. CASE v.fin = Ninguna
    <3>1. v.tabla \in [Paginas -> EntradaTipo]
      BY <1>2 DEF SoloUso
    <3>2. SoloUso(v.tabla, Vuelta(v.tabla, Inicio, n).tabla)
      BY <3>1, <1>1, VueltaBien
    <3>3. Vuelta(v.tabla, Inicio, n).fin \in Paginas
             => v.tabla[Vuelta(v.tabla, Inicio, n).fin].presencia
      BY <3>1, <1>1, VueltaBien
    <3>4. Otra(v, n) = Vuelta(v.tabla, Inicio, n)
      BY <2>1 DEF Otra
    <3> QED BY <3>2, <3>3, <3>4, <1>2 DEF SoloUso
  <2>2. CASE v.fin # Ninguna
    BY <2>2, <1>2 DEF Otra
  <2> QED BY <2>1, <2>2
<1>3. Bien(Vuelta(t, c, 1))
  BY VueltaBien
<1> HIDE DEF Bien
<1>4. Bien(Otra(Otra(Otra(Vuelta(t, c, 1), 2), 3), 4))
  BY <1>2, <1>3
<1> QED BY <1>4 DEF Bien, Busqueda

LEMMA SiguienteBien ==
    ASSUME NEW x \in Paginas
    PROVE  Siguiente(x) \in Paginas
BY TablasAssumption DEF Siguiente, Paginas, Inicio

-----------------------------------------------------------------------------
(* The tables: what every action keeps *)

\* Only use and modified bits change.
SoloBits ==
    \A p \in Procesos, x \in Paginas : /\ tabla'[p][x].marco = tabla[p][x].marco
                                       /\ tabla'[p][x].presencia = tabla[p][x].presencia
                                       /\ tabla'[p][x].posicion_swap = tabla[p][x].posicion_swap

LEMMA MismasPosiciones ==
    ASSUME PosicionesPropias, PosicionesConEntrada, Activos' = Activos,
           \A p \in Procesos, x \in Paginas : tabla'[p][x].posicion_swap = tabla[p][x].posicion_swap,
           UNCHANGED lista_de_marcos_swap
    PROVE  PosicionesPropias' /\ PosicionesConEntrada'
<1>1. Activos \subseteq Procesos
  BY DEF Activos
<1>2. PosicionesPropias'
  BY <1>1 DEF PosicionesPropias
<1>3. PosicionesConEntrada'
  BY <1>1 DEF PosicionesConEntrada
<1> QED BY <1>2, <1>3

\* What frames, slots and tables say of each other outlives any action that moves no page.
LEMMA MismasEntradas ==
    ASSUME IInvTablas, Activos' = Activos, SoloBits,
           UNCHANGED <<lista_de_marcos, lista_de_marcos_swap>>
    PROVE  /\ EntradasEnSuMarco' /\ MarcosConEntrada'
           /\ PosicionesPropias' /\ PosicionesConEntrada'
<1>1. Activos \subseteq Procesos
  BY DEF Activos
<1>2. EntradasEnSuMarco'
  BY <1>1 DEF IInvTablas, EntradasEnSuMarco, SoloBits
<1>3. MarcosConEntrada'
  BY <1>1 DEF IInvTablas, MarcosConEntrada, SoloBits
<1>4. PosicionesPropias' /\ PosicionesConEntrada'
  BY MismasPosiciones DEF IInvTablas, SoloBits
<1> QED BY <1>2, <1>3, <1>4

LEMMA InitTablas == Init => IInvTablas
<1> SUFFICES ASSUME Init PROVE IInvTablas
  OBVIOUS
<1>1. Activos = {}
  BY DEF Init, Activos
<1>2. Inicio \in Paginas /\ EntradaNueva(-1) \in EntradaTipo
  BY TablasAssumption DEF Inicio, Paginas, EntradaNueva, EntradaTipo
<1>3. TypeOK
  <2>1. AtiendeOK
    BY DEF Init, AtiendeOK, AtiendeTipo, Ocioso
  <2>2. CpuOK
    BY MemoriaAssumption DEF Init, CpuOK, CpuTipo, Detenida
  <2>3. Claves(tlb) = {}
    BY DEF Init, Claves, TlbVacia
  <2>4. tabla \in [Procesos -> [Paginas -> EntradaTipo]]
    BY <1>2 DEF Init
  <2> QED BY <1>2, <2>1, <2>2, <2>3, <2>4 DEF Init, TypeOK, Contenidos, Otro
<1>4. MarcosConEntrada /\ PosicionesConEntrada
  BY DEF Init, MarcosConEntrada, PosicionesConEntrada
<1>5. FaltaEnCurso /\ FaltaAusente /\ NuevoSinAcceso /\ RespuestaVigente /\ SinFaltaRepetida
  BY DEF Init, FaltaEnCurso, FaltaAusente, NuevoSinAcceso, RespuestaVigente, SinFaltaRepetida,
         Ocioso, Detenida
<1> QED BY <1>1, <1>3, <1>4, <1>5 DEF IInvTablas, EntradasEnSuMarco, PosicionesPropias

LEMMA DespacharTablas ==
    ASSUME IInvTablas, NEW p \in Procesos, Despachar(p)
    PROVE  IInvTablas'
<1> USE DEF IInvTablas, Despachar, varsMemoria
<1>1. Activos' = Activos
  BY DEF Activos, TypeOK
<1>2. EntradasEnSuMarco' /\ MarcosConEntrada' /\ PosicionesPropias' /\ PosicionesConEntrada'
  BY <1>1, MismasEntradas DEF SoloBits
<1>3. TypeOK'
  <2>1. AtiendeOK'
    BY DEF TypeOK, AtiendeOK
  <2>2. CpuOK'
    BY MemoriaAssumption DEF TypeOK, CpuOK, CpuTipo, Detenida
  <2> QED BY <2>1, <2>2 DEF TypeOK
<1>4. FaltaEnCurso' /\ FaltaAusente' /\ NuevoSinAcceso' /\ RespuestaVigente'
  BY DEF FaltaEnCurso, FaltaAusente, NuevoSinAcceso, RespuestaVigente, Detenida, TypeOK
<1>5. SinFaltaRepetida'
  BY DEF SinFaltaRepetida, Presentes, TypeOK
<1> QED BY <1>2, <1>3, <1>4, <1>5

\* What a TLB may hold for Memoria: TypeOK's part of it.
TlbOK(t) == Claves(t) \subseteq Procesos \X Paginas /\ \A c \in Claves(t) : t.marco[c] \in Marcos

LEMMA BuscarBien ==
    ASSUME TlbOK(tlb), NEW p, NEW x, NEW c \in Buscar(tlb, p, x)
    PROVE  c \in Claves(tlb) /\ tlb.marco[c] \in Marcos
BY DEF TlbOK, Buscar

LEMMA ReferirBien ==
    ASSUME NEW t, TlbOK(t), NEW c
    PROVE  TlbOK(Referir(t, c))
<1>1. Referir(t, c).marco = t.marco
  BY DEF Referir
<1> QED BY <1>1 DEF TlbOK, Claves

LEMMA SacarBien ==
    ASSUME NEW t, TlbOK(t), NEW cs
    PROVE  TlbOK(Sacar(t, cs))
<1>1. Sacar(t, cs).marco = [c \in Claves(t) \ cs |-> t.marco[c]]
  BY DEF Sacar
<1> QED BY <1>1 DEF TlbOK, Claves

LEMMA AgregarBien ==
    ASSUME NEW t, TlbOK(t), NEW c \in Procesos \X Paginas, NEW f \in Marcos
    PROVE  TlbOK(Agregar(t, c, f))
<1>1. Agregar(t, c, f).marco = [d \in Claves(t) \cup {c} |-> IF d = c THEN f ELSE t.marco[d]]
  BY DEF Agregar
<1> QED BY <1>1 DEF TlbOK, Claves

LEMMA ActualizarBien ==
    ASSUME NEW t, TlbOK(t), NEW c \in Procesos \X Paginas, NEW f \in Marcos
    PROVE  TlbOK(Actualizar(t, c, f))
<1>1. TlbOK(Agregar(t, c, f))
  BY AgregarBien
<1>2. TlbOK(Agregar(Sacar(t, {Victima(t)}), c, f))
  BY SacarBien, AgregarBien
<1> QED BY <1>1, <1>2 DEF Actualizar

LEMMA DecodificarTablas ==
    ASSUME IInvTablas, NEW a \in Accesos, Decodificar(a)
    PROVE  IInvTablas'
<1> USE DEF IInvTablas, varsMemoria
<1>1. Activos' = Activos
  BY DEF Activos, Decodificar
<1>2. EntradasEnSuMarco' /\ MarcosConEntrada' /\ PosicionesPropias' /\ PosicionesConEntrada'
  BY <1>1, MismasEntradas DEF SoloBits, Decodificar
<1>3. TypeOK'
  <2>1. AtiendeOK'
    BY DEF TypeOK, AtiendeOK, Decodificar
  <2>2. TlbOK(tlb) /\ cpu \in CpuTipo /\ cpu.pid \in Procesos
    BY DEF TypeOK, TlbOK, CpuOK, Decodificar
  <2>3. /\ cpu' \in CpuTipo /\ cpu'.pid = cpu.pid /\ cpu'.acceso = a
        /\ cpu'.paso \in {"pedir", "acceder"}
        /\ cpu'.paso = "acceder" => cpu'.marco \in Marcos
        /\ TlbOK(tlb')
    <3>1. CASE cpu' = [cpu EXCEPT !.paso = "pedir", !.acceso = a] /\ UNCHANGED tlb
      BY <3>1, <2>2 DEF CpuTipo
    <3>2. CASE \E c \in Buscar(tlb, cpu.pid, a[2]) :
                   /\ cpu' = [cpu EXCEPT !.paso = "acceder", !.acceso = a, !.marco = tlb.marco[c]]
                   /\ tlb' = Referir(tlb, c)
      <4>1. PICK c \in Buscar(tlb, cpu.pid, a[2]) :
                   /\ cpu' = [cpu EXCEPT !.paso = "acceder", !.acceso = a, !.marco = tlb.marco[c]]
                   /\ tlb' = Referir(tlb, c)
        BY <3>2
      <4>2. tlb.marco[c] \in Marcos
        BY <2>2, BuscarBien
      <4>3. TlbOK(Referir(tlb, c))
        BY <2>2, ReferirBien
      <4> QED BY <4>1, <4>2, <4>3, <2>2 DEF CpuTipo
    <3> QED BY <3>1, <3>2 DEF Decodificar
  <2>4. CpuOK'
    BY <2>2, <2>3 DEF TypeOK, CpuOK, Decodificar
  <2> QED BY <2>1, <2>3, <2>4 DEF TypeOK, TlbOK, Decodificar
<1>4. FaltaEnCurso' /\ FaltaAusente' /\ NuevoSinAcceso' /\ SinFaltaRepetida'
  BY DEF FaltaEnCurso, FaltaAusente, NuevoSinAcceso, SinFaltaRepetida, Presentes, Decodificar
<1>5. RespuestaVigente'
  <2>1. cpu'.paso # "recibir"
    <3>1. cpu \in CpuTipo
      BY DEF TypeOK, CpuOK
    <3>2. \/ cpu' = [cpu EXCEPT !.paso = "pedir", !.acceso = a]
          \/ \E m : cpu' = [cpu EXCEPT !.paso = "acceder", !.acceso = a, !.marco = m]
      BY DEF Decodificar
    <3> QED BY ONLY <3>1, <3>2 DEF CpuTipo
  <2> QED BY ONLY <2>1 DEF RespuestaVigente
<1> QED BY <1>2, <1>3, <1>4, <1>5

LEMMA AtenderPedidoDeMarcoTablas ==
    ASSUME IInvTablas, AtenderPedidoDeMarco
    PROVE  IInvTablas'
<1> USE DEF IInvTablas, AtenderPedidoDeMarco, varsMemoria
<1>1. Activos' = Activos
  BY DEF Activos
<1>2. EntradasEnSuMarco' /\ MarcosConEntrada' /\ PosicionesPropias' /\ PosicionesConEntrada'
  BY <1>1, MismasEntradas DEF SoloBits
<1>3. cpu.pid \in Procesos /\ cpu.acceso \in Accesos /\ cpu.acceso[2] \in Paginas
  BY DEF TypeOK, CpuOK, Accesos
<1>4. NumeroDeMarco(tabla[cpu.pid][cpu.acceso[2]]) \in Marcos \cup {-1}
  BY <1>3 DEF TypeOK, EntradaTipo, NumeroDeMarco
<1>5. TypeOK'
  <2>1. AtiendeOK'
    BY DEF TypeOK, AtiendeOK
  <2>2. CpuOK'
    BY <1>4 DEF TypeOK, CpuOK, CpuTipo
  <2> QED BY <2>1, <2>2 DEF TypeOK
<1>6. FaltaEnCurso' /\ FaltaAusente' /\ NuevoSinAcceso' /\ SinFaltaRepetida'
  BY DEF FaltaEnCurso, FaltaAusente, NuevoSinAcceso, SinFaltaRepetida, Presentes
<1>7. RespuestaVigente'
  <2>1. cpu.pid \in Activos
    BY <1>3 DEF TypeOK, CpuOK, Activos
  <2>2. tabla[cpu.pid][cpu.acceso[2]].presencia
           => tabla[cpu.pid][cpu.acceso[2]].marco \in Marcos
    BY <1>3, <2>1 DEF EntradasEnSuMarco
  <2>3. -1 \notin Marcos
    BY MemoriaAssumption DEF Marcos
  <2> QED BY <2>2, <2>3 DEF RespuestaVigente, NumeroDeMarco, TypeOK, CpuOK, CpuTipo
<1> QED BY <1>2, <1>5, <1>6, <1>7

\* The process of a page fault under way is not the one the CPU runs.
LEMMA FaltaAjena ==
    ASSUME TypeOK, cpu.paso # "ociosa"
    PROVE  /\ cpu.pid \in Procesos /\ proceso[cpu.pid] = "cpu" /\ cpu.pid \in Activos
           /\ atiende.paso # "ocioso" => atiende.pid # cpu.pid
BY DEF TypeOK, CpuOK, AtiendeOK, Activos

LEMMA RecibirMarcoTablas ==
    ASSUME IInvTablas, RecibirMarco
    PROVE  IInvTablas'
<1> USE DEF IInvTablas, varsMemoria
<1>1. /\ cpu.pid \in Procesos /\ proceso[cpu.pid] = "cpu"
      /\ atiende.paso # "ocioso" => atiende.pid # cpu.pid
      /\ cpu \in CpuTipo /\ cpu.paso = "recibir"
      /\ cpu.acceso \in Accesos /\ cpu.acceso[2] \in Paginas
      /\ UNCHANGED varsMemoria
  BY FaltaAjena DEF TypeOK, CpuOK, Accesos, RecibirMarco
<1>2. CASE cpu.marco # -1
  <2>1. /\ tlb' = Actualizar(tlb, <<cpu.pid, cpu.acceso[2]>>, cpu.marco)
        /\ cpu' = [cpu EXCEPT !.paso = "acceder"]
        /\ UNCHANGED <<proceso, acceso, varsMemoria>>
    BY <1>2 DEF RecibirMarco
  <2>2. Activos' = Activos
    BY <2>1 DEF Activos
  <2>3. EntradasEnSuMarco' /\ MarcosConEntrada' /\ PosicionesPropias' /\ PosicionesConEntrada'
    BY <2>1, <2>2, MismasEntradas DEF SoloBits
  <2>4. cpu.marco \in Marcos
    BY <1>1, <1>2 DEF CpuTipo
  <2>5. TypeOK'
    <3>1. AtiendeOK'
      BY <2>1 DEF TypeOK, AtiendeOK
    <3>2. CpuOK'
      BY <2>1, <2>4, <1>1 DEF TypeOK, CpuOK, CpuTipo
    <3>3. TlbOK(tlb')
      <4>1. TlbOK(tlb)
        BY DEF TypeOK, TlbOK
      <4>2. <<cpu.pid, cpu.acceso[2]>> \in Procesos \X Paginas
        BY <1>1
      <4> QED BY <4>1, <4>2, <2>1, <2>4, ActualizarBien
    <3> QED BY <3>1, <3>2, <3>3, <2>1 DEF TypeOK, TlbOK
  <2>6. FaltaEnCurso' /\ FaltaAusente' /\ NuevoSinAcceso' /\ SinFaltaRepetida'
    BY <2>1 DEF FaltaEnCurso, FaltaAusente, NuevoSinAcceso, SinFaltaRepetida, Presentes
  <2>7. RespuestaVigente'
    BY <2>1, <1>1 DEF RespuestaVigente, CpuTipo
  <2> QED BY <2>3, <2>5, <2>6, <2>7
<1>3. CASE cpu.marco = -1
  <2>1. /\ acceso' = [acceso EXCEPT ![cpu.pid] = cpu.acceso]
        /\ proceso' = [proceso EXCEPT ![cpu.pid] = "fault"]
        /\ cpu' = Detenida
        /\ UNCHANGED <<varsMemoria, tlb>>
    BY <1>3 DEF RecibirMarco
  <2>2. Activos' = Activos
    BY <2>1, <1>1 DEF Activos, TypeOK
  <2>3. EntradasEnSuMarco' /\ MarcosConEntrada' /\ PosicionesPropias' /\ PosicionesConEntrada'
    BY <2>1, <2>2, MismasEntradas DEF SoloBits
  <2>4. TypeOK'
    <3>1. AtiendeOK'
      BY <2>1, <1>1 DEF TypeOK, AtiendeOK
    <3>2. CpuOK'
      BY <2>1, <1>1, MemoriaAssumption DEF TypeOK, CpuOK, CpuTipo, Detenida
    <3> QED BY <3>1, <3>2, <2>1, <1>1 DEF TypeOK
  <2>5. FaltaAusente' /\ NuevoSinAcceso'
    BY <2>1, <1>1, <1>3 DEF FaltaAusente, NuevoSinAcceso, RespuestaVigente, TypeOK
  <2>6. FaltaEnCurso' /\ SinFaltaRepetida'
    BY <2>1, <1>1 DEF FaltaEnCurso, SinFaltaRepetida, Presentes, TypeOK
  <2>7. RespuestaVigente'
    BY <2>1 DEF RespuestaVigente, Detenida
  <2> QED BY <2>3, <2>4, <2>5, <2>6, <2>7
<1> QED BY <1>2, <1>3

\* An access ends: the process goes on with the next instruction and only bits change.
LEMMA EjecutadaTablas ==
    ASSUME IInvTablas, cpu.paso = "acceder", Ejecutada, SoloBits,
           tabla' \in [Procesos -> [Paginas -> EntradaTipo]],
           espacio_memoria' \in [Marcos -> Contenidos], swap' \in [Posiciones -> Contenidos],
           UNCHANGED <<proceso, cursores, lista_de_marcos, lista_de_marcos_swap, atiende,
                       falla, tlb>>
    PROVE  IInvTablas'
<1> USE DEF IInvTablas, Ejecutada
<1>1. /\ cpu.pid \in Procesos /\ proceso[cpu.pid] = "cpu"
      /\ atiende.paso # "ocioso" => atiende.pid # cpu.pid
  BY FaltaAjena
<1>2. Activos' = Activos
  BY DEF Activos
<1>3. EntradasEnSuMarco' /\ MarcosConEntrada' /\ PosicionesPropias' /\ PosicionesConEntrada'
  BY <1>2, MismasEntradas
<1>4. TypeOK'
  <2>1. AtiendeOK'
    BY <1>1 DEF TypeOK, AtiendeOK, SoloBits
  <2>2. CpuOK'
    <3>1. cpu' \in CpuTipo /\ cpu'.pid = cpu.pid /\ cpu'.paso = "decodificar"
      BY <1>1, MemoriaAssumption DEF CpuTipo, Detenida
    <3> QED BY <3>1, <1>1 DEF TypeOK, CpuOK
  <2>3. acceso' \in [Procesos -> Accesos \cup {SinAcceso}]
    BY DEF TypeOK
  <2> QED BY <2>1, <2>2, <2>3 DEF TypeOK, Claves
<1>5. FaltaEnCurso'
  <2>1. atiende.paso # "ocioso" => atiende.pid \in Procesos /\ atiende.pagina \in Paginas
    <3>1. atiende.paso # "ocioso" => acceso[atiende.pid] \in Accesos
      BY DEF TypeOK, AtiendeOK, FaltaAusente
    <3> QED BY <3>1 DEF TypeOK, AtiendeOK, Accesos
  <2> QED BY <2>1 DEF FaltaEnCurso, SoloBits
<1>6. FaltaAusente' /\ NuevoSinAcceso'
  <2>1. \A p \in Procesos : proceso[p] = "fault" => p # cpu.pid /\ acceso'[p] = acceso[p]
    BY <1>1 DEF TypeOK
  <2>2. FaltaAusente'
    BY <2>1 DEF FaltaAusente, SoloBits, Accesos
  <2>3. NuevoSinAcceso'
    BY DEF NuevoSinAcceso, TypeOK
  <2> QED BY <2>2, <2>3
<1>7. SinFaltaRepetida'
  <2>1. \A p \in Procesos : acceso'[p] # SinAcceso => acceso'[p] = acceso[p]
    BY <1>1 DEF TypeOK
  <2>2. \A p \in Procesos : Presentes(p)' = Presentes(p)
    BY DEF Presentes, SoloBits
  <2> QED BY <2>1, <2>2 DEF SinFaltaRepetida
<1>8. RespuestaVigente'
  BY DEF RespuestaVigente, Detenida
<1> QED BY <1>3, <1>4, <1>5, <1>6, <1>7, <1>8

\* One entry of one process changes.
LEMMA CambiarEntrada ==
    ASSUME NEW t \in [Procesos -> [Paginas -> EntradaTipo]], NEW p \in Procesos,
           NEW x \in Paginas, NEW e \in EntradaTipo
    PROVE  /\ [t EXCEPT ![p][x] = e] \in [Procesos -> [Paginas -> EntradaTipo]]
           /\ \A q \in Procesos, y \in Paginas :
                 [t EXCEPT ![p][x] = e][q][y] = IF q = p /\ y = x THEN e ELSE t[q][y]
OBVIOUS

\* The bits an access sets are bits.
LEMMA BitsBien ==
    ASSUME NEW e \in EntradaTipo
    PROVE  /\ [e EXCEPT !.uso = TRUE] \in EntradaTipo /\ EscribirBits(e) \in EntradaTipo
           /\ \A d \in {[e EXCEPT !.uso = TRUE], EscribirBits(e)} :
                 d.marco = e.marco /\ d.presencia = e.presencia /\ d.posicion_swap = e.posicion_swap
BY DEF EntradaTipo, EscribirBits

LEMMA AtenderPedidoDeLecturaTablas ==
    ASSUME IInvTablas, AtenderPedidoDeLectura
    PROVE  IInvTablas'
<1>1. cpu.pid \in Procesos /\ cpu.acceso[2] \in Paginas
  BY DEF IInvTablas, TypeOK, CpuOK, Accesos, AtenderPedidoDeLectura
<1>2. tabla \in [Procesos -> [Paginas -> EntradaTipo]]
  BY DEF IInvTablas, TypeOK
<1>3. tabla' = [tabla EXCEPT ![cpu.pid][cpu.acceso[2]].uso = TRUE]
  BY DEF AtenderPedidoDeLectura
<1>4. tabla' \in [Procesos -> [Paginas -> EntradaTipo]] /\ SoloBits
  <2> DEFINE e == [tabla[cpu.pid][cpu.acceso[2]] EXCEPT !.uso = TRUE]
  <2>1. /\ e \in EntradaTipo
        /\ e.marco = tabla[cpu.pid][cpu.acceso[2]].marco
        /\ e.presencia = tabla[cpu.pid][cpu.acceso[2]].presencia
        /\ e.posicion_swap = tabla[cpu.pid][cpu.acceso[2]].posicion_swap
    <3>1. tabla[cpu.pid][cpu.acceso[2]] \in EntradaTipo
      BY ONLY <1>1, <1>2
    <3> QED BY ONLY <3>1, BitsBien
  <2>2. tabla' = [tabla EXCEPT ![cpu.pid][cpu.acceso[2]] = e]
    BY <1>3
  <2> HIDE DEF e
  <2>3. /\ tabla' \in [Procesos -> [Paginas -> EntradaTipo]]
        /\ \A q \in Procesos, y \in Paginas :
              tabla'[q][y] = IF q = cpu.pid /\ y = cpu.acceso[2] THEN e ELSE tabla[q][y]
    BY ONLY <1>1, <1>2, <2>1, <2>2, CambiarEntrada
  <2> QED BY ONLY <2>1, <2>3 DEF SoloBits
<1>5. espacio_memoria' \in [Marcos -> Contenidos] /\ swap' \in [Posiciones -> Contenidos]
  BY DEF IInvTablas, TypeOK, AtenderPedidoDeLectura
<1> QED BY <1>4, <1>5, EjecutadaTablas DEF AtenderPedidoDeLectura

LEMMA AtenderPedidoDeEscrituraTablas ==
    ASSUME IInvTablas, AtenderPedidoDeEscritura
    PROVE  IInvTablas'
<1>1. cpu.pid \in Procesos /\ cpu.acceso[2] \in Paginas
  BY DEF IInvTablas, TypeOK, CpuOK, Accesos, AtenderPedidoDeEscritura
<1>2. tabla \in [Procesos -> [Paginas -> EntradaTipo]]
  BY DEF IInvTablas, TypeOK
<1>3. tabla' = [tabla EXCEPT ![cpu.pid][cpu.acceso[2]] = EscribirBits(@)]
  BY DEF AtenderPedidoDeEscritura
<1>4. tabla' \in [Procesos -> [Paginas -> EntradaTipo]] /\ SoloBits
  <2> DEFINE e == EscribirBits(tabla[cpu.pid][cpu.acceso[2]])
  <2>1. /\ e \in EntradaTipo
        /\ e.marco = tabla[cpu.pid][cpu.acceso[2]].marco
        /\ e.presencia = tabla[cpu.pid][cpu.acceso[2]].presencia
        /\ e.posicion_swap = tabla[cpu.pid][cpu.acceso[2]].posicion_swap
    <3>1. tabla[cpu.pid][cpu.acceso[2]] \in EntradaTipo
      BY ONLY <1>1, <1>2
    <3> QED BY ONLY <3>1, BitsBien
  <2>2. tabla' = [tabla EXCEPT ![cpu.pid][cpu.acceso[2]] = e]
    BY <1>3
  <2> HIDE DEF e
  <2>3. /\ tabla' \in [Procesos -> [Paginas -> EntradaTipo]]
        /\ \A q \in Procesos, y \in Paginas :
              tabla'[q][y] = IF q = cpu.pid /\ y = cpu.acceso[2] THEN e ELSE tabla[q][y]
    BY ONLY <1>1, <1>2, <2>1, <2>2, CambiarEntrada
  <2> QED BY ONLY <2>1, <2>3 DEF SoloBits
<1>5. espacio_memoria' \in [Marcos -> Contenidos] /\ swap' \in [Posiciones -> Contenidos]
  BY DEF IInvTablas, TypeOK, AtenderPedidoDeEscritura, Contenidos
<1> QED BY <1>4, <1>5, EjecutadaTablas DEF AtenderPedidoDeEscritura

LEMMA DesalojarTablas ==
    ASSUME IInvTablas, Desalojar
    PROVE  IInvTablas'
<1> USE DEF IInvTablas, Desalojar, varsMemoria
<1>1. /\ cpu.pid \in Procesos /\ proceso[cpu.pid] = "cpu"
      /\ atiende.paso # "ocioso" => atiende.pid # cpu.pid
  BY FaltaAjena
<1>2. Activos' = Activos
  BY <1>1 DEF Activos, TypeOK
<1>3. EntradasEnSuMarco' /\ MarcosConEntrada' /\ PosicionesPropias' /\ PosicionesConEntrada'
  BY <1>2, MismasEntradas DEF SoloBits
<1>4. TypeOK'
  <2>1. AtiendeOK'
    BY <1>1 DEF TypeOK, AtiendeOK
  <2>2. CpuOK'
    BY <1>1, MemoriaAssumption DEF TypeOK, CpuOK, CpuTipo, Detenida
  <2> QED BY <2>1, <2>2, <1>1 DEF TypeOK
<1>5. FaltaEnCurso' /\ FaltaAusente' /\ NuevoSinAcceso' /\ RespuestaVigente'
  BY <1>1 DEF FaltaEnCurso, FaltaAusente, NuevoSinAcceso, RespuestaVigente, Detenida, TypeOK
<1>6. SinFaltaRepetida'
  BY <1>1 DEF SinFaltaRepetida, Presentes, TypeOK
<1> QED BY <1>3, <1>4, <1>5, <1>6

LEMMA TerminarTablas ==
    ASSUME IInvTablas, Terminar
    PROVE  IInvTablas'
<1> USE DEF IInvTablas, Terminar, varsMemoria
<1>1. /\ cpu.pid \in Procesos /\ proceso[cpu.pid] = "cpu"
      /\ atiende.paso # "ocioso" => atiende.pid # cpu.pid
  BY FaltaAjena
<1>2. Activos' = Activos
  BY <1>1 DEF Activos, TypeOK
<1>3. EntradasEnSuMarco' /\ MarcosConEntrada' /\ PosicionesPropias' /\ PosicionesConEntrada'
  BY <1>2, MismasEntradas DEF SoloBits
<1>4. TypeOK'
  <2>1. AtiendeOK'
    BY <1>1 DEF TypeOK, AtiendeOK
  <2>2. CpuOK'
    BY <1>1, MemoriaAssumption DEF TypeOK, CpuOK, CpuTipo, Detenida
  <2>3. TlbOK(tlb')
    <3>1. TlbOK(tlb)
      BY DEF TypeOK, TlbOK
    <3>2. TlbOK(LimpiarProceso(tlb, cpu.pid))
      BY <3>1, SacarBien DEF LimpiarProceso
    <3>3. tlb' = LimpiarProceso(tlb, cpu.pid) \/ tlb' = tlb
      OBVIOUS
    <3> QED BY <3>1, <3>2, <3>3
  <2> QED BY <2>1, <2>2, <2>3, <1>1 DEF TypeOK, TlbOK
<1>5. FaltaEnCurso' /\ FaltaAusente' /\ NuevoSinAcceso' /\ RespuestaVigente'
  BY <1>1 DEF FaltaEnCurso, FaltaAusente, NuevoSinAcceso, RespuestaVigente, Detenida, TypeOK
<1>6. SinFaltaRepetida'
  BY <1>1 DEF SinFaltaRepetida, Presentes, TypeOK
<1> QED BY <1>3, <1>4, <1>5, <1>6

-----------------------------------------------------------------------------
(* The tables: the thread for the kernel *)

LEMMA FallarTablas ==
    ASSUME IInvTablas, NEW porque, Fallar(porque),
           porque \in {"sin_swap", "sin_marco", "sin_victima", "fuera_de_tabla"}
    PROVE  IInvTablas'
<1> USE DEF IInvTablas, Fallar
<1>1. Activos' = Activos
  BY DEF Activos
<1>2. EntradasEnSuMarco' /\ MarcosConEntrada' /\ PosicionesPropias' /\ PosicionesConEntrada'
  BY <1>1, MismasEntradas DEF SoloBits
<1>3. TypeOK'
  BY DEF TypeOK, AtiendeOK, CpuOK
<1>4. FaltaEnCurso' /\ FaltaAusente' /\ NuevoSinAcceso' /\ SinFaltaRepetida'
  BY DEF FaltaEnCurso, FaltaAusente, NuevoSinAcceso, SinFaltaRepetida, Presentes
<1>5. RespuestaVigente'
  BY DEF RespuestaVigente
<1> QED BY <1>2, <1>3, <1>4, <1>5

LEMMA AntesTotal ==
    ASSUME NEW x \in Paginas, NEW y \in Paginas, x # y
    PROVE  Antes(x, y) \/ Antes(y, x)
<1>1. x = <<x[1], x[2]>> /\ y = <<y[1], y[2]>>
  BY DEF Paginas
<1>2. x[1] \in Nat /\ x[2] \in Nat /\ y[1] \in Nat /\ y[2] \in Nat
  BY TablasAssumption DEF Paginas
<1>3. x[1] # y[1] \/ x[2] # y[2]
  BY <1>1
<1> QED BY <1>2, <1>3 DEF Antes

\* Every page gets a free slot of its own.
LEMMA RepartoBien ==
    ASSUME TypeOK, NEW pos \in Repartos
    PROVE  /\ \A x \in Paginas : pos[x] \in Posiciones /\ lista_de_marcos_swap[pos[x]] = Nadie
           /\ \A x, y \in Paginas : pos[x] = pos[y] => x = y
<1>1. \A x \in Paginas : pos[x] \in Posiciones /\ lista_de_marcos_swap[pos[x]] = Nadie
  BY DEF Repartos, Libres, TypeOK
<1>2. ASSUME NEW x \in Paginas, NEW y \in Paginas, pos[x] = pos[y], x # y PROVE FALSE
  <2>1. pos[x] < pos[y] \/ pos[y] < pos[x]
    BY <1>2, AntesTotal DEF Repartos
  <2>2. pos[x] \in Nat /\ pos[y] \in Nat
    BY <1>1, MemoriaAssumption DEF Posiciones
  <2> QED BY <2>1, <2>2, <1>2
<1> QED BY <1>1, <1>2

LEMMA AtenderPedidoDeEstructurasTablas ==
    ASSUME IInvTablas, NEW p \in Procesos, AtenderPedidoDeEstructuras(p)
    PROVE  IInvTablas'
<1> USE DEF IInvTablas
<1>1. CASE Repartos = {} /\ Fallar("sin_swap")
  BY <1>1, FallarTablas
<1>2. CASE \E pos \in Repartos :
             /\ tabla' = [tabla EXCEPT ![p] = [x \in Paginas |-> EntradaNueva(pos[x])]]
             /\ cursores' = [cursores EXCEPT ![p] = Inicio]
             /\ lista_de_marcos_swap' = [s \in Posiciones |->
                    IF \E x \in Paginas : pos[x] = s THEN p ELSE lista_de_marcos_swap[s]]
             /\ swap' = [s \in Posiciones |->
                    IF \E x \in Paginas : pos[x] = s
                    THEN <<p, CHOOSE x \in Paginas : pos[x] = s>> ELSE swap[s]]
             /\ proceso' = [proceso EXCEPT ![p] = "listo"]
             /\ UNCHANGED <<acceso, lista_de_marcos, espacio_memoria, atiende, falla, cpu, tlb>>
  <2>1. PICK pos \in Repartos :
             /\ tabla' = [tabla EXCEPT ![p] = [x \in Paginas |-> EntradaNueva(pos[x])]]
             /\ cursores' = [cursores EXCEPT ![p] = Inicio]
             /\ lista_de_marcos_swap' = [s \in Posiciones |->
                    IF \E x \in Paginas : pos[x] = s THEN p ELSE lista_de_marcos_swap[s]]
             /\ swap' = [s \in Posiciones |->
                    IF \E x \in Paginas : pos[x] = s
                    THEN <<p, CHOOSE x \in Paginas : pos[x] = s>> ELSE swap[s]]
             /\ proceso' = [proceso EXCEPT ![p] = "listo"]
             /\ UNCHANGED <<acceso, lista_de_marcos, espacio_memoria, atiende, falla, cpu, tlb>>
    BY <1>2
  <2>2. proceso[p] = "nuevo" /\ atiende = Ocioso /\ p \notin Activos /\ p # Nadie
    BY MemoriaAssumption DEF AtenderPedidoDeEstructuras, Activos
  <2>3. Activos' = Activos \cup {p} /\ Activos \subseteq Procesos
    BY <2>1, <2>2 DEF Activos, TypeOK
  <2>4. /\ \A x \in Paginas : pos[x] \in Posiciones /\ lista_de_marcos_swap[pos[x]] = Nadie
        /\ \A x, y \in Paginas : pos[x] = pos[y] => x = y
    BY RepartoBien
  <2>5. /\ tabla' \in [Procesos -> [Paginas -> EntradaTipo]]
        /\ \A x \in Paginas : /\ ~tabla'[p][x].presencia
                              /\ tabla'[p][x].posicion_swap = pos[x]
        /\ \A q \in Procesos : q # p => tabla'[q] = tabla[q]
    <3>1. \A x \in Paginas : /\ EntradaNueva(pos[x]) \in EntradaTipo
                             /\ ~EntradaNueva(pos[x]).presencia
                             /\ EntradaNueva(pos[x]).posicion_swap = pos[x]
      BY <2>4 DEF EntradaNueva, EntradaTipo
    <3>2. tabla \in [Procesos -> [Paginas -> EntradaTipo]]
      BY DEF TypeOK
    <3> QED BY <2>1, <3>1, <3>2
  <2>6. TypeOK'
    <3>1. AtiendeOK'
      BY <2>1, <2>2 DEF TypeOK, AtiendeOK, Ocioso
    <3>2. CpuOK'
      BY <2>1, <2>2 DEF TypeOK, CpuOK
    <3>3. swap' \in [Posiciones -> Contenidos]
      <4>1. \A s \in Posiciones : (\E x \in Paginas : pos[x] = s)
               => (CHOOSE x \in Paginas : pos[x] = s) \in Paginas
        OBVIOUS
      <4> QED BY <4>1, <2>1 DEF TypeOK, Contenidos
    <3>4. Inicio \in Paginas
      BY TablasAssumption DEF Inicio, Paginas
    <3>5. cursores' \in [Procesos -> Paginas]
      BY <2>1, <3>4 DEF TypeOK
    <3>6. lista_de_marcos_swap' \in [Posiciones -> Procesos \cup {Nadie}]
      BY <2>1 DEF TypeOK
    <3>7. proceso' \in [Procesos -> {"nuevo", "listo", "cpu", "fault", "terminado", "fin"}]
      BY <2>1 DEF TypeOK
    <3> QED BY <2>1, <2>5, <3>1, <3>2, <3>3, <3>5, <3>6, <3>7 DEF TypeOK
  <2>7. EntradasEnSuMarco'
    BY <2>1, <2>3, <2>5 DEF EntradasEnSuMarco
  <2>8. MarcosConEntrada'
    BY <2>1, <2>2, <2>3, <2>5 DEF MarcosConEntrada
  <2>9. PosicionesPropias'
    <3>1. \A s \in Posiciones : lista_de_marcos_swap[s] # Nadie
             => lista_de_marcos_swap'[s] = lista_de_marcos_swap[s]
      BY <2>1, <2>4
    <3>2. \A x \in Paginas : lista_de_marcos_swap'[pos[x]] = p
      BY <2>1, <2>4
    <3>3. \A q \in Activos : q # p /\ q # Nadie /\ q \in Procesos
      BY <2>2, <2>3, MemoriaAssumption
    <3> QED BY <2>3, <2>4, <2>5, <3>1, <3>2, <3>3 DEF PosicionesPropias
  <2>10. PosicionesConEntrada'
    <3>1. ASSUME NEW s \in Posiciones, lista_de_marcos_swap'[s] # Nadie
          PROVE  /\ lista_de_marcos_swap'[s] \in Activos'
                 /\ \E x \in Paginas : tabla'[lista_de_marcos_swap'[s]][x].posicion_swap = s
      <4>1. CASE \E x \in Paginas : pos[x] = s
        BY <4>1, <2>1, <2>3, <2>5
      <4>2. CASE ~\E x \in Paginas : pos[x] = s
        <5>1. lista_de_marcos_swap'[s] = lista_de_marcos_swap[s]
          BY <4>2, <2>1
        <5> QED BY <5>1, <3>1, <2>2, <2>3, <2>5 DEF PosicionesConEntrada
      <4> QED BY <4>1, <4>2
    <3> QED BY <3>1 DEF PosicionesConEntrada
  <2>11. FaltaEnCurso' /\ FaltaAusente' /\ NuevoSinAcceso'
    BY <2>1, <2>2, <2>5
       DEF FaltaEnCurso, FaltaAusente, NuevoSinAcceso, TypeOK, Ocioso
  <2>12. SinFaltaRepetida'
    BY <2>1, <2>2, <2>5 DEF SinFaltaRepetida, Presentes, NuevoSinAcceso, TypeOK
  <2>13. RespuestaVigente'
    <3>1. cpu.paso = "recibir" => cpu.pid \in Procesos /\ cpu.pid # p
      BY <2>2, FaltaAjena
    <3> QED BY <3>1, <2>1, <2>5 DEF RespuestaVigente
  <2> QED BY <2>6, <2>7, <2>8, <2>9, <2>10, <2>11, <2>12, <2>13
<1> QED BY <1>1, <1>2 DEF AtenderPedidoDeEstructuras

LEMMA AtenderPedidoDePaginaFaultTablas ==
    ASSUME IInvTablas, NEW p \in Procesos, AtenderPedidoDePaginaFault(p)
    PROVE  IInvTablas'
<1> USE DEF IInvTablas
<1> DEFINE b == Busqueda(tabla[p], cursores[p])
<1>1. /\ proceso[p] = "fault" /\ p \in Activos
      /\ acceso[p] \in Accesos /\ acceso[p][2] \in Paginas
      /\ tabla \in [Procesos -> [Paginas -> EntradaTipo]]
      /\ tabla[p] \in [Paginas -> EntradaTipo] /\ cursores[p] \in Paginas
  BY DEF AtenderPedidoDePaginaFault, Activos, FaltaAusente, Accesos, TypeOK
<1>2. CASE \/ Fallar("sin_victima") \/ Fallar("fuera_de_tabla") \/ Fallar("sin_marco")
  BY <1>2, FallarTablas
<1>3. CASE /\ b.fin \in Paginas
           /\ tabla' = [tabla EXCEPT ![p] = b.tabla]
           /\ cursores' = [cursores EXCEPT ![p] = Siguiente(b.fin)]
           /\ atiende' = [paso |-> "rajar", pid |-> p, pagina |-> acceso[p][2],
                          victima |-> b.fin, marco |-> -1]
           /\ UNCHANGED <<proceso, acceso, lista_de_marcos, lista_de_marcos_swap,
                          espacio_memoria, swap, falla, cpu, tlb>>
  <2>1. SoloUso(tabla[p], b.tabla) /\ tabla[p][b.fin].presencia /\ Siguiente(b.fin) \in Paginas
    BY <1>1, <1>3, BusquedaBien, SiguienteBien
  <2> HIDE DEF b
  <2>2. /\ tabla' \in [Procesos -> [Paginas -> EntradaTipo]] /\ SoloBits
        /\ tabla'[p][b.fin].presencia
    BY <1>1, <1>3, <2>1 DEF SoloBits, SoloUso
  <2>3. Activos' = Activos
    BY <1>3 DEF Activos
  <2>4. EntradasEnSuMarco' /\ MarcosConEntrada' /\ PosicionesPropias' /\ PosicionesConEntrada'
    BY <1>3, <2>2, <2>3, MismasEntradas
  <2>5. TypeOK'
    <3>1. AtiendeOK'
      BY <1>1, <1>3, <2>2 DEF AtiendeOK, AtiendeTipo
    <3>2. CpuOK'
      BY <1>3 DEF TypeOK, CpuOK
    <3>3. cursores' \in [Procesos -> Paginas]
      BY <1>3, <2>1 DEF TypeOK
    <3> QED BY <1>3, <2>2, <3>1, <3>2, <3>3 DEF TypeOK
  <2>6. FaltaEnCurso' /\ NuevoSinAcceso'
    BY <1>3 DEF FaltaEnCurso, NuevoSinAcceso
  <2>7. FaltaAusente'
    BY <1>3, <2>2 DEF FaltaAusente, SoloBits, Accesos
  <2>8. SinFaltaRepetida'
    <3>1. \A q \in Procesos : Presentes(q)' = Presentes(q)
      BY <2>2 DEF SoloBits, Presentes
    <3> QED BY <3>1, <1>3 DEF SinFaltaRepetida
  <2>9. RespuestaVigente'
    <3>1. cpu.paso = "recibir" => cpu.pid \in Procesos /\ cpu.acceso[2] \in Paginas
      BY DEF TypeOK, CpuOK, Accesos
    <3> QED BY <3>1, <1>3, <2>2 DEF RespuestaVigente, SoloBits
  <2> QED BY <2>4, <2>5, <2>6, <2>7, <2>8, <2>9
<1>4. CASE /\ \E f \in Marcos : /\ PrimerLibre(lista_de_marcos, f)
                                /\ atiende' = [paso |-> "cargar", pid |-> p, marco |-> f,
                                               pagina |-> acceso[p][2], victima |-> Ninguna]
           /\ UNCHANGED <<proceso, acceso, tabla, cursores, lista_de_marcos,
                          lista_de_marcos_swap, espacio_memoria, swap, falla, cpu, tlb>>
  <2>1. PICK f \in Marcos : /\ PrimerLibre(lista_de_marcos, f)
                            /\ atiende' = [paso |-> "cargar", pid |-> p, marco |-> f,
                                           pagina |-> acceso[p][2], victima |-> Ninguna]
    BY <1>4
  <2>2. Activos' = Activos
    BY <1>4 DEF Activos
  <2>3. EntradasEnSuMarco' /\ MarcosConEntrada' /\ PosicionesPropias' /\ PosicionesConEntrada'
    BY <1>4, <2>2, MismasEntradas DEF SoloBits
  <2>4. TypeOK'
    <3>1. AtiendeOK'
      BY <1>1, <1>4, <2>1 DEF AtiendeOK, AtiendeTipo
    <3>2. CpuOK'
      BY <1>4 DEF TypeOK, CpuOK
    <3> QED BY <1>4, <3>1, <3>2 DEF TypeOK
  <2>5. FaltaEnCurso'
    BY <1>4, <2>1 DEF FaltaEnCurso, PrimerLibre, Libres
  <2>6. FaltaAusente' /\ NuevoSinAcceso' /\ SinFaltaRepetida' /\ RespuestaVigente'
    BY <1>4 DEF FaltaAusente, NuevoSinAcceso, SinFaltaRepetida, Presentes, RespuestaVigente
  <2> QED BY <2>3, <2>4, <2>5, <2>6
<1> HIDE DEF b
<1> QED BY <1>2, <1>3, <1>4 DEF AtenderPedidoDePaginaFault, b

\* A page fault under way: its process, its page, and who else is about.
LEMMA FaltaBien ==
    ASSUME IInvTablas, atiende.paso # "ocioso"
    PROVE  /\ atiende.pid \in Procesos /\ proceso[atiende.pid] = "fault"
           /\ atiende.pid \in Activos /\ atiende.pid # Nadie
           /\ atiende.pagina \in Paginas /\ atiende.pagina = acceso[atiende.pid][2]
           /\ ~tabla[atiende.pid][atiende.pagina].presencia
           /\ cpu.pid # atiende.pid
           /\ cpu.paso = "recibir" => cpu.pid \in Procesos /\ cpu.acceso[2] \in Paginas
BY MemoriaAssumption DEF IInvTablas, TypeOK, AtiendeOK, CpuOK, Activos, FaltaAusente, Accesos

LEMMA RajarPaginaTablas ==
    ASSUME IInvTablas, RajarPagina
    PROVE  IInvTablas'
<1> USE DEF IInvTablas
<1> DEFINE p == atiende.pid
           v == atiende.victima
           f == tabla[p][v].marco
           e == [tabla[p][v] EXCEPT !.modificado = FALSE, !.presencia = FALSE]
<1>1. /\ p \in Procesos /\ proceso[p] = "fault" /\ p \in Activos /\ p # Nadie
      /\ atiende.pagina \in Paginas /\ atiende.pagina = acceso[p][2]
      /\ cpu.pid # p
      /\ cpu.paso = "recibir" => cpu.pid \in Procesos /\ cpu.acceso[2] \in Paginas
  BY FaltaBien DEF RajarPagina
<1>2. /\ v \in Paginas /\ tabla[p][v].presencia
      /\ tabla \in [Procesos -> [Paginas -> EntradaTipo]] /\ tabla[p][v] \in EntradaTipo
      /\ Activos \subseteq Procesos
  BY <1>1 DEF RajarPagina, TypeOK, AtiendeOK, Activos
<1>3. f \in Marcos /\ lista_de_marcos[f] = p
  BY <1>1, <1>2 DEF EntradasEnSuMarco
<1>4. /\ lista_de_marcos' = [lista_de_marcos EXCEPT ![f] = Nadie]
      /\ atiende' = [atiende EXCEPT !.paso = "cargar", !.marco = f]
      /\ swap' = EscribirPaginaEnSwap(tabla[p][v])
      /\ UNCHANGED <<proceso, acceso, cursores, lista_de_marcos_swap, espacio_memoria, falla,
                     cpu, tlb>>
  BY DEF RajarPagina
<1>5. e \in EntradaTipo /\ ~e.presencia /\ e.posicion_swap = tabla[p][v].posicion_swap
  <2>1. \A d \in EntradaTipo :
           LET c == [d EXCEPT !.modificado = FALSE, !.presencia = FALSE] IN
           c \in EntradaTipo /\ ~c.presencia /\ c.posicion_swap = d.posicion_swap
    BY DEF EntradaTipo
  <2> QED BY <2>1, <1>2
<1>6. tabla' = [tabla EXCEPT ![p][v] = e]
  BY <1>2 DEF RajarPagina
<1> HIDE DEF e
<1>7. /\ tabla' \in [Procesos -> [Paginas -> EntradaTipo]]
      /\ \A q \in Procesos, y \in Paginas : tabla'[q][y] = IF q = p /\ y = v THEN e ELSE tabla[q][y]
  BY <1>1, <1>2, <1>5, <1>6, CambiarEntrada
<1>8. Activos' = Activos
  BY <1>4 DEF Activos
<1>9. PosicionesPropias' /\ PosicionesConEntrada'
  BY <1>4, <1>5, <1>7, <1>8, MismasPosiciones
<1>10. EntradasEnSuMarco'
  <2>1. ASSUME NEW q \in Activos, NEW x \in Paginas, tabla'[q][x].presencia
        PROVE  /\ tabla'[q][x] = tabla[q][x] /\ tabla[q][x].presencia
               /\ tabla[q][x].marco # f
    <3>1. tabla'[q][x] = tabla[q][x] /\ ~(q = p /\ x = v)
      BY <2>1, <1>2, <1>5, <1>7
    <3> QED BY <3>1, <2>1, <1>1, <1>2, <1>3 DEF EntradasEnSuMarco
  <2>2. \A g \in Marcos : g # f => lista_de_marcos'[g] = lista_de_marcos[g]
    BY <1>4 DEF TypeOK
  <2> QED BY <2>1, <2>2, <1>8 DEF EntradasEnSuMarco
<1>11. MarcosConEntrada'
  <2>1. ASSUME NEW g \in Marcos, lista_de_marcos'[g] # Nadie
        PROVE  /\ lista_de_marcos'[g] \in Activos
               /\ \E x \in Paginas : /\ tabla'[lista_de_marcos'[g]][x].presencia
                                     /\ tabla'[lista_de_marcos'[g]][x].marco = g
    <3>1. g # f /\ lista_de_marcos'[g] = lista_de_marcos[g]
      BY <2>1, <1>3, <1>4 DEF TypeOK
    <3>2. PICK x \in Paginas : /\ tabla[lista_de_marcos[g]][x].presencia
                               /\ tabla[lista_de_marcos[g]][x].marco = g
      BY <2>1, <3>1 DEF MarcosConEntrada
    <3>3. lista_de_marcos[g] \in Activos
      BY <2>1, <3>1 DEF MarcosConEntrada
    <3> QED BY <3>1, <3>2, <3>3, <1>2, <1>7
  <2> QED BY <2>1, <1>8 DEF MarcosConEntrada
<1>12. TypeOK'
  <2>1. AtiendeOK'
    BY <1>1, <1>3, <1>4 DEF TypeOK, AtiendeOK, AtiendeTipo
  <2>2. CpuOK'
    BY <1>4 DEF TypeOK, CpuOK
  <2>3. lista_de_marcos' \in [Marcos -> Procesos \cup {Nadie}]
    BY <1>4 DEF TypeOK
  <2>4. swap' \in [Posiciones -> Contenidos]
    BY <1>3, <1>4 DEF TypeOK, EscribirPaginaEnSwap
  <2> QED BY <1>4, <1>7, <2>1, <2>2, <2>3, <2>4 DEF TypeOK
<1>13. FaltaEnCurso'
  BY <1>3, <1>4 DEF FaltaEnCurso, TypeOK, AtiendeOK, AtiendeTipo
<1>14. \A q \in Procesos, x \in Paginas : tabla'[q][x].presencia => tabla[q][x].presencia
  BY <1>5, <1>7
<1>15. FaltaAusente' /\ NuevoSinAcceso'
  <2>1. FaltaAusente'
    BY <1>4, <1>14 DEF FaltaAusente, Accesos
  <2> QED BY <2>1, <1>4 DEF NuevoSinAcceso
<1>16. SinFaltaRepetida'
  <2>1. \A q \in Procesos : q # p => Presentes(q)' = Presentes(q)
    BY <1>7 DEF Presentes
  <2> QED BY <2>1, <1>1, <1>4 DEF SinFaltaRepetida
<1>17. RespuestaVigente'
  BY <1>1, <1>4, <1>7 DEF RespuestaVigente
<1> QED BY <1>9, <1>10, <1>11, <1>12, <1>13, <1>15, <1>16, <1>17

LEMMA CargarPaginaTablas ==
    ASSUME IInvTablas, CargarPagina
    PROVE  IInvTablas'
<1> USE DEF IInvTablas
<1> DEFINE p == atiende.pid
           x == atiende.pagina
           e == [tabla[p][x] EXCEPT !.marco = atiende.marco]
<1>1. /\ p \in Procesos /\ proceso[p] = "fault"
      /\ x \in Paginas /\ x = acceso[p][2] /\ ~tabla[p][x].presencia
      /\ p \in Activos /\ cpu.pid # p
      /\ cpu.paso = "recibir" => cpu.pid \in Procesos /\ cpu.acceso[2] \in Paginas
  BY FaltaBien DEF CargarPagina
<1>2. /\ tabla \in [Procesos -> [Paginas -> EntradaTipo]] /\ tabla[p][x] \in EntradaTipo
      /\ Activos \subseteq Procesos /\ atiende.marco \in Marcos
      /\ lista_de_marcos[atiende.marco] = Nadie
  BY <1>1 DEF CargarPagina, TypeOK, AtiendeOK, Activos, FaltaEnCurso
<1>3. /\ espacio_memoria' =
            [espacio_memoria EXCEPT ![atiende.marco] = swap[tabla[p][x].posicion_swap]]
      /\ atiende' = [atiende EXCEPT !.paso = "presentar"]
      /\ UNCHANGED <<proceso, acceso, cursores, lista_de_marcos, lista_de_marcos_swap, swap,
                     falla, cpu, tlb>>
  BY DEF CargarPagina
<1>4. /\ e \in EntradaTipo /\ e.marco = atiende.marco /\ e.presencia = tabla[p][x].presencia
      /\ e.posicion_swap = tabla[p][x].posicion_swap
  <2>1. \A d \in EntradaTipo, f \in Marcos :
           LET c == [d EXCEPT !.marco = f] IN
           /\ c \in EntradaTipo /\ c.marco = f /\ c.presencia = d.presencia
           /\ c.posicion_swap = d.posicion_swap
    BY DEF EntradaTipo
  <2> QED BY <2>1, <1>2
<1>5. tabla' = [tabla EXCEPT ![p][x] = e]
  BY <1>2 DEF CargarPagina
<1> HIDE DEF e
<1>6. /\ tabla' \in [Procesos -> [Paginas -> EntradaTipo]]
      /\ \A q \in Procesos, y \in Paginas : tabla'[q][y] = IF q = p /\ y = x THEN e ELSE tabla[q][y]
  BY <1>1, <1>2, <1>4, <1>5, CambiarEntrada
<1>7. \A q \in Procesos, y \in Paginas :
         /\ tabla'[q][y].presencia = tabla[q][y].presencia
         /\ tabla'[q][y].presencia => tabla'[q][y] = tabla[q][y]
  BY <1>1, <1>4, <1>6
<1>8. Activos' = Activos
  BY <1>3 DEF Activos
<1>9. PosicionesPropias' /\ PosicionesConEntrada'
  BY <1>3, <1>4, <1>6, <1>8, MismasPosiciones
<1>10. EntradasEnSuMarco'
  BY <1>2, <1>3, <1>7, <1>8 DEF EntradasEnSuMarco
<1>11. MarcosConEntrada'
  <2>1. ASSUME NEW g \in Marcos, lista_de_marcos[g] # Nadie
        PROVE  /\ lista_de_marcos[g] \in Activos
               /\ \E y \in Paginas : /\ tabla'[lista_de_marcos[g]][y].presencia
                                     /\ tabla'[lista_de_marcos[g]][y].marco = g
    <3>1. PICK y \in Paginas : /\ tabla[lista_de_marcos[g]][y].presencia
                               /\ tabla[lista_de_marcos[g]][y].marco = g
      BY <2>1 DEF MarcosConEntrada
    <3>2. lista_de_marcos[g] \in Activos
      BY <2>1 DEF MarcosConEntrada
    <3> QED BY <3>1, <3>2, <1>2, <1>7
  <2> QED BY <2>1, <1>3, <1>8 DEF MarcosConEntrada
<1>12. TypeOK'
  <2>1. AtiendeOK'
    BY <1>1, <1>2, <1>3 DEF CargarPagina, TypeOK, AtiendeOK, AtiendeTipo
  <2>2. CpuOK'
    BY <1>3 DEF TypeOK, CpuOK
  <2>3. espacio_memoria' \in [Marcos -> Contenidos]
    <3>1. tabla[p][x].posicion_swap \in Posiciones
      BY <1>1 DEF PosicionesPropias
    <3> QED BY <3>1, <1>3 DEF TypeOK
  <2> QED BY <1>3, <1>6, <2>1, <2>2, <2>3 DEF TypeOK
<1>13. FaltaEnCurso'
  <2>1. atiende'.pid = p /\ atiende'.pagina = x /\ atiende'.marco = atiende.marco
    BY <1>3 DEF TypeOK, AtiendeOK, AtiendeTipo
  <2>2. tabla'[p][x].marco = atiende.marco
    BY <1>1, <1>4, <1>6
  <2> QED BY <2>1, <2>2, <1>2, <1>3 DEF FaltaEnCurso
<1>14. FaltaAusente' /\ NuevoSinAcceso'
  <2>1. FaltaAusente'
    BY <1>3, <1>7 DEF FaltaAusente, Accesos
  <2> QED BY <2>1, <1>3 DEF NuevoSinAcceso
<1>15. SinFaltaRepetida'
  <2>1. \A q \in Procesos : Presentes(q)' = Presentes(q)
    BY <1>7 DEF Presentes
  <2> QED BY <2>1, <1>3 DEF SinFaltaRepetida
<1>16. RespuestaVigente'
  BY <1>1, <1>3, <1>6 DEF RespuestaVigente
<1> QED BY <1>9, <1>10, <1>11, <1>12, <1>13, <1>14, <1>15, <1>16

LEMMA PresentarPaginaTablas ==
    ASSUME IInvTablas, PresentarPagina
    PROVE  IInvTablas'
<1> USE DEF IInvTablas
<1> DEFINE p == atiende.pid
           x == atiende.pagina
           f == atiende.marco
           e == [tabla[p][x] EXCEPT !.presencia = TRUE, !.uso = TRUE]
<1>1. /\ p \in Procesos /\ proceso[p] = "fault" /\ p \in Activos /\ p # Nadie
      /\ x \in Paginas /\ x = acceso[p][2] /\ ~tabla[p][x].presencia
      /\ cpu.pid # p
      /\ cpu.paso = "recibir" => cpu.pid \in Procesos /\ cpu.acceso[2] \in Paginas
  BY FaltaBien DEF PresentarPagina
<1>2. /\ tabla \in [Procesos -> [Paginas -> EntradaTipo]] /\ tabla[p][x] \in EntradaTipo
      /\ Activos \subseteq Procesos /\ f \in Marcos
      /\ lista_de_marcos[f] = Nadie /\ tabla[p][x].marco = f
  BY <1>1 DEF PresentarPagina, TypeOK, AtiendeOK, Activos, FaltaEnCurso
<1>3. /\ lista_de_marcos' = [lista_de_marcos EXCEPT ![f] = p]
      /\ proceso' = [proceso EXCEPT ![p] = "listo"]
      /\ atiende' = Ocioso
      /\ UNCHANGED <<acceso, cursores, lista_de_marcos_swap, espacio_memoria, swap, falla,
                     cpu, tlb>>
  BY DEF PresentarPagina
<1>4. /\ e \in EntradaTipo /\ e.marco = f /\ e.presencia
      /\ e.posicion_swap = tabla[p][x].posicion_swap
  <2>1. \A d \in EntradaTipo :
           LET c == [d EXCEPT !.presencia = TRUE, !.uso = TRUE] IN
           /\ c \in EntradaTipo /\ c.marco = d.marco /\ c.presencia
           /\ c.posicion_swap = d.posicion_swap
    BY DEF EntradaTipo
  <2> QED BY <2>1, <1>2
<1>5. tabla' = [tabla EXCEPT ![p][x] = e]
  BY <1>2 DEF PresentarPagina
<1> HIDE DEF e
<1>6. /\ tabla' \in [Procesos -> [Paginas -> EntradaTipo]]
      /\ \A q \in Procesos, y \in Paginas : tabla'[q][y] = IF q = p /\ y = x THEN e ELSE tabla[q][y]
  BY <1>1, <1>2, <1>4, <1>5, CambiarEntrada
<1>7. Activos' = Activos
  BY <1>1, <1>3 DEF Activos, TypeOK
<1>8. PosicionesPropias' /\ PosicionesConEntrada'
  BY <1>3, <1>4, <1>6, <1>7, MismasPosiciones
<1>9. \A g \in Marcos : lista_de_marcos'[g] = IF g = f THEN p ELSE lista_de_marcos[g]
  BY <1>3 DEF TypeOK
<1>10. \A q \in Activos : q \in Procesos /\ q # Nadie
  BY <1>2, MemoriaAssumption
<1>11. EntradasEnSuMarco'
  <2>1. ASSUME NEW q \in Activos, NEW y \in Paginas, tabla[q][y].presencia
        PROVE  tabla[q][y].marco # f /\ tabla'[q][y] = tabla[q][y]
    BY <2>1, <1>1, <1>2, <1>6, <1>10 DEF EntradasEnSuMarco
  <2>2. ASSUME NEW q \in Activos, NEW y \in Paginas, tabla'[q][y].presencia
        PROVE  /\ tabla'[q][y].marco \in Marcos
               /\ lista_de_marcos'[tabla'[q][y].marco] = q
               /\ \A z \in Paginas :
                     tabla'[q][z].presencia /\ tabla'[q][z].marco = tabla'[q][y].marco => z = y
    <3>1. CASE q = p /\ y = x
      <4>0. q \in Procesos
        BY <1>10
      <4>1. tabla'[q][y] = e /\ tabla'[q][y].marco = f /\ f \in Marcos
        <5>1. tabla'[q][y] = e
          BY <4>0, <3>1, <1>6
        <5> QED BY <5>1, <1>4, <1>2
      <4>2. lista_de_marcos'[f] = q
        BY <3>1, <4>1, <1>9
      <4>3. ASSUME NEW z \in Paginas, tabla'[q][z].presencia, tabla'[q][z].marco = f, z # x
            PROVE  FALSE
        <5>1. tabla'[q][z] = tabla[q][z]
          BY <4>0, <4>3, <1>6
        <5>2. tabla[q][z].presencia /\ tabla[q][z].marco = f
          BY <5>1, <4>3
        <5> QED BY <5>2, <2>1
      <4> QED BY <3>1, <4>1, <4>2, <4>3
    <3>2. CASE ~(q = p /\ y = x)
      <4>1. tabla'[q][y] = tabla[q][y] /\ tabla[q][y].presencia /\ tabla[q][y].marco # f
        BY <3>2, <2>1, <2>2, <1>6, <1>10
      <4>2. /\ tabla[q][y].marco \in Marcos /\ lista_de_marcos[tabla[q][y].marco] = q
            /\ \A z \in Paginas :
                  tabla[q][z].presencia /\ tabla[q][z].marco = tabla[q][y].marco => z = y
        BY <4>1 DEF EntradasEnSuMarco
      <4>3. \A z \in Paginas : tabla'[q][z] = tabla[q][z] \/ tabla'[q][z].marco = f
        BY <1>4, <1>6, <1>10
      <4> QED BY <4>1, <4>2, <4>3, <1>9
    <3> QED BY <3>1, <3>2
  <2> QED BY <2>2, <1>7 DEF EntradasEnSuMarco
<1>12. MarcosConEntrada'
  <2>1. ASSUME NEW g \in Marcos, lista_de_marcos'[g] # Nadie
        PROVE  /\ lista_de_marcos'[g] \in Activos
               /\ \E y \in Paginas : /\ tabla'[lista_de_marcos'[g]][y].presencia
                                     /\ tabla'[lista_de_marcos'[g]][y].marco = g
    <3>1. CASE g = f
      BY <3>1, <1>1, <1>4, <1>6, <1>9
    <3>2. CASE g # f
      <4>1. lista_de_marcos'[g] = lista_de_marcos[g] /\ lista_de_marcos[g] \in Activos
        BY <3>2, <2>1, <1>9 DEF MarcosConEntrada
      <4>2. PICK y \in Paginas : /\ tabla[lista_de_marcos[g]][y].presencia
                                 /\ tabla[lista_de_marcos[g]][y].marco = g
        BY <4>1, <2>1 DEF MarcosConEntrada
      <4>3. tabla'[lista_de_marcos[g]][y] = tabla[lista_de_marcos[g]][y]
        BY <4>1, <4>2, <1>1, <1>6, <1>10
      <4> QED BY <4>1, <4>2, <4>3
    <3> QED BY <3>1, <3>2
  <2> QED BY <2>1, <1>7 DEF MarcosConEntrada
<1>13. TypeOK'
  <2>1. AtiendeOK'
    BY <1>3 DEF AtiendeOK, AtiendeTipo, Ocioso
  <2>2. CpuOK'
    BY <1>1, <1>3 DEF TypeOK, CpuOK
  <2>3. lista_de_marcos' \in [Marcos -> Procesos \cup {Nadie}]
    BY <1>1, <1>3 DEF TypeOK
  <2> QED BY <1>1, <1>3, <1>6, <2>1, <2>2, <2>3 DEF TypeOK
<1>14. FaltaEnCurso'
  BY <1>3 DEF FaltaEnCurso, Ocioso
<1>15. FaltaAusente' /\ NuevoSinAcceso'
  <2>1. \A q \in Procesos : proceso'[q] = "fault" => q # p /\ proceso[q] = "fault"
    BY <1>1, <1>3 DEF TypeOK
  <2>2. FaltaAusente'
    BY <2>1, <1>3, <1>6 DEF FaltaAusente, Accesos
  <2>3. NuevoSinAcceso'
    BY <1>1, <1>3 DEF NuevoSinAcceso, TypeOK
  <2> QED BY <2>2, <2>3
<1>16. SinFaltaRepetida'
  <2>1. \A q \in Procesos : q = p => acceso[q][2] \in Presentes(q)'
    BY <1>1, <1>4, <1>6 DEF Presentes
  <2>2. \A q \in Procesos : q # p => Presentes(q)' = Presentes(q) /\ proceso'[q] = proceso[q]
    BY <1>3, <1>6 DEF Presentes, TypeOK
  <2> QED BY <2>1, <2>2, <1>3 DEF SinFaltaRepetida
<1>17. RespuestaVigente'
  BY <1>1, <1>3, <1>6 DEF RespuestaVigente
<1> QED BY <1>8, <1>11, <1>12, <1>13, <1>14, <1>15, <1>16, <1>17

LEMMA AtenderLiberarEstructurasTablas ==
    ASSUME IInvTablas, NEW p \in Procesos, AtenderLiberarEstructuras(p)
    PROVE  IInvTablas'
<1> USE DEF IInvTablas
<1>1. /\ proceso[p] = "terminado" /\ p \in Activos /\ atiende = Ocioso
      /\ lista_de_marcos' =
            [f \in Marcos |-> IF f \in MarcosLiberados(p) THEN Nadie ELSE lista_de_marcos[f]]
      /\ lista_de_marcos_swap' =
            [s \in Posiciones |-> IF s \in PosicionesLiberadas(p) THEN Nadie
                                  ELSE lista_de_marcos_swap[s]]
      /\ proceso' = [proceso EXCEPT ![p] = "fin"]
      /\ UNCHANGED <<acceso, tabla, cursores, espacio_memoria, swap, atiende, falla, cpu, tlb>>
  BY DEF AtenderLiberarEstructuras, Activos
<1>2. Activos' = Activos \ {p} /\ Activos \subseteq Procesos
  BY <1>1 DEF Activos, TypeOK
<1>3. \A f \in MarcosLiberados(p) : f \in Marcos /\ lista_de_marcos[f] = p
  BY <1>1 DEF MarcosLiberados, EntradasEnSuMarco
<1>4. \A s \in PosicionesLiberadas(p) : s \in Posiciones /\ lista_de_marcos_swap[s] = p
  BY <1>1 DEF PosicionesLiberadas, PosicionesPropias
<1>5. EntradasEnSuMarco'
  BY <1>1, <1>2, <1>3 DEF EntradasEnSuMarco
<1>6. MarcosConEntrada'
  <2>1. ASSUME NEW f \in Marcos, lista_de_marcos'[f] # Nadie
        PROVE  lista_de_marcos'[f] = lista_de_marcos[f] /\ lista_de_marcos[f] # p
    <3>1. lista_de_marcos'[f] = lista_de_marcos[f] /\ f \notin MarcosLiberados(p)
      BY <2>1, <1>1
    <3>2. CASE lista_de_marcos[f] = p
      <4>1. \E x \in Paginas : tabla[p][x].presencia /\ tabla[p][x].marco = f
        BY <3>1, <3>2, <2>1 DEF MarcosConEntrada
      <4> QED BY <4>1, <3>1 DEF MarcosLiberados
    <3> QED BY <3>1, <3>2
  <2> QED BY <2>1, <1>1, <1>2 DEF MarcosConEntrada
<1>7. PosicionesPropias'
  BY <1>1, <1>2, <1>4 DEF PosicionesPropias
<1>8. PosicionesConEntrada'
  <2>1. ASSUME NEW s \in Posiciones, lista_de_marcos_swap'[s] # Nadie
        PROVE  lista_de_marcos_swap'[s] = lista_de_marcos_swap[s] /\ lista_de_marcos_swap[s] # p
    <3>1. lista_de_marcos_swap'[s] = lista_de_marcos_swap[s] /\ s \notin PosicionesLiberadas(p)
      BY <2>1, <1>1
    <3>2. CASE lista_de_marcos_swap[s] = p
      <4>1. \E x \in Paginas : tabla[p][x].posicion_swap = s
        BY <3>1, <3>2, <2>1 DEF PosicionesConEntrada
      <4> QED BY <4>1, <3>1 DEF PosicionesLiberadas
    <3> QED BY <3>1, <3>2
  <2> QED BY <2>1, <1>1, <1>2 DEF PosicionesConEntrada
<1>9. TypeOK'
  <2>1. AtiendeOK'
    BY <1>1 DEF TypeOK, AtiendeOK, Ocioso
  <2>2. CpuOK'
    BY <1>1 DEF TypeOK, CpuOK
  <2>3. /\ lista_de_marcos' \in [Marcos -> Procesos \cup {Nadie}]
        /\ lista_de_marcos_swap' \in [Posiciones -> Procesos \cup {Nadie}]
        /\ proceso' \in [Procesos -> {"nuevo", "listo", "cpu", "fault", "terminado", "fin"}]
    BY <1>1 DEF TypeOK
  <2> QED BY <1>1, <2>1, <2>2, <2>3 DEF TypeOK
<1>10. FaltaEnCurso' /\ FaltaAusente' /\ NuevoSinAcceso' /\ RespuestaVigente'
  BY <1>1 DEF FaltaEnCurso, FaltaAusente, NuevoSinAcceso, RespuestaVigente, TypeOK, Ocioso
<1>11. SinFaltaRepetida'
  BY <1>1 DEF SinFaltaRepetida, Presentes, TypeOK
<1> QED BY <1>5, <1>6, <1>7, <1>8, <1>9, <1>10, <1>11

\* The tables of the processes, the frames and the slots stay consistent for ever.
THEOREM TablasInductivas == Spec => []IInvTablas
<1>1. Init => IInvTablas
  BY InitTablas
<1>2. IInvTablas /\ [Next]_vars => IInvTablas'
  <2> SUFFICES ASSUME IInvTablas, [Next]_vars PROVE IInvTablas'
    OBVIOUS
  <2>1. CASE AtenderKernel
    BY <2>1, AtenderPedidoDeEstructurasTablas, AtenderPedidoDePaginaFaultTablas,
       AtenderLiberarEstructurasTablas, RajarPaginaTablas, CargarPaginaTablas,
       PresentarPaginaTablas DEF AtenderKernel
  <2>2. CASE AtenderCpu
    BY <2>2, AtenderPedidoDeMarcoTablas, AtenderPedidoDeLecturaTablas,
       AtenderPedidoDeEscrituraTablas DEF AtenderCpu
  <2>3. CASE CicloDeInstruccion
    BY <2>3, DespacharTablas, DecodificarTablas, RecibirMarcoTablas, DesalojarTablas,
       TerminarTablas DEF CicloDeInstruccion
  <2>4. CASE UNCHANGED vars
    <3> USE <2>4 DEF vars, varsMemoria, IInvTablas
    <3>1. Activos' = Activos
      BY DEF Activos
    <3>2. EntradasEnSuMarco' /\ MarcosConEntrada' /\ PosicionesPropias' /\ PosicionesConEntrada'
      BY <3>1, MismasEntradas DEF SoloBits
    <3>3. TypeOK'
      BY DEF TypeOK, AtiendeOK, CpuOK
    <3>4. FaltaEnCurso' /\ FaltaAusente' /\ NuevoSinAcceso' /\ SinFaltaRepetida'
      BY DEF FaltaEnCurso, FaltaAusente, NuevoSinAcceso, SinFaltaRepetida, Presentes
    <3>5. RespuestaVigente'
      BY DEF RespuestaVigente
    <3> QED BY <3>2, <3>3, <3>4, <3>5
  <2> QED BY <2>1, <2>2, <2>3, <2>4 DEF Next
<1> QED BY <1>1, <1>2, PTL DEF Spec

\* TypeOK: every variable keeps its type, and the threads are where the kernel left them.
THEOREM TypeCorrecta == Spec => []TypeOK
<1>1. IInvTablas => TypeOK
  BY DEF IInvTablas
<1> QED BY <1>1, TablasInductivas, PTL

LEMMA PaginasFinitas == IsFiniteSet(Paginas)
<1>1. IsFiniteSet(0..(Segmentos - 1)) /\ IsFiniteSet(0..(EntradasPorTabla - 1))
  BY TablasAssumption, FS_Interval
<1> QED BY <1>1, FS_Product DEF Paginas

\* Two sets with a one-to-one function from the first onto the second are as large.
LEMMA MismoTamanio ==
    ASSUME NEW S, NEW T, IsFiniteSet(S), NEW f \in [S -> T],
           \A x, y \in S : f[x] = f[y] => x = y,
           \A t \in T : \E x \in S : f[x] = t
    PROVE  Cardinality(T) = Cardinality(S)
<1>1. f \in Injection(S, T)
  BY DEF Injection, IsInjective
<1>2. f \in Surjection(S, T)
  BY DEF Surjection
<1> QED BY <1>1, <1>2, FS_Surjection

\* MarcosCoherentes: the frames marked with a process are those of its present pages, one
\* page in each, at every moment of a page fault.
THEOREM MarcosSiempreCoherentes == Spec => []MarcosCoherentes
<1>1. ASSUME IInvTablas PROVE MarcosCoherentes
  <2> USE <1>1 DEF IInvTablas
  <2> SUFFICES ASSUME NEW p \in Procesos
               PROVE  LET suyos == {f \in Marcos : lista_de_marcos[f] = p} IN
                      IF p \in Activos
                      THEN /\ {tabla[p][x].marco : x \in Presentes(p)} = suyos
                           /\ Cardinality(suyos) = Cardinality(Presentes(p))
                      ELSE suyos = {}
    BY DEF MarcosCoherentes
  <2> DEFINE suyos == {f \in Marcos : lista_de_marcos[f] = p}
  <2>1. CASE p \in Activos
    <3> DEFINE m == [x \in Presentes(p) |-> tabla[p][x].marco]
    <3>1. \A x \in Presentes(p) : tabla[p][x].marco \in suyos
      BY <2>1 DEF EntradasEnSuMarco, Presentes
    <3>2. \A x, y \in Presentes(p) : tabla[p][x].marco = tabla[p][y].marco => x = y
      BY <2>1 DEF EntradasEnSuMarco, Presentes
    <3>3. \A f \in suyos : \E x \in Presentes(p) : tabla[p][x].marco = f
      BY MemoriaAssumption DEF MarcosConEntrada, Presentes
    <3>4. IsFiniteSet(Presentes(p))
      BY PaginasFinitas, FS_Subset DEF Presentes
    <3>5. Cardinality(suyos) = Cardinality(Presentes(p))
      <4> HIDE DEF suyos
      <4>1. m \in [Presentes(p) -> suyos]
        BY <3>1
      <4>2. \A x, y \in Presentes(p) : m[x] = m[y] => x = y
        BY <3>2
      <4>3. \A f \in suyos : \E x \in Presentes(p) : m[x] = f
        BY <3>3
      <4> QED BY <3>4, <4>1, <4>2, <4>3, MismoTamanio
    <3>6. {tabla[p][x].marco : x \in Presentes(p)} = suyos
      <4> HIDE DEF suyos
      <4> QED BY <3>1, <3>3
    <3> QED BY <2>1, <3>5, <3>6
  <2>2. CASE p \notin Activos
    BY <2>2, MemoriaAssumption DEF MarcosConEntrada
  <2> QED BY <2>1, <2>2
<1> QED BY <1>1, TablasInductivas, PTL

\* SwapCoherente: the slots marked with a process are those of its pages, each its own,
\* until its structures are freed; then none stays marked.
THEOREM SwapSiempreCoherente == Spec => []SwapCoherente
<1>1. ASSUME IInvTablas PROVE SwapCoherente
  <2> USE <1>1 DEF IInvTablas
  <2> SUFFICES ASSUME NEW p \in Procesos
               PROVE  LET suyas == {s \in Posiciones : lista_de_marcos_swap[s] = p} IN
                      IF p \in Activos
                      THEN /\ {tabla[p][x].posicion_swap : x \in Paginas} = suyas
                           /\ Cardinality(suyas) = Cardinality(Paginas)
                      ELSE suyas = {}
    BY DEF SwapCoherente
  <2> DEFINE suyas == {s \in Posiciones : lista_de_marcos_swap[s] = p}
  <2>1. CASE p \in Activos
    <3> DEFINE m == [x \in Paginas |-> tabla[p][x].posicion_swap]
    <3>1. \A x \in Paginas : tabla[p][x].posicion_swap \in suyas
      BY <2>1 DEF PosicionesPropias
    <3>2. \A x, y \in Paginas : tabla[p][x].posicion_swap = tabla[p][y].posicion_swap => x = y
      BY <2>1 DEF PosicionesPropias
    <3>3. \A s \in suyas : \E x \in Paginas : tabla[p][x].posicion_swap = s
      BY MemoriaAssumption DEF PosicionesConEntrada
    <3>5. Cardinality(suyas) = Cardinality(Paginas)
      <4> HIDE DEF suyas
      <4>1. m \in [Paginas -> suyas]
        BY <3>1
      <4>2. \A x, y \in Paginas : m[x] = m[y] => x = y
        BY <3>2
      <4>3. \A s \in suyas : \E x \in Paginas : m[x] = s
        BY <3>3
      <4> QED BY PaginasFinitas, <4>1, <4>2, <4>3, MismoTamanio
    <3>6. {tabla[p][x].posicion_swap : x \in Paginas} = suyas
      <4> HIDE DEF suyas
      <4> QED BY <3>1, <3>3
    <3> QED BY <2>1, <3>5, <3>6
  <2>2. CASE p \notin Activos
    BY <2>2, MemoriaAssumption DEF PosicionesConEntrada
  <2> QED BY <2>1, <2>2
<1> QED BY <1>1, TablasInductivas, PTL

\* SinFaltaRepetida: the page a fault brought in is there when its access is tried again.
THEOREM NuncaFaltaRepetida == Spec => []SinFaltaRepetida
<1>1. IInvTablas => SinFaltaRepetida
  BY DEF IInvTablas
<1> QED BY <1>1, TablasInductivas, PTL

-----------------------------------------------------------------------------
(* The frames of a process *)

LEMMA MarcosFinitos ==
    ASSUME NEW T \in SUBSET Marcos
    PROVE  IsFiniteSet(T) /\ Cardinality(T) \in Nat
<1>1. IsFiniteSet(Marcos)
  BY MemoriaAssumption, FS_Interval DEF Marcos
<1> QED BY <1>1, FS_Subset, FS_CardinalityType

\* A process gets one frame more, loses one, or keeps some of those it has.
LEMMA UnMarcoMas ==
    ASSUME NEW S \in SUBSET Marcos, NEW f \in Marcos, NEW n \in Nat, Cardinality(S) < n
    PROVE  Cardinality(S \cup {f}) <= n
<1>1. IsFiniteSet(S) /\ Cardinality(S) \in Nat
  BY MarcosFinitos
<1>2. Cardinality(S \cup {f}) = IF f \in S THEN Cardinality(S) ELSE Cardinality(S) + 1
  BY <1>1, FS_AddElement
<1> QED BY <1>1, <1>2

LEMMA UnMarcoMenos ==
    ASSUME NEW S \in SUBSET Marcos, NEW f \in S, NEW n \in Nat, Cardinality(S) <= n
    PROVE  Cardinality(S \ {f}) < n
<1>1. IsFiniteSet(S) /\ Cardinality(S) \in Nat
  BY MarcosFinitos
<1>2. Cardinality(S \ {f}) = Cardinality(S) - 1
  BY <1>1, FS_RemoveElement
<1> QED BY <1>1, <1>2

LEMMA AlgunosMarcos ==
    ASSUME NEW S \in SUBSET Marcos, NEW T \in SUBSET S, NEW n \in Nat, Cardinality(S) <= n
    PROVE  Cardinality(T) <= n
<1>1. Cardinality(T) <= Cardinality(S)
  BY MarcosFinitos, FS_Subset
<1>2. Cardinality(S) \in Nat /\ Cardinality(T) \in Nat
  BY MarcosFinitos
<1> QED BY <1>1, <1>2

IInvMarcos == MarcosAcotados /\ HayLugar

LEMMA MarcosPaso ==
    ASSUME IInvTablas, IInvMarcos, [Next]_vars
    PROVE  IInvMarcos'
<1> USE DEF IInvTablas
<1> DEFINE M(p) == {f \in Marcos : lista_de_marcos[f] = p}
<1>0. /\ \A p : M(p) \in SUBSET Marcos /\ Cardinality(M(p)) \in Nat
      /\ \A p : M(p)' \in SUBSET Marcos /\ Cardinality(M(p)') \in Nat
      /\ MarcosPorProceso \in Nat \ {0}
  BY MarcosFinitos, MemoriaAssumption
<1>1. CASE UNCHANGED <<lista_de_marcos, atiende>>
  BY <1>1 DEF IInvMarcos, MarcosAcotados, HayLugar, Cuenta
<1>2. ASSUME NEW p \in Procesos, AtenderPedidoDePaginaFault(p) PROVE IInvMarcos'
  <2>1. CASE SinMarcosPropios(p)
    <3>1. UNCHANGED lista_de_marcos /\ (UNCHANGED atiende \/ atiende'.paso = "rajar")
      BY <1>2, <2>1 DEF AtenderPedidoDePaginaFault, Fallar
    <3> QED BY <3>1 DEF IInvMarcos, MarcosAcotados, HayLugar, Cuenta
  <2>2. CASE ~SinMarcosPropios(p)
    <3>1. UNCHANGED lista_de_marcos /\ (UNCHANGED atiende \/ atiende'.pid = p)
      BY <1>2, <2>2 DEF AtenderPedidoDePaginaFault, Fallar
    <3>2. Cardinality(M(p)) < MarcosPorProceso
      BY <2>2, <1>0 DEF SinMarcosPropios, IInvMarcos, MarcosAcotados
    <3> QED BY <3>1, <3>2 DEF IInvMarcos, MarcosAcotados, HayLugar, Cuenta
  <2> QED BY <2>1, <2>2
<1>3. CASE RajarPagina
  <2> DEFINE p == atiende.pid
             f == tabla[p][atiende.victima].marco
  <2>1. /\ p \in Procesos /\ p # Nadie /\ f \in Marcos /\ lista_de_marcos[f] = p
        /\ lista_de_marcos' = [lista_de_marcos EXCEPT ![f] = Nadie]
        /\ atiende'.pid = p
    <3>1. p \in Procesos /\ p \in Activos /\ p # Nadie
      BY <1>3, FaltaBien DEF RajarPagina
    <3>2. atiende.victima \in Paginas /\ tabla[p][atiende.victima].presencia
      BY <1>3 DEF RajarPagina, TypeOK, AtiendeOK
    <3>3. f \in Marcos /\ lista_de_marcos[f] = p
      BY <3>1, <3>2 DEF EntradasEnSuMarco
    <3> QED BY <3>1, <3>3, <1>3 DEF RajarPagina, TypeOK, AtiendeOK, AtiendeTipo
  <2> HIDE DEF f
  <2>2. \A q \in Procesos : {g \in Marcos : lista_de_marcos'[g] = q} =
           IF q = p THEN M(q) \ {f} ELSE M(q)
    BY <2>1, MemoriaAssumption DEF TypeOK
  <2>3. \A q \in Procesos : Cardinality(M(q)) <= MarcosPorProceso
    BY DEF IInvMarcos, MarcosAcotados
  <2>4. f \in M(p)
    BY <2>1
  <2>5. Cardinality(M(p) \ {f}) < MarcosPorProceso
    <3>1. Cardinality(M(p)) <= MarcosPorProceso /\ M(p) \in SUBSET Marcos
      BY <2>1, <2>3
    <3> HIDE DEF M
    <3> QED BY <3>1, <2>4, <1>0, UnMarcoMenos
  <2>6. \A q \in Procesos : Cardinality({g \in Marcos : lista_de_marcos'[g] = q})
                               <= MarcosPorProceso
    <3>1. ASSUME NEW q \in Procesos
          PROVE  Cardinality({g \in Marcos : lista_de_marcos'[g] = q}) <= MarcosPorProceso
      <4> DEFINE N == {g \in Marcos : lista_de_marcos'[g] = q}
      <4>1. M(q) \in SUBSET Marcos /\ N \in SUBSET M(q)
        BY <2>2
      <4> HIDE DEF M, N
      <4>2. Cardinality(N) <= MarcosPorProceso
        BY <4>1, <2>3, <1>0, AlgunosMarcos
      <4> QED BY <4>2 DEF N
    <3> QED BY <3>1
  <2>7. Cardinality({g \in Marcos : lista_de_marcos'[g] = p}) < MarcosPorProceso
    BY <2>1, <2>2, <2>5
  <2> QED BY <2>1, <2>6, <2>7 DEF IInvMarcos, MarcosAcotados, HayLugar, Cuenta
<1>4. CASE CargarPagina
  <2>1. UNCHANGED lista_de_marcos /\ atiende'.pid = atiende.pid
    BY <1>4 DEF CargarPagina, TypeOK, AtiendeOK, AtiendeTipo
  <2> QED BY <2>1, <1>4 DEF CargarPagina, IInvMarcos, MarcosAcotados, HayLugar, Cuenta
<1>5. CASE PresentarPagina
  <2> DEFINE p == atiende.pid
             f == atiende.marco
  <2>1. /\ p \in Procesos /\ f \in Marcos /\ lista_de_marcos[f] = Nadie
        /\ lista_de_marcos' = [lista_de_marcos EXCEPT ![f] = p]
        /\ atiende' = Ocioso
    BY <1>5, FaltaBien DEF PresentarPagina, TypeOK, AtiendeOK, FaltaEnCurso
  <2>2. \A q \in Procesos : {g \in Marcos : lista_de_marcos'[g] = q} =
           IF q = p THEN M(q) \cup {f} ELSE M(q)
    BY <2>1, MemoriaAssumption DEF TypeOK
  <2>3. Cardinality(M(p)) < MarcosPorProceso /\ M(p) \in SUBSET Marcos
    BY <1>5 DEF PresentarPagina, IInvMarcos, HayLugar, Cuenta
  <2>4. f \in Marcos
    BY <2>1
  <2>5. Cardinality(M(p) \cup {f}) <= MarcosPorProceso
    <3> HIDE DEF M, f
    <3> QED BY <2>3, <2>4, <1>0, UnMarcoMas
  <2>6. MarcosAcotados'
    BY <2>2, <2>5 DEF IInvMarcos, MarcosAcotados
  <2> QED BY <2>1, <2>6 DEF IInvMarcos, HayLugar, Ocioso
<1>6. ASSUME NEW p \in Procesos, AtenderLiberarEstructuras(p) PROVE IInvMarcos'
  <2>1. /\ lista_de_marcos' =
              [f \in Marcos |-> IF f \in MarcosLiberados(p) THEN Nadie ELSE lista_de_marcos[f]]
        /\ atiende = Ocioso /\ atiende' = Ocioso
    BY <1>6 DEF AtenderLiberarEstructuras
  <2>2. \A q \in Procesos : {g \in Marcos : lista_de_marcos'[g] = q} \subseteq M(q)
    BY <2>1, MemoriaAssumption
  <2>3. MarcosAcotados'
    <3>1. ASSUME NEW q \in Procesos
          PROVE  Cardinality({g \in Marcos : lista_de_marcos'[g] = q}) <= MarcosPorProceso
      <4> DEFINE N == {g \in Marcos : lista_de_marcos'[g] = q}
      <4>1. N \in SUBSET M(q) /\ M(q) \in SUBSET Marcos /\ N \in SUBSET Marcos
        BY <2>2
      <4>2. Cardinality(M(q)) <= MarcosPorProceso
        BY DEF IInvMarcos, MarcosAcotados
      <4> HIDE DEF N, M
      <4>3. Cardinality(N) <= MarcosPorProceso
        BY <4>1, <4>2, <1>0, AlgunosMarcos
      <4> QED BY <4>3 DEF N
    <3> QED BY <3>1 DEF MarcosAcotados
  <2> QED BY <2>1, <2>3 DEF IInvMarcos, HayLugar, Ocioso
<1>7. ASSUME NEW p \in Procesos, AtenderPedidoDeEstructuras(p) PROVE IInvMarcos'
  BY <1>1, <1>7 DEF AtenderPedidoDeEstructuras, Fallar
<1>8. CASE AtenderCpu
  BY <1>1, <1>8 DEF AtenderCpu, AtenderPedidoDeMarco, AtenderPedidoDeLectura,
                    AtenderPedidoDeEscritura, varsMemoria
<1>9. CASE CicloDeInstruccion
  BY <1>1, <1>9 DEF CicloDeInstruccion, Despachar, Decodificar, RecibirMarco, Desalojar,
                    Terminar, varsMemoria
<1>10. CASE UNCHANGED vars
  BY <1>1, <1>10 DEF vars, varsMemoria
<1> HIDE DEF M
<1> QED BY <1>2, <1>3, <1>4, <1>5, <1>6, <1>7, <1>8, <1>9, <1>10 DEF Next, AtenderKernel

\* MarcosAcotados: no process has more than MARCOS_POR_PROCESO frames, though the code
\* only compares the count with the limit for equality.
THEOREM MarcosSiempreAcotados == Spec => []MarcosAcotados
<1>1. Init => IInvMarcos
  <2> SUFFICES ASSUME Init PROVE IInvMarcos
    OBVIOUS
  <2>1. \A p \in Procesos : {f \in Marcos : lista_de_marcos[f] = p} = {}
    BY MemoriaAssumption DEF Init
  <2>2. \A p \in Procesos : Cardinality({f \in Marcos : lista_de_marcos[f] = p}) = 0
    BY <2>1, FS_EmptySet
  <2> QED BY <2>2, MemoriaAssumption DEF Init, IInvMarcos, MarcosAcotados, HayLugar, Ocioso
<1>2. IInvTablas /\ IInvMarcos /\ [Next]_vars => IInvMarcos'
  BY MarcosPaso
<1>3. IInvMarcos => MarcosAcotados
  BY DEF IInvMarcos
<1> QED BY <1>1, <1>2, <1>3, TablasInductivas, PTL DEF Spec

-----------------------------------------------------------------------------
(* The search for a victim ends *)

\* A round that ends nowhere looked at all its entries, and found none that can go.
LEMMA VueltaVana ==
    ASSUME NEW t \in [Paginas -> EntradaTipo], NEW c \in Paginas, NEW n,
           Vuelta(t, c, n).fin = Ninguna, NEW x \in Recorrido(c) \cap Paginas
    PROVE  /\ ~Elegible(t[x], n)
           /\ n = 2 /\ t[x].presencia => ~Vuelta(t, c, n).tabla[x].uso
           /\ ~t[x].uso => ~Vuelta(t, c, n).tabla[x].uso
<1> DEFINE lugares == {y \in Recorrido(c) : y \in Paginas => Elegible(t[y], n)}
           fin     == IF lugares = {} THEN Ninguna ELSE Primera(lugares)
           vistas  == {y \in Recorrido(c) \cap Paginas :
                          t[y].presencia /\ (fin = Ninguna \/ Antes(y, fin))}
           limpia  == AlgoritmoReemplazo = "CLOCK" \/ n = 2
           u       == [y \in Paginas |-> IF limpia /\ y \in vistas
                                         THEN [t[y] EXCEPT !.uso = FALSE] ELSE t[y]]
<1>1. Vuelta(t, c, n) = [fin |-> fin, tabla |-> u]
  BY DEF Vuelta
<1>2. fin = Ninguna /\ Vuelta(t, c, n).tabla = u
  BY <1>1
<1>3. lugares = {}
  <2>1. SUFFICES ASSUME lugares # {} PROVE FALSE
    OBVIOUS
  <2>2. lugares \in SUBSET (Nat \X Nat)
    BY TablasAssumption DEF Recorrido, Paginas
  <2>3. Primera(lugares) \in Nat \X Nat
    <3> HIDE DEF lugares
    <3> QED BY <2>1, <2>2, PrimeraEsta
  <2>4. fin = Primera(lugares)
    BY <2>1
  <2> HIDE DEF fin, lugares
  <2> QED BY <2>3, <2>4, <1>2 DEF Ninguna
<1>4. ~Elegible(t[x], n)
  BY <1>3
<1>5. u[x] = IF limpia /\ t[x].presencia THEN [t[x] EXCEPT !.uso = FALSE] ELSE t[x]
  <2>1. x \in vistas <=> t[x].presencia
    BY <1>2
  <2> HIDE DEF vistas, fin
  <2> QED BY <2>1
<1>6. t[x] \in EntradaTipo
  OBVIOUS
<1>7. u[x].uso = IF t[x].presencia /\ limpia THEN FALSE ELSE t[x].uso
  <2> HIDE DEF u, limpia
  <2> QED BY <1>5, <1>6 DEF EntradaTipo
<1> HIDE DEF u, fin, lugares, vistas
<1> QED BY <1>2, <1>4, <1>7

\* A search that ends nowhere leaves out only the last entries of the tables.
LEMMA BusquedaVana ==
    ASSUME NEW t \in [Paginas -> EntradaTipo], NEW c \in Paginas,
           Busqueda(t, c).fin = Ninguna, NEW x \in Paginas, t[x].presencia
    PROVE  x[2] = EntradasPorTabla - 1
<1> DEFINE v1 == Vuelta(t, c, 1)
           v2 == Vuelta(v1.tabla, Inicio, 2)
           v3 == Vuelta(v2.tabla, Inicio, 3)
           v4 == Vuelta(v3.tabla, Inicio, 4)
<1>1. SUFFICES ASSUME x[2] # EntradasPorTabla - 1 PROVE FALSE
  OBVIOUS
<1>2. Inicio \in Paginas /\ x \in Recorrido(Inicio) \cap Paginas
  BY <1>1, TablasAssumption DEF Inicio, Paginas, Recorrido
<1>3. v1.fin = Ninguna /\ v2.fin = Ninguna /\ v3.fin = Ninguna /\ v4.fin = Ninguna
  <2>1. Busqueda(t, c) = Otra(Otra(Otra(v1, 2), 3), 4)
    BY DEF Busqueda
  <2>2. ASSUME NEW v, NEW n, Otra(v, n).fin = Ninguna
        PROVE  v.fin = Ninguna /\ Otra(v, n) = Vuelta(v.tabla, Inicio, n)
    BY <2>2 DEF Otra
  <2>3. Otra(Otra(v1, 2), 3).fin = Ninguna
    BY <2>1, <2>2
  <2>4. Otra(v1, 2).fin = Ninguna
    BY <2>2, <2>3
  <2>5. v1.fin = Ninguna /\ Otra(v1, 2) = v2
    BY <2>2, <2>4
  <2>6. Otra(Otra(v1, 2), 3) = v3
    BY <2>2, <2>3, <2>5
  <2>7. Otra(Otra(Otra(v1, 2), 3), 4) = v4
    BY <2>1, <2>2, <2>6
  <2> QED BY <2>1, <2>3, <2>4, <2>5, <2>6, <2>7
<1>4. SoloUso(t, v1.tabla)
  BY VueltaBien
<1>5. SoloUso(v1.tabla, v2.tabla)
  BY <1>2, <1>4, VueltaBien DEF SoloUso
<1>6. SoloUso(v2.tabla, v3.tabla)
  BY <1>2, <1>5, VueltaBien DEF SoloUso
<1> HIDE DEF v1
<1>7. v2.tabla[x].presencia /\ ~v2.tabla[x].uso
  <2>1. v1.tabla[x].presencia /\ v1.tabla \in [Paginas -> EntradaTipo]
    BY <1>4 DEF SoloUso
  <2>2. ~v2.tabla[x].uso
    BY ONLY <2>1, <1>2, <1>3, VueltaVana
  <2>3. v2.tabla[x].presencia
    BY <2>1, <1>5 DEF SoloUso
  <2> QED BY <2>1, <2>2, <2>3
<1> HIDE DEF v2
<1>8. v2.tabla \in [Paginas -> EntradaTipo] /\ v3.tabla \in [Paginas -> EntradaTipo]
  BY <1>5, <1>6 DEF SoloUso
<1>9. ~Elegible(v2.tabla[x], 3) /\ ~v3.tabla[x].uso
  BY ONLY <1>2, <1>3, <1>7, <1>8, VueltaVana
<1>10. v3.tabla[x].presencia /\ v3.tabla[x].modificado = v2.tabla[x].modificado
  BY <1>6, <1>7 DEF SoloUso
<1> HIDE DEF v3
<1>11. ~Elegible(v3.tabla[x], 4)
  BY ONLY <1>2, <1>3, <1>8, VueltaVana
<1> QED BY <1>7, <1>9, <1>10, <1>11, AlgoritmoReemplazoAssumption DEF Elegible

IInvVictima == FallaSinFalta /\ VictimaSalvoUltimas

LEMMA VictimaPaso ==
    ASSUME IInvTablas, IInvVictima, [Next]_vars
    PROVE  IInvVictima'
<1>1. CASE falla = "ninguna"
  <2>1. ASSUME NEW p \in Procesos, AtenderPedidoDePaginaFault(p), falla' = "sin_victima"
        PROVE  /\ UNCHANGED <<proceso, tabla, lista_de_marcos>>
               /\ proceso[p] = "fault" /\ SinMarcosPropios(p)
               /\ Busqueda(tabla[p], cursores[p]).fin = Ninguna
    BY <1>1, <2>1 DEF AtenderPedidoDePaginaFault, Fallar
  <2>2. ASSUME NEW p \in Procesos, AtenderPedidoDePaginaFault(p), falla' = "sin_victima"
        PROVE  VictimaSalvoUltimas'
    <3>1. tabla[p] \in [Paginas -> EntradaTipo] /\ cursores[p] \in Paginas
      BY DEF IInvTablas, TypeOK
    <3>2. \A x \in Paginas : tabla[p][x].presencia => x[2] = EntradasPorTabla - 1
      BY <2>1, <2>2, <3>1, BusquedaVana
    <3>3. UNCHANGED <<proceso, tabla, lista_de_marcos>>
          /\ proceso[p] = "fault" /\ SinMarcosPropios(p)
      BY <2>1, <2>2
    <3>4. SinMarcosPropios(p)' /\ Presentes(p)' = Presentes(p)
      BY <3>3 DEF SinMarcosPropios, Presentes
    <3>5. \A x \in Presentes(p)' : x[2] = EntradasPorTabla - 1
      BY <3>2, <3>4 DEF Presentes
    <3> QED BY <3>3, <3>4, <3>5 DEF VictimaSalvoUltimas
  <2>3. \/ falla' = "ninguna"
        \/ atiende = Ocioso /\ atiende' = Ocioso
    BY <1>1 DEF Next, vars, varsMemoria, AtenderKernel, AtenderPedidoDeEstructuras,
                AtenderPedidoDePaginaFault, AtenderLiberarEstructuras, RajarPagina,
                CargarPagina, PresentarPagina, Fallar, AtenderCpu, AtenderPedidoDeMarco,
                AtenderPedidoDeLectura, AtenderPedidoDeEscritura, CicloDeInstruccion,
                Despachar, Decodificar, RecibirMarco, Desalojar, Terminar
  <2>4. falla' = "sin_victima" => \E p \in Procesos : AtenderPedidoDePaginaFault(p)
    BY <1>1 DEF Next, vars, varsMemoria, AtenderKernel, AtenderPedidoDeEstructuras,
                AtenderLiberarEstructuras, RajarPagina,
                CargarPagina, PresentarPagina, Fallar, AtenderCpu, AtenderPedidoDeMarco,
                AtenderPedidoDeLectura, AtenderPedidoDeEscritura, CicloDeInstruccion,
                Despachar, Decodificar, RecibirMarco, Desalojar, Terminar
  <2> QED BY <2>2, <2>3, <2>4 DEF IInvVictima, FallaSinFalta, VictimaSalvoUltimas
<1>2. CASE falla # "ninguna"
  <2>1. atiende = Ocioso
    BY <1>2 DEF IInvVictima, FallaSinFalta
  <2>2. AtenderCpu \/ CicloDeInstruccion \/ UNCHANGED vars
    BY <1>2, <2>1 DEF Next, AtenderKernel, AtenderPedidoDeEstructuras,
                      AtenderPedidoDePaginaFault, AtenderLiberarEstructuras, RajarPagina,
                      CargarPagina, PresentarPagina, Ocioso
  <2>3. UNCHANGED <<falla, atiende, lista_de_marcos>>
    BY <2>2 DEF AtenderCpu, AtenderPedidoDeMarco, AtenderPedidoDeLectura,
                AtenderPedidoDeEscritura, CicloDeInstruccion, Despachar, Decodificar,
                RecibirMarco, Desalojar, Terminar, vars, varsMemoria
  <2>4. ASSUME NEW p \in Procesos, proceso[p] = "fault"
        PROVE  proceso'[p] = "fault" /\ tabla'[p] = tabla[p]
    <3>1. cpu.pid # p /\ proceso \in [Procesos -> {"nuevo", "listo", "cpu", "fault",
                                                   "terminado", "fin"}]
          /\ tabla \in [Procesos -> [Paginas -> EntradaTipo]]
      BY <2>4 DEF IInvTablas, TypeOK, CpuOK
    <3>2. CASE UNCHANGED <<proceso, tabla>>
      BY <3>2, <2>4
    <3>3. CASE AtenderPedidoDeLectura \/ AtenderPedidoDeEscritura
      BY <3>1, <3>3, <2>4 DEF AtenderPedidoDeLectura, AtenderPedidoDeEscritura
    <3>4. CASE CicloDeInstruccion
      BY <3>1, <3>4, <2>4 DEF CicloDeInstruccion, Despachar, Decodificar, RecibirMarco,
                              Desalojar, Terminar, varsMemoria
    <3> QED BY <3>2, <3>3, <3>4, <2>2 DEF AtenderCpu, AtenderPedidoDeMarco, vars, varsMemoria
  <2>5. FallaSinFalta'
    BY <2>1, <2>3 DEF FallaSinFalta
  <2>6. VictimaSalvoUltimas'
    BY <2>3, <2>4 DEF IInvVictima, VictimaSalvoUltimas, SinMarcosPropios, Presentes
  <2> QED BY <2>5, <2>6 DEF IInvVictima
<1> QED BY <1>1, <1>2

\* VictimaSalvoUltimas: obtener_victima_a_reemplazar goes round for ever only if every
\* page its process has in memory is the last of its table.
THEOREM VictimaSiempreSalvoUltimas == Spec => []VictimaSalvoUltimas
<1>1. Init => IInvVictima
  BY DEF Init, IInvVictima, FallaSinFalta, VictimaSalvoUltimas
<1>2. IInvTablas /\ IInvVictima /\ [Next]_vars => IInvVictima'
  BY VictimaPaso
<1>3. IInvVictima => VictimaSalvoUltimas
  BY DEF IInvVictima
<1> QED BY <1>1, <1>2, <1>3, TablasInductivas, PTL DEF Spec

-----------------------------------------------------------------------------
(* The frames and slots are enough *)

\* The place of each element of a finite set in a total order R of it.
Rango(S, R) == [x \in S |-> Cardinality({y \in S : <<y, x>> \in R})]

LEMMA RangoBien ==
    ASSUME NEW S, IsFiniteSet(S), NEW R,
           \A x \in S : <<x, x>> \notin R,
           \A x, y, z \in S : <<x, y>> \in R /\ <<y, z>> \in R => <<x, z>> \in R,
           \A x, y \in S : x = y \/ <<x, y>> \in R \/ <<y, x>> \in R
    PROVE  /\ Cardinality(S) \in Nat
           /\ \A x \in S : Rango(S, R)[x] \in 0..(Cardinality(S) - 1)
           /\ \A x, y \in S : <<x, y>> \in R <=> Rango(S, R)[x] < Rango(S, R)[y]
           /\ \A x, y \in S : Rango(S, R)[x] = Rango(S, R)[y] => x = y
           /\ \A i \in 0..(Cardinality(S) - 1) : \E x \in S : Rango(S, R)[x] = i
<1> DEFINE Menores(x) == {y \in S : <<y, x>> \in R}
           n == Cardinality(S)
           r == Rango(S, R)
<1>1. n \in Nat
  BY FS_CardinalityType
<1>2. ASSUME NEW x \in S PROVE IsFiniteSet(Menores(x)) /\ r[x] = Cardinality(Menores(x)) /\ r[x] \in 0..(n - 1)
  <2>1. Menores(x) \in SUBSET (S \ {x})
    OBVIOUS
  <2>2. r[x] = Cardinality(Menores(x))
    BY DEF Rango
  <2> HIDE DEF Menores
  <2>3. IsFiniteSet(S \ {x}) /\ Cardinality(S \ {x}) = n - 1
    BY FS_RemoveElement
  <2>4. IsFiniteSet(Menores(x)) /\ Cardinality(Menores(x)) <= n - 1 /\ Cardinality(Menores(x)) \in Nat
    BY <2>1, <2>3, FS_Subset, FS_CardinalityType
  <2> HIDE DEF r, n
  <2> QED BY <1>1, <2>2, <2>4
<1>3. ASSUME NEW x \in S, NEW y \in S, <<x, y>> \in R PROVE r[x] < r[y]
  <2>1. Menores(x) \in SUBSET (Menores(y) \ {x}) /\ x \in Menores(y)
    BY <1>3
  <2>2. IsFiniteSet(Menores(y)) /\ r[y] = Cardinality(Menores(y)) /\ r[x] = Cardinality(Menores(x))
    BY <1>2
  <2> HIDE DEF Menores
  <2>3. IsFiniteSet(Menores(y) \ {x}) /\ Cardinality(Menores(y) \ {x}) = Cardinality(Menores(y)) - 1
    BY <2>1, <2>2, FS_RemoveElement
  <2>4. Cardinality(Menores(x)) <= Cardinality(Menores(y)) - 1
    BY <2>1, <2>3, FS_Subset
  <2>5. r[x] \in 0..(n - 1) /\ r[y] \in 0..(n - 1)
    BY <1>2
  <2> HIDE DEF r, n
  <2> QED BY <1>1, <2>2, <2>4, <2>5
<1>4. (\A x \in S : r[x] \in 0..(n - 1)) /\ (\A x, y \in S : <<x, y>> \in R => r[x] < r[y])
  BY <1>2, <1>3
<1>5. /\ \A x, y \in S : <<x, y>> \in R <=> r[x] < r[y]
      /\ \A x, y \in S : r[x] = r[y] => x = y
  <2>1. \A x, y \in S : x = y \/ <<x, y>> \in R \/ <<y, x>> \in R
    OBVIOUS
  <2>2. \A x \in S : <<x, x>> \notin R
    OBVIOUS
  <2> HIDE DEF r, n
  <2>3. \A x \in S : r[x] \in Int
    BY <1>1, <1>4
  <2>4. ASSUME NEW x \in S, NEW y \in S
        PROVE  (<<x, y>> \in R <=> r[x] < r[y]) /\ (r[x] = r[y] => x = y)
    <3>1. <<x, y>> \in R => r[x] < r[y]
      BY <1>4
    <3>2. <<y, x>> \in R => r[y] < r[x]
      BY <1>4
    <3>3. r[x] \in Int /\ r[y] \in Int
      BY <2>3
    <3>4. x = y \/ <<x, y>> \in R \/ <<y, x>> \in R
      BY <2>1
    <3> QED BY <3>1, <3>2, <3>3, <3>4
  <2> QED BY <2>4
<1>7. \A i \in 0..(n - 1) : \E x \in S : r[x] = i
  <2>1. r \in [S -> 0..(n - 1)]
    <3>1. r = [x \in S |-> r[x]]
      BY DEF Rango
    <3> HIDE DEF r, n
    <3> QED BY <1>2, <3>1
  <2> HIDE DEF r
  <2>2. r \in Injection(S, 0..(n - 1))
    BY <1>5, <2>1 DEF Injection, IsInjective
  <2>3. IsFiniteSet(0..(n - 1)) /\ Cardinality(0..(n - 1)) = n
    <3>1. 0 \in Int /\ n - 1 \in Int /\ n \in Nat
      BY <1>1
    <3> HIDE DEF n
    <3>2. Cardinality(0..(n - 1)) = IF 0 > n - 1 THEN 0 ELSE (n - 1) - 0 + 1
      BY <3>1, FS_Interval
    <3> QED BY <3>1, <3>2, FS_Interval
  <2>4. r \in Surjection(S, 0..(n - 1))
    BY <2>2, <2>3, FS_Injection
  <2> QED BY <2>4 DEF Surjection
<1> HIDE DEF r
<1> QED BY <1>1, <1>4, <1>5, <1>7 DEF r

\* obtener_posicion_libre_swap finds a slot for every page if there are enough.
LEMMA HayReparto ==
    ASSUME IsFiniteSet(Libres(lista_de_marcos_swap)), Libres(lista_de_marcos_swap) \subseteq Nat,
           Cardinality(Paginas) <= Cardinality(Libres(lista_de_marcos_swap))
    PROVE  Repartos # {}
<1> DEFINE L == Libres(lista_de_marcos_swap)
           RP == {z \in Paginas \X Paginas : Antes(z[1], z[2])}
           RL == {z \in L \X L : z[1] < z[2]}
           f == Rango(Paginas, RP)
           g == Rango(L, RL)
           n == Cardinality(Paginas)
           m == Cardinality(L)
<1>1. /\ n \in Nat /\ \A x \in Paginas : f[x] \in 0..(n - 1)
      /\ \A x, y \in Paginas : Antes(x, y) <=> f[x] < f[y]
      /\ \A i \in 0..(n - 1) : \E x \in Paginas : f[x] = i
  <2>1. \A x, y \in Paginas : <<x, y>> \in RP <=> Antes(x, y)
    OBVIOUS
  <2>2. \A x \in Paginas : x[1] \in Int /\ x[2] \in Int
    BY TablasAssumption DEF Paginas
  <2>3. \A x \in Paginas : ~Antes(x, x)
    BY <2>2 DEF Antes
  <2>4. \A x, y, z \in Paginas : Antes(x, y) /\ Antes(y, z) => Antes(x, z)
    BY <2>2 DEF Antes
  <2>5. \A x, y \in Paginas : x = y \/ Antes(x, y) \/ Antes(y, x)
    BY AntesTotal
  <2> HIDE DEF RP
  <2>6. \A x \in Paginas : <<x, x>> \notin RP
    BY <2>1, <2>3
  <2>7. \A x, y, z \in Paginas : <<x, y>> \in RP /\ <<y, z>> \in RP => <<x, z>> \in RP
    BY <2>1, <2>4
  <2>8. \A x, y \in Paginas : x = y \/ <<x, y>> \in RP \/ <<y, x>> \in RP
    BY <2>1, <2>5
  <2>9. /\ n \in Nat /\ \A x \in Paginas : f[x] \in 0..(n - 1)
        /\ \A x, y \in Paginas : <<x, y>> \in RP <=> f[x] < f[y]
        /\ \A i \in 0..(n - 1) : \E x \in Paginas : f[x] = i
    BY <2>6, <2>7, <2>8, PaginasFinitas, RangoBien
  <2> HIDE DEF f, n
  <2> QED BY <2>1, <2>9
<1>2. /\ m \in Nat /\ \A s \in L : g[s] \in 0..(m - 1)
      /\ \A s, t \in L : s < t <=> g[s] < g[t]
      /\ \A s, t \in L : g[s] = g[t] => s = t
      /\ \A i \in 0..(m - 1) : \E s \in L : g[s] = i
  <2>1. \A s, t \in L : <<s, t>> \in RL <=> s < t
    OBVIOUS
  <2>2. \A s \in L : s \in Nat
    OBVIOUS
  <2> HIDE DEF RL
  <2> HIDE DEF L
  <2>6. \A x \in L : <<x, x>> \notin RL
    BY <2>1, <2>2
  <2>7. \A x, y, z \in L : <<x, y>> \in RL /\ <<y, z>> \in RL => <<x, z>> \in RL
    BY <2>1, <2>2
  <2>8. \A x, y \in L : x = y \/ <<x, y>> \in RL \/ <<y, x>> \in RL
    <3>1. \A x, y \in L : x = y \/ x < y \/ y < x
      BY <2>2
    <3> QED BY <2>1, <3>1
  <2>9. IsFiniteSet(L)
    BY DEF L
  <2>10. /\ m \in Nat /\ \A s \in L : g[s] \in 0..(m - 1)
         /\ \A s, t \in L : <<s, t>> \in RL <=> g[s] < g[t]
         /\ \A s, t \in L : g[s] = g[t] => s = t
         /\ \A i \in 0..(m - 1) : \E s \in L : g[s] = i
    BY <2>6, <2>7, <2>8, <2>9, RangoBien
  <2> HIDE DEF g, m
  <2> QED BY <2>1, <2>10
<1>3. n <= m
  OBVIOUS
<1>4. L \subseteq Nat
  OBVIOUS
<1> HIDE DEF f, g, n, m, RP, RL
<1>5. \A x \in Paginas : \E s \in L : g[s] = f[x]
  <2> SUFFICES ASSUME NEW x \in Paginas PROVE \E s \in L : g[s] = f[x]
    OBVIOUS
  <2>1. f[x] \in 0..(n - 1)
    BY <1>1
  <2>2. f[x] \in 0..(m - 1)
    BY <1>1, <1>2, <1>3, <2>1
  <2> QED BY <1>2, <2>2
<1> DEFINE pos == [x \in Paginas |-> CHOOSE s \in L : g[s] = f[x]]
<1>6. pos \in [Paginas -> L] /\ \A x \in Paginas : pos[x] \in L /\ g[pos[x]] = f[x]
  <2> HIDE DEF L
  <2>1. ASSUME NEW x \in Paginas PROVE pos[x] \in L /\ g[pos[x]] = f[x]
    BY <1>5
  <2> QED BY <2>1
<1> HIDE DEF pos
<1>7. \A x, y \in Paginas : Antes(x, y) => pos[x] < pos[y]
  <2> SUFFICES ASSUME NEW x \in Paginas, NEW y \in Paginas, Antes(x, y) PROVE pos[x] < pos[y]
    OBVIOUS
  <2>1. f[x] < f[y]
    BY <1>1
  <2>2. pos[x] \in L /\ pos[y] \in L /\ g[pos[x]] < g[pos[y]]
    BY <1>6, <2>1
  <2> HIDE DEF L
  <2> QED BY <1>2, <2>2
<1>8. \A s \in L, x \in Paginas : s < pos[x] => \E y \in Paginas : pos[y] = s
  <2> SUFFICES ASSUME NEW s \in L, NEW x \in Paginas, s < pos[x] PROVE \E y \in Paginas : pos[y] = s
    OBVIOUS
  <2>1. pos[x] \in L /\ g[pos[x]] = f[x]
    BY <1>6
  <2>2. g[s] < f[x] /\ g[s] \in 0..(m - 1) /\ f[x] \in 0..(n - 1)
    <3> HIDE DEF L
    <3> QED BY <1>1, <1>2, <2>1
  <2>3. g[s] \in 0..(n - 1)
    BY <1>1, <1>2, <2>2
  <2>4. PICK y \in Paginas : f[y] = g[s]
    BY <1>1, <2>3
  <2>5. pos[y] \in L /\ g[pos[y]] = g[s]
    BY <1>6, <2>4
  <2>6. pos[y] = s
    <3> HIDE DEF L
    <3> QED BY <1>2, <2>5
  <2> QED BY <2>6
<1>9. pos \in Repartos
  BY <1>6, <1>7, <1>8 DEF Repartos
<1> QED BY <1>9

LEMMA ProductoMonotono ==
    ASSUME NEW a \in Nat, NEW g \in Nat, NEW m \in Nat, a <= g
    PROVE  a * m \in Nat /\ g * m \in Nat /\ a * m <= g * m
<1> DEFINE d == g - a
<1>1. d \in Nat /\ g = a + d
  OBVIOUS
<1> HIDE DEF d
<1>2. g * m = a * m + d * m /\ d * m \in Nat /\ a * m \in Nat
  BY <1>1, SMT
<1> QED BY <1>2

LEMMA ActivosFinitos == IsFiniteSet(Activos) /\ Cardinality(Activos) \in Nat
<1>1. Activos \in SUBSET Procesos
  BY DEF Activos
<1> QED BY <1>1, MemoriaAssumption, FS_Subset, FS_CardinalityType

\* Every process with structures holds a slot per page, and nobody else holds any: with
\* one process to go, there are slots for it.
LEMMA HayPosiciones ==
    ASSUME IInvTablas, Cardinality(Activos) < Grado, Grado * Cardinality(Paginas) <= CantSwap
    PROVE  Repartos # {}
<1> DEFINE O == {s \in Posiciones : lista_de_marcos_swap[s] # Nadie}
           L == Libres(lista_de_marcos_swap)
           n == Cardinality(Paginas)
           a == Cardinality(Activos)
           de == [z \in Activos \X Paginas |-> tabla[z[1]][z[2]].posicion_swap]
<1>1. a \in Nat /\ n \in Nat /\ IsFiniteSet(Activos) /\ IsFiniteSet(Paginas) /\ Grado \in Nat
      /\ CantSwap \in Nat \ {0}
  BY ActivosFinitos, PaginasFinitas, FS_CardinalityType, MemoriaAssumption
<1>2. de \in Surjection(Activos \X Paginas, O)
  <2>1. ASSUME NEW p \in Activos, NEW x \in Paginas
        PROVE  tabla[p][x].posicion_swap \in O
    BY MemoriaAssumption DEF IInvTablas, PosicionesPropias, Activos
  <2>2. ASSUME NEW s \in O
        PROVE  \E z \in Activos \X Paginas : tabla[z[1]][z[2]].posicion_swap = s
    <3>1. PICK x \in Paginas : tabla[lista_de_marcos_swap[s]][x].posicion_swap = s
      BY DEF IInvTablas, PosicionesConEntrada
    <3>2. <<lista_de_marcos_swap[s], x>> \in Activos \X Paginas
      BY DEF IInvTablas, PosicionesConEntrada
    <3> QED BY <3>1, <3>2
  <2> HIDE DEF O
  <2>3. de \in [Activos \X Paginas -> O]
    BY <2>1
  <2>4. \A s \in O : \E z \in Activos \X Paginas : de[z] = s
    BY <2>2
  <2> QED BY <2>3, <2>4 DEF Surjection
<1>3. IsFiniteSet(O) /\ Cardinality(O) <= a * n /\ Cardinality(O) \in Nat
  <2>1. IsFiniteSet(Activos \X Paginas) /\ Cardinality(Activos \X Paginas) = a * n
    BY <1>1, FS_Product
  <2> HIDE DEF O, de, a, n
  <2>2. IsFiniteSet(O) /\ Cardinality(O) <= a * n
    BY <1>2, <2>1, FS_Surjection
  <2> QED BY <2>2, FS_CardinalityType
<1>4. IsFiniteSet(Posiciones) /\ Cardinality(Posiciones) = CantSwap
  <2>1. 0 \in Int /\ CantSwap - 1 \in Int /\ ~(0 > CantSwap - 1) /\ (CantSwap - 1) - 0 + 1 = CantSwap
    BY <1>1
  <2>2. Cardinality(0..(CantSwap - 1)) = IF 0 > CantSwap - 1 THEN 0 ELSE (CantSwap - 1) - 0 + 1
    BY <2>1, FS_Interval
  <2> QED BY <2>1, <2>2, FS_Interval DEF Posiciones
<1>5. L = Posiciones \ O /\ Posiciones \cap O = O
  BY DEF IInvTablas, TypeOK, Libres
<1>6. IsFiniteSet(L) /\ Cardinality(L) = CantSwap - Cardinality(O)
  <2> HIDE DEF L, O
  <2>1. IsFiniteSet(Posiciones \ O)
        /\ Cardinality(Posiciones \ O) = Cardinality(Posiciones) - Cardinality(Posiciones \cap O)
    BY ONLY <1>4, FS_Difference
  <2> QED BY ONLY <1>4, <1>5, <2>1
<1>7. n <= Cardinality(L)
  <2>1. a + 1 <= Grado /\ Grado * n <= CantSwap
    BY <1>1, MemoriaAssumption
  <2> HIDE DEF a, n, L, O
  <2>2. (a + 1) * n <= Grado * n /\ (a + 1) * n = a * n + n /\ a * n \in Nat /\ Grado * n \in Nat
    <3>1. a + 1 \in Nat /\ (a + 1) * n = a * n + n
      BY <1>1, SMT
    <3> QED BY <1>1, <2>1, <3>1, ProductoMonotono
  <2> QED BY <1>1, <1>3, <1>6, <2>1, <2>2
<1>8. L \subseteq Nat
  BY <1>5 DEF Posiciones
<1> QED BY <1>6, <1>7, <1>8, HayReparto

\* At most n frames, told one by one.
LEMMA Contados ==
    ASSUME NEW S \in SUBSET Marcos, NEW n \in Nat, Cardinality(S) <= n
    PROVE  \E h \in [1..n -> Marcos] : \A f \in S : \E i \in 1..n : h[i] = f
<1> DEFINE k == Cardinality(S)
<1>1. k \in Nat /\ ExistsBijection(1..k, S)
  BY MarcosFinitos, FS_CardinalityType
<1>2. PICK b \in [1..k -> S] : \A f \in S : \E i \in 1..k : b[i] = f
  BY <1>1 DEF ExistsBijection, Bijection, Surjection
<1>3. k <= n
  OBVIOUS
<1>4. 0 \in Marcos
  BY MemoriaAssumption DEF Marcos
<1> HIDE DEF k
<1> DEFINE h == [i \in 1..n |-> IF i \in 1..k THEN b[i] ELSE 0]
<1>5. h \in [1..n -> Marcos]
  BY <1>2, <1>4
<1>6. ASSUME NEW f \in S PROVE \E i \in 1..n : h[i] = f
  <2>1. PICK i \in 1..k : b[i] = f
    BY <1>2
  <2>2. i \in 1..n
    BY <1>1, <1>3
  <2> QED BY <2>1, <2>2
<1> QED BY <1>5, <1>6

\* The process of a page fault has a frame less than it may have, the others at most all
\* theirs: the frames given do not reach Grado * MarcosPorProceso.
LEMMA HayMarco ==
    ASSUME IInvTablas, MarcosAcotados, GradoDeActivos, NEW p \in Activos,
           Cuenta(p) < MarcosPorProceso, Grado * MarcosPorProceso <= CantMarcos
    PROVE  Libres(lista_de_marcos) # {}
<1> SUFFICES ASSUME Libres(lista_de_marcos) = {} PROVE FALSE
  OBVIOUS
<1> DEFINE M(q) == {f \in Marcos : lista_de_marcos[f] = q}
           m == MarcosPorProceso
           a == Cardinality(Activos)
           k(q) == IF q = p THEN m - 1 ELSE m
           Cubre(h, q) == \A f \in M(q) : \E i \in 1..k(q) : h[i] = f
           hh == [q \in Activos |-> CHOOSE h \in [1..k(q) -> Marcos] : Cubre(h, q)]
           D == (Activos \X (1..m)) \ {<<p, m>>}
           F == [z \in D |-> IF z[2] \in 1..k(z[1]) THEN hh[z[1]][z[2]] ELSE 0]
<1>1. /\ m \in Nat \ {0} /\ a \in Nat /\ IsFiniteSet(Activos) /\ a <= Grado /\ Grado \in Nat
      /\ CantMarcos \in Nat \ {0}
  BY ActivosFinitos, MemoriaAssumption DEF GradoDeActivos
<1>2. \A f \in Marcos : lista_de_marcos[f] \in Activos /\ f \in M(lista_de_marcos[f])
  BY DEF IInvTablas, TypeOK, Libres, MarcosConEntrada
<1>3. \A q \in Activos : k(q) \in Nat /\ k(q) <= m /\ (q = p => k(q) < m)
  BY <1>1
<1>4. ASSUME NEW q \in Activos PROVE hh[q] \in [1..k(q) -> Marcos] /\ Cubre(hh[q], q)
  <2>1. M(q) \in SUBSET Marcos /\ Cardinality(M(q)) \in Nat
    BY MarcosFinitos
  <2>2. Cardinality(M(q)) <= m /\ (q = p => Cardinality(M(q)) < m)
    BY DEF MarcosAcotados, Activos, Cuenta
  <2>3. Cardinality(M(q)) <= k(q)
    <3> HIDE DEF M
    <3> QED BY <1>1, <2>1, <2>2
  <2>4. k(q) \in Nat
    BY <1>3
  <2>5. \E h \in [1..k(q) -> Marcos] : Cubre(h, q)
    <3> HIDE DEF M, k
    <3> QED BY <2>1, <2>3, <2>4, Contados
  <2> HIDE DEF Cubre, k
  <2> QED BY <2>5
<1>5. 0 \in Marcos
  BY <1>1 DEF Marcos
<1>6. F \in Surjection(D, Marcos)
  <2> HIDE DEF hh
  <2>1. F \in [D -> Marcos]
    <3>1. ASSUME NEW z \in D PROVE (IF z[2] \in 1..k(z[1]) THEN hh[z[1]][z[2]] ELSE 0) \in Marcos
      <4>1. z[1] \in Activos
        OBVIOUS
      <4>2. hh[z[1]] \in [1..k(z[1]) -> Marcos]
        BY <4>1, <1>4
      <4> HIDE DEF k, D
      <4> QED BY <4>2, <1>5
    <3> HIDE DEF k, D
    <3> QED BY <3>1
  <2>2. ASSUME NEW f \in Marcos PROVE \E z \in D : F[z] = f
    <3> DEFINE q == lista_de_marcos[f]
    <3>1. q \in Activos /\ f \in M(q)
      BY <1>2
    <3> HIDE DEF q
    <3>2. PICK i \in 1..k(q) : hh[q][i] = f
      <4>1. Cubre(hh[q], q)
        BY <3>1, <1>4
      <4> HIDE DEF M, k
      <4> QED BY <3>1, <4>1
    <3>3. <<q, i>> \in D
      <4>1. k(q) \in Nat /\ k(q) <= m /\ (q = p => k(q) < m)
        BY <1>3, <3>1
      <4> HIDE DEF k
      <4>2. i \in Nat /\ i >= 1 /\ i <= m /\ (q = p => i < m)
        BY <1>1, <4>1
      <4> QED BY <1>1, <3>1, <4>2
    <3> DEFINE z == <<q, i>>
    <3>4. z \in D /\ z[1] = q /\ z[2] = i
      BY <3>3
    <3> HIDE DEF z, D, k
    <3> QED BY <3>2, <3>4
  <2> HIDE DEF F, D
  <2> QED BY <2>1, <2>2 DEF Surjection
<1>7. IsFiniteSet(D) /\ Cardinality(D) = a * m - 1
  <2>1. 0 \in Int /\ 1 \in Int /\ m \in Int /\ ~(1 > m) /\ m - 1 + 1 = m
    BY <1>1
  <2>2. IsFiniteSet(1..m) /\ Cardinality(1..m) = m
    <3>1. Cardinality(1..m) = IF 1 > m THEN 0 ELSE m - 1 + 1
      BY <2>1, FS_Interval
    <3> QED BY <2>1, <3>1, FS_Interval
  <2>3. IsFiniteSet(Activos \X (1..m)) /\ Cardinality(Activos \X (1..m)) = a * m
    BY <1>1, <2>2, FS_Product
  <2>4. <<p, m>> \in Activos \X (1..m)
    BY <1>1
  <2> HIDE DEF a
  <2> QED BY <2>3, <2>4, FS_RemoveElement
<1>8. IsFiniteSet(Marcos) /\ Cardinality(Marcos) = CantMarcos
  <2>1. 0 \in Int /\ CantMarcos - 1 \in Int /\ ~(0 > CantMarcos - 1)
        /\ (CantMarcos - 1) - 0 + 1 = CantMarcos
    BY <1>1
  <2>2. Cardinality(0..(CantMarcos - 1)) = IF 0 > CantMarcos - 1 THEN 0 ELSE (CantMarcos - 1) - 0 + 1
    BY <2>1, FS_Interval
  <2> QED BY <2>1, <2>2, FS_Interval DEF Marcos
<1>9. CantMarcos <= a * m - 1
  <2> HIDE DEF F, D, a
  <2> QED BY <1>6, <1>7, <1>8, FS_Surjection
<1>10. a * m <= Grado * m /\ a * m \in Nat /\ Grado * m \in Nat /\ Grado * m <= CantMarcos
  <2>1. Grado * m <= CantMarcos
    OBVIOUS
  <2> HIDE DEF a, m
  <2> QED BY <1>1, <2>1, ProductoMonotono
<1> HIDE DEF a, m
<1> QED BY <1>1, <1>9, <1>10

LEMMA RecursosPaso ==
    ASSUME IInvTablas, MarcosAcotados, IInvRecursos, [Next]_vars
    PROVE  IInvRecursos'
<1>0. IsFiniteSet(Activos) /\ Cardinality(Activos) \in Nat /\ Grado \in Nat
  BY ActivosFinitos, MemoriaAssumption
<1>1. ASSUME Activos' \in SUBSET Activos, UNCHANGED falla PROVE IInvRecursos'
  <2>1. IsFiniteSet(Activos') /\ Cardinality(Activos') <= Cardinality(Activos)
    BY <1>0, <1>1, FS_Subset
  <2>2. Cardinality(Activos') \in Nat
    BY <2>1, FS_CardinalityType
  <2>3. Cardinality(Activos) <= Grado
    BY DEF IInvRecursos, GradoDeActivos
  <2>4. Cardinality(Activos') <= Grado
    BY <1>0, <2>1, <2>2, <2>3
  <2>5. GradoDeActivos'
    BY <2>4 DEF GradoDeActivos
  <2> QED BY <1>1, <2>5 DEF IInvRecursos, RecursosSuficientes
<1>2. ASSUME UNCHANGED proceso,
             UNCHANGED falla \/ falla' \notin {"sin_marco", "sin_swap"}
      PROVE  IInvRecursos'
  <2>1. Activos' = Activos
    BY <1>2 DEF Activos
  <2>2. GradoDeActivos'
    BY <2>1 DEF IInvRecursos, GradoDeActivos
  <2> QED BY <1>2, <2>2 DEF IInvRecursos, RecursosSuficientes
<1>3. ASSUME NEW p \in Procesos, AtenderPedidoDeEstructuras(p) PROVE IInvRecursos'
  <2>1. Cardinality(Activos) < Grado /\ falla = "ninguna"
    BY <1>3 DEF AtenderPedidoDeEstructuras
  <2>2. CASE Repartos = {} /\ Fallar("sin_swap")
    <3>1. ~(Grado * Cardinality(Paginas) <= CantSwap)
      BY <2>1, <2>2, HayPosiciones
    <3>2. Activos' = Activos /\ falla' = "sin_swap"
      BY <2>2 DEF Fallar, Activos
    <3>3. GradoDeActivos'
      BY <3>2 DEF IInvRecursos, GradoDeActivos
    <3> QED BY <3>1, <3>2, <3>3 DEF IInvRecursos, RecursosSuficientes
  <2>3. CASE proceso' = [proceso EXCEPT ![p] = "listo"] /\ UNCHANGED falla
    <3>1. Activos' \in SUBSET (Activos \cup {p})
      BY <2>3 DEF Activos, IInvTablas, TypeOK
    <3>2. IsFiniteSet(Activos \cup {p}) /\ Cardinality(Activos \cup {p}) <= Cardinality(Activos) + 1
      BY <1>0, FS_AddElement
    <3>3. IsFiniteSet(Activos') /\ Cardinality(Activos') <= Cardinality(Activos \cup {p})
      BY <3>1, <3>2, FS_Subset
    <3>4. Cardinality(Activos') \in Nat /\ Cardinality(Activos \cup {p}) \in Nat
      BY <3>2, <3>3, FS_CardinalityType
    <3>5. Cardinality(Activos') <= Grado
      BY <1>0, <2>1, <3>2, <3>3, <3>4
    <3>6. GradoDeActivos'
      BY <3>5 DEF GradoDeActivos
    <3> QED BY <2>3, <3>6 DEF IInvRecursos, RecursosSuficientes
  <2> QED BY <1>3, <2>2, <2>3 DEF AtenderPedidoDeEstructuras
<1>4. ASSUME NEW p \in Procesos, AtenderPedidoDePaginaFault(p) PROVE IInvRecursos'
  <2>1. /\ UNCHANGED proceso /\ proceso[p] = "fault"
        /\ \/ UNCHANGED falla
           \/ falla' \in {"sin_victima", "fuera_de_tabla"}
           \/ falla' = "sin_marco" /\ Libres(lista_de_marcos) = {} /\ ~SinMarcosPropios(p)
    BY <1>4 DEF AtenderPedidoDePaginaFault, Fallar
  <2>2. CASE falla' = "sin_marco" /\ Libres(lista_de_marcos) = {} /\ ~SinMarcosPropios(p)
    <3>1. p \in Activos
      BY <2>1 DEF Activos
    <3>2. Cuenta(p) < MarcosPorProceso
      <4>1. Cuenta(p) \in Nat /\ MarcosPorProceso \in Nat
        BY MarcosFinitos, MemoriaAssumption DEF Cuenta
      <4>2. Cuenta(p) <= MarcosPorProceso
        BY DEF MarcosAcotados, Cuenta
      <4>3. Cuenta(p) # MarcosPorProceso
        BY <2>2 DEF SinMarcosPropios, Cuenta
      <4> QED BY <4>1, <4>2, <4>3
    <3>3. ~(Grado * MarcosPorProceso <= CantMarcos)
      BY <2>2, <3>1, <3>2, HayMarco DEF IInvRecursos
    <3>4. Activos' = Activos
      BY <2>1 DEF Activos
    <3>5. GradoDeActivos'
      BY <3>4 DEF IInvRecursos, GradoDeActivos
    <3> QED BY <2>2, <3>3, <3>5 DEF IInvRecursos, RecursosSuficientes
  <2> QED BY <1>2, <2>1, <2>2
<1>5. ASSUME NEW p \in Procesos, AtenderLiberarEstructuras(p) PROVE IInvRecursos'
  <2>1. Activos' \in SUBSET Activos /\ UNCHANGED falla
    BY <1>5 DEF AtenderLiberarEstructuras, Activos, IInvTablas, TypeOK
  <2> QED BY <1>1, <2>1
<1>6. CASE RajarPagina \/ CargarPagina
  BY <1>2, <1>6 DEF RajarPagina, CargarPagina
<1>7. CASE PresentarPagina
  <2>1. /\ proceso' = [proceso EXCEPT ![atiende.pid] = "listo"] /\ UNCHANGED falla
        /\ proceso[atiende.pid] = "fault"
    BY <1>7 DEF PresentarPagina, IInvTablas, TypeOK, AtiendeOK
  <2>2. Activos' \in SUBSET Activos
    BY <2>1 DEF Activos, IInvTablas, TypeOK
  <2> QED BY <1>1, <2>1, <2>2
<1>8. CASE AtenderCpu
  BY <1>2, <1>8 DEF AtenderCpu, AtenderPedidoDeMarco, AtenderPedidoDeLectura,
                    AtenderPedidoDeEscritura, varsMemoria
<1>9. CASE CicloDeInstruccion
  <2>1. UNCHANGED falla
    BY <1>9 DEF CicloDeInstruccion, Despachar, Decodificar, RecibirMarco, Desalojar,
                Terminar, varsMemoria
  <2>2. \A p \in Procesos : proceso'[p] = proceso[p] \/ proceso[p] \in {"listo", "cpu"}
    BY <1>9 DEF CicloDeInstruccion, Despachar, Decodificar, RecibirMarco, Desalojar,
                Terminar, IInvTablas, TypeOK, CpuOK
  <2>3. Activos' \in SUBSET Activos
    BY <2>2 DEF Activos
  <2> QED BY <1>1, <2>1, <2>3
<1>10. CASE UNCHANGED vars
  BY <1>2, <1>10 DEF vars, varsMemoria
<1> QED BY <1>3, <1>4, <1>5, <1>6, <1>7, <1>8, <1>9, <1>10 DEF Next, AtenderKernel

\* RecursosSuficientes: with frames and slots for Grado processes, a page fault always
\* finds a free frame and a new process its slots.
THEOREM RecursosSiempreSuficientes == Spec => []RecursosSuficientes
<1>1. Init => IInvRecursos
  <2> SUFFICES ASSUME Init PROVE IInvRecursos
    OBVIOUS
  <2>1. Activos = {} /\ falla = "ninguna"
    BY DEF Init, Activos
  <2>2. Cardinality(Activos) <= Grado
    BY <2>1, FS_EmptySet, MemoriaAssumption
  <2> QED BY <2>1, <2>2 DEF IInvRecursos, GradoDeActivos, RecursosSuficientes
<1>2. IInvTablas /\ MarcosAcotados /\ IInvRecursos /\ [Next]_vars => IInvRecursos'
  BY RecursosPaso
<1>3. IInvRecursos => RecursosSuficientes
  BY DEF IInvRecursos
<1> QED BY <1>1, <1>2, <1>3, TablasInductivas, MarcosSiempreAcotados, PTL DEF Spec

-----------------------------------------------------------------------------
(* The data, with a TLB of one entry or none *)

LEMMA SinAccesoNoEs == SinAcceso \notin Accesos
BY DEF SinAcceso, Accesos

\* What actualizar_tlb leaves: the new entry and no other.
LEMMA ActualizarUnica ==
    ASSUME NEW t, \A c, d \in Claves(t) : c = d, EntradasTlb \in {0, 1},
           EntradasTlb = 0 => Claves(t) = {}, NEW k, NEW f
    PROVE  /\ \A c \in Claves(Actualizar(t, k, f)) : c = k /\ Actualizar(t, k, f).marco[c] = f
           /\ EntradasTlb = 0 => Claves(Actualizar(t, k, f)) = {}
<1>1. CASE EntradasTlb = 0
  BY <1>1 DEF Actualizar
<1>2. ASSUME NEW u, Claves(u) = {}
      PROVE  \A c \in Claves(Agregar(u, k, f)) : c = k /\ Agregar(u, k, f).marco[c] = f
  <2>1. Agregar(u, k, f).marco = [d \in {k} |-> IF d = k THEN f ELSE u.marco[d]]
    BY <1>2 DEF Agregar
  <2> QED BY <2>1 DEF Claves
<1>3. CASE EntradasTlb = 1
  <2>1. CASE Claves(t) = {}
    <3>1. Cardinality(Claves(t)) # EntradasTlb
      BY <1>3, <2>1, FS_EmptySet
    <3> QED BY <1>2, <1>3, <2>1, <3>1 DEF Actualizar
  <2>2. CASE Claves(t) # {}
    <3>1. PICK d : Claves(t) = {d}
      BY <2>2
    <3>2. Cardinality(Claves(t)) = EntradasTlb
      BY <1>3, <3>1, FS_Singleton
    <3>3. Victima(t) = d
      BY <3>1 DEF Victima
    <3>4. Claves(Sacar(t, {Victima(t)})) = {}
      <4>1. Sacar(t, {d}).marco = [c \in Claves(t) \ {d} |-> t.marco[c]]
        BY DEF Sacar
      <4> QED BY <4>1, <3>1, <3>3 DEF Claves
    <3> QED BY <1>2, <1>3, <3>2, <3>4 DEF Actualizar
  <2> QED BY <2>1, <2>2
<1> QED BY <1>1, <1>3

\* What limpiar_proceso_de_la_tlb leaves was there.
LEMMA LimpiarDeja ==
    ASSUME NEW t, NEW p
    PROVE  /\ Claves(LimpiarProceso(t, p)) \subseteq Claves(t)
           /\ \A c \in Claves(LimpiarProceso(t, p)) : LimpiarProceso(t, p).marco[c] = t.marco[c]
<1> DEFINE cs == {c \in Claves(t) : c[1] = p}
<1>1. Sacar(t, cs).marco = [c \in Claves(t) \ cs |-> t.marco[c]]
  BY DEF Sacar
<1>2. LimpiarProceso(t, p) = Sacar(t, cs)
  BY DEF LimpiarProceso
<1> HIDE DEF cs
<1> QED BY <1>1, <1>2 DEF Claves

IInvTlb == TlbUnica /\ TlbDeProcesos /\ TlbSinPendiente /\ TlbVigente /\ AccesoAlMarcoPropio
IInvCopias == CopiaVigente /\ CopiaEnCurso

\* CopiaVigente, for one page.
CopiaDe(p, x) ==
    /\ tabla[p][x].presencia => espacio_memoria[tabla[p][x].marco] = <<p, x>>
    /\ ~tabla[p][x].presencia \/ ~tabla[p][x].modificado
          => swap[tabla[p][x].posicion_swap] = <<p, x>>

LEMMA CopiaPorPagina == CopiaVigente <=> \A p \in Activos, x \in Paginas : CopiaDe(p, x)
BY DEF CopiaVigente, CopiaDe

\* An action of the memory for the kernel touches only a process that waits for a page, is
\* new or is over: nothing the CPU relies on.
LEMMA TlbIntacta ==
    ASSUME IInvTablas, IInvTlb, UNCHANGED <<acceso, cpu, tlb>>,
           \A p \in Procesos : proceso[p] # "nuevo" => proceso'[p] # "nuevo",
           \A p \in Activos' : p \in Activos \/ proceso[p] = "nuevo",
           \A p \in Activos, x \in Paginas : acceso[p] = SinAcceso \/ cpu.pid = p =>
               /\ tabla'[p][x].presencia = tabla[p][x].presencia
               /\ tabla'[p][x].marco = tabla[p][x].marco
    PROVE  IInvTlb'
<1> USE DEF IInvTlb
<1>1. Claves(tlb) \subseteq Procesos \X Paginas
  BY DEF IInvTablas, TypeOK
<1>2. TlbUnica' /\ TlbSinPendiente'
  BY DEF TlbUnica, TlbSinPendiente
<1>3. TlbDeProcesos'
  BY <1>1 DEF TlbDeProcesos
<1>4. TlbVigente'
  BY <1>1 DEF TlbVigente, TlbDeProcesos
<1>5. AccesoAlMarcoPropio'
  <2>1. cpu.paso = "acceder" => cpu.pid \in Activos /\ cpu.acceso[2] \in Paginas
    BY DEF IInvTablas, TypeOK, CpuOK, Activos, Accesos
  <2> QED BY <2>1 DEF AccesoAlMarcoPropio
<1> QED BY <1>2, <1>3, <1>4, <1>5

LEMMA EstructurasDatos ==
    ASSUME IInvTablas, IInvTlb, IInvCopias, NEW p \in Procesos, AtenderPedidoDeEstructuras(p)
    PROVE  IInvTlb' /\ IInvCopias'
<1>1. CASE Fallar("sin_swap")
  <2>1. IInvTlb'
    BY <1>1, TlbIntacta DEF Fallar, Activos
  <2>2. IInvCopias'
    BY <1>1 DEF Fallar, IInvCopias, CopiaVigente, CopiaEnCurso, Activos
  <2> QED BY <2>1, <2>2
<1>2. CASE ~Fallar("sin_swap")
  <2>1. PICK pos \in Repartos :
             /\ tabla' = [tabla EXCEPT ![p] = [x \in Paginas |-> EntradaNueva(pos[x])]]
             /\ swap' = [s \in Posiciones |->
                    IF \E x \in Paginas : pos[x] = s
                    THEN <<p, CHOOSE x \in Paginas : pos[x] = s>> ELSE swap[s]]
             /\ proceso' = [proceso EXCEPT ![p] = "listo"]
             /\ UNCHANGED <<acceso, lista_de_marcos, espacio_memoria, atiende, falla, cpu, tlb>>
    BY <1>2 DEF AtenderPedidoDeEstructuras
  <2>2. /\ proceso[p] = "nuevo" /\ atiende = Ocioso /\ p \notin Activos
        /\ tabla \in [Procesos -> [Paginas -> EntradaTipo]]
        /\ Activos' = Activos \cup {p} /\ Activos \subseteq Procesos
    BY <2>1 DEF AtenderPedidoDeEstructuras, Activos, IInvTablas, TypeOK
  <2>3. /\ \A x \in Paginas : pos[x] \in Posiciones /\ lista_de_marcos_swap[pos[x]] = Nadie
        /\ \A x, y \in Paginas : pos[x] = pos[y] => x = y
    BY RepartoBien DEF IInvTablas
  <2>4. /\ \A x \in Paginas : /\ ~tabla'[p][x].presencia
                              /\ tabla'[p][x].posicion_swap = pos[x]
        /\ \A q \in Procesos : q # p => tabla'[q] = tabla[q]
    BY <2>1, <2>2 DEF EntradaNueva
  <2>5. IInvTlb'
    BY <2>1, <2>2, <2>4, TlbIntacta DEF IInvTablas, TypeOK
  <2>6. ASSUME NEW q \in Activos, NEW x \in Paginas
        PROVE  tabla'[q] = tabla[q] /\ swap'[tabla[q][x].posicion_swap] = swap[tabla[q][x].posicion_swap]
    <3>1. q # p /\ q # Nadie
      BY <2>2, MemoriaAssumption
    <3>2. /\ tabla[q][x].posicion_swap \in Posiciones
          /\ lista_de_marcos_swap[tabla[q][x].posicion_swap] = q
      BY DEF IInvTablas, PosicionesPropias
    <3> QED BY <2>1, <2>2, <2>3, <2>4, <3>1, <3>2
  <2>7. ASSUME NEW x \in Paginas
        PROVE  swap'[pos[x]] = <<p, x>>
    <3>1. (CHOOSE y \in Paginas : pos[y] = pos[x]) = x
      BY <2>3
    <3> QED BY <2>1, <2>3, <3>1
  <2>8. CopiaVigente'
    <3>1. ASSUME NEW q \in Activos, NEW x \in Paginas PROVE CopiaDe(q, x)'
      <4>1. CopiaDe(q, x)
        BY CopiaPorPagina DEF IInvCopias
      <4>2. /\ tabla'[q][x] = tabla[q][x]
            /\ swap'[tabla[q][x].posicion_swap] = swap[tabla[q][x].posicion_swap]
        BY <2>6
      <4>3. espacio_memoria' = espacio_memoria
        BY <2>1
      <4> QED BY <4>1, <4>2, <4>3 DEF CopiaDe
    <3>2. ASSUME NEW x \in Paginas PROVE CopiaDe(p, x)'
      BY <2>4, <2>7 DEF CopiaDe
    <3> QED BY <3>1, <3>2, <2>2 DEF CopiaVigente, CopiaDe
  <2>9. CopiaEnCurso'
    BY <2>1, <2>2 DEF CopiaEnCurso, Ocioso
  <2> QED BY <2>5, <2>8, <2>9 DEF IInvCopias
<1> QED BY <1>1, <1>2

LEMMA PaginaFaultDatos ==
    ASSUME IInvTablas, IInvTlb, IInvCopias, NEW p \in Procesos, AtenderPedidoDePaginaFault(p)
    PROVE  IInvTlb' /\ IInvCopias'
<1> DEFINE b == Busqueda(tabla[p], cursores[p])
<1>1. /\ proceso[p] = "fault" /\ acceso[p] # SinAcceso /\ cpu.pid # p
      /\ tabla \in [Procesos -> [Paginas -> EntradaTipo]]
      /\ tabla[p] \in [Paginas -> EntradaTipo] /\ cursores[p] \in Paginas
  BY SinAccesoNoEs DEF AtenderPedidoDePaginaFault, IInvTablas, FaltaAusente, TypeOK, CpuOK
<1>2. CASE UNCHANGED <<tabla, proceso, acceso, espacio_memoria, swap, cpu, tlb>>
  <2>1. Activos' = Activos
    BY <1>2 DEF Activos
  <2>2. IInvTlb'
    BY <1>2, <2>1, TlbIntacta
  <2>3. atiende' = atiende \/ atiende'.paso = "cargar" \/ atiende'.paso = "rajar"
    BY DEF AtenderPedidoDePaginaFault, Fallar
  <2>4. IInvCopias'
    BY <1>2, <2>1, <2>3 DEF IInvCopias, CopiaVigente, CopiaEnCurso
  <2> QED BY <2>2, <2>4
<1>3. CASE /\ tabla' = [tabla EXCEPT ![p] = b.tabla] /\ atiende'.paso = "rajar"
           /\ UNCHANGED <<proceso, acceso, espacio_memoria, swap, cpu, tlb>>
  <2>1. SoloUso(tabla[p], b.tabla)
    BY <1>1, BusquedaBien
  <2> HIDE DEF b
  <2>2. \A q \in Procesos, x \in Paginas :
           /\ tabla'[q][x].marco = tabla[q][x].marco
           /\ tabla'[q][x].presencia = tabla[q][x].presencia
           /\ tabla'[q][x].modificado = tabla[q][x].modificado
           /\ tabla'[q][x].posicion_swap = tabla[q][x].posicion_swap
    BY <1>1, <1>3, <2>1 DEF SoloUso
  <2>3. Activos' = Activos /\ Activos \subseteq Procesos
    BY <1>3 DEF Activos
  <2>4. IInvTlb'
    BY <1>3, <2>2, <2>3, TlbIntacta
  <2>5. CopiaVigente'
    <3>1. ASSUME NEW q \in Activos, NEW x \in Paginas PROVE CopiaDe(q, x)'
      <4>1. CopiaDe(q, x)
        BY CopiaPorPagina DEF IInvCopias
      <4> QED BY <4>1, <1>3, <2>2, <2>3 DEF CopiaDe
    <3> QED BY <3>1, <2>3 DEF CopiaVigente, CopiaDe
  <2> QED BY <1>3, <2>4, <2>5 DEF IInvCopias, CopiaEnCurso
<1> HIDE DEF b
<1>4. \/ UNCHANGED <<tabla, proceso, acceso, espacio_memoria, swap, cpu, tlb>>
      \/ /\ tabla' = [tabla EXCEPT ![p] = b.tabla] /\ atiende'.paso = "rajar"
         /\ UNCHANGED <<proceso, acceso, espacio_memoria, swap, cpu, tlb>>
  BY DEF AtenderPedidoDePaginaFault, Fallar, b
<1> QED BY <1>2, <1>3, <1>4

LEMMA RajarDatos ==
    ASSUME IInvTablas, IInvTlb, IInvCopias, RajarPagina
    PROVE  IInvTlb' /\ IInvCopias'
<1> DEFINE p == atiende.pid
           v == atiende.victima
           e == [tabla[p][v] EXCEPT !.modificado = FALSE, !.presencia = FALSE]
<1>1. /\ p \in Procesos /\ proceso[p] = "fault" /\ p \in Activos
      /\ acceso[p] # SinAcceso /\ cpu.pid # p
  BY FaltaBien, SinAccesoNoEs DEF RajarPagina, IInvTablas, FaltaAusente
<1>2. /\ v \in Paginas /\ tabla[p][v].presencia
      /\ tabla \in [Procesos -> [Paginas -> EntradaTipo]] /\ tabla[p][v] \in EntradaTipo
      /\ Activos \subseteq Procesos /\ swap \in [Posiciones -> Contenidos]
  BY <1>1 DEF RajarPagina, IInvTablas, TypeOK, AtiendeOK, Activos
<1>3. /\ swap' = EscribirPaginaEnSwap(tabla[p][v])
      /\ tabla' = [tabla EXCEPT ![p][v] = e]
      /\ atiende'.paso = "cargar"
      /\ UNCHANGED <<proceso, acceso, espacio_memoria, cpu, tlb>>
  BY <1>2 DEF RajarPagina, IInvTablas, TypeOK, AtiendeOK, AtiendeTipo
<1>4. e \in EntradaTipo /\ ~e.presencia /\ e.posicion_swap = tabla[p][v].posicion_swap
  <2>1. \A d \in EntradaTipo :
           LET c == [d EXCEPT !.modificado = FALSE, !.presencia = FALSE] IN
           c \in EntradaTipo /\ ~c.presencia /\ c.posicion_swap = d.posicion_swap
    BY DEF EntradaTipo
  <2> QED BY <2>1, <1>2
<1> HIDE DEF e
<1>5. \A q \in Procesos, y \in Paginas : tabla'[q][y] = IF q = p /\ y = v THEN e ELSE tabla[q][y]
  BY <1>1, <1>2, <1>3, <1>4, CambiarEntrada
<1>6. Activos' = Activos
  BY <1>3 DEF Activos
<1>7. IInvTlb'
  <2>1. \A q \in Activos, x \in Paginas : acceso[q] = SinAcceso \/ cpu.pid = q =>
           tabla'[q][x] = tabla[q][x]
    BY <1>1, <1>2, <1>5
  <2> QED BY <2>1, <1>3, <1>6, TlbIntacta
<1>8. /\ tabla[p][v].posicion_swap \in Posiciones
      /\ swap'[tabla[p][v].posicion_swap] = <<p, v>>
      /\ \A s \in Posiciones : s # tabla[p][v].posicion_swap => swap'[s] = swap[s]
  <2>1. tabla[p][v].posicion_swap \in Posiciones
    BY <1>1, <1>2 DEF IInvTablas, PosicionesPropias
  <2>2. /\ espacio_memoria[tabla[p][v].marco] = <<p, v>>
        /\ ~tabla[p][v].modificado => swap[tabla[p][v].posicion_swap] = <<p, v>>
    BY <1>1, <1>2 DEF IInvCopias, CopiaVigente
  <2> QED BY <2>1, <2>2, <1>2, <1>3 DEF EscribirPaginaEnSwap
<1>9. ASSUME NEW q \in Activos, NEW y \in Paginas, ~(q = p /\ y = v)
      PROVE  /\ tabla'[q][y] = tabla[q][y]
             /\ tabla[q][y].posicion_swap \in Posiciones
             /\ tabla[q][y].posicion_swap # tabla[p][v].posicion_swap
  BY <1>1, <1>2, <1>5, <1>9 DEF IInvTablas, PosicionesPropias
<1>10. \A q \in Activos, y \in Paginas : q = p /\ y = v => tabla'[q][y] = e
  BY <1>2, <1>5
<1>11. CopiaVigente'
  <2>1. ASSUME NEW q \in Activos, NEW y \in Paginas PROVE CopiaDe(q, y)'
    <3>1. CASE q = p /\ y = v
      BY <3>1, <1>4, <1>8, <1>10 DEF CopiaDe
    <3>2. CASE ~(q = p /\ y = v)
      <4>1. swap'[tabla[q][y].posicion_swap] = swap[tabla[q][y].posicion_swap]
        BY <3>2, <1>8, <1>9
      <4>2. CopiaDe(q, y)
        BY CopiaPorPagina DEF IInvCopias
      <4> QED BY <3>2, <4>1, <4>2, <1>3, <1>9 DEF CopiaDe
    <3> QED BY <3>1, <3>2
  <2> QED BY <2>1, <1>6 DEF CopiaVigente, CopiaDe
<1>12. CopiaEnCurso'
  BY <1>3 DEF CopiaEnCurso
<1> QED BY <1>7, <1>11, <1>12 DEF IInvCopias

LEMMA CargarDatos ==
    ASSUME IInvTablas, IInvTlb, IInvCopias, CargarPagina
    PROVE  IInvTlb' /\ IInvCopias'
<1> DEFINE p == atiende.pid
           x == atiende.pagina
           e == [tabla[p][x] EXCEPT !.marco = atiende.marco]
<1>1. /\ p \in Procesos /\ proceso[p] = "fault" /\ p \in Activos /\ x \in Paginas
      /\ ~tabla[p][x].presencia /\ acceso[p] # SinAcceso /\ cpu.pid # p
  BY FaltaBien, SinAccesoNoEs DEF CargarPagina, IInvTablas, FaltaAusente
<1>2. /\ tabla \in [Procesos -> [Paginas -> EntradaTipo]] /\ tabla[p][x] \in EntradaTipo
      /\ Activos \subseteq Procesos /\ espacio_memoria \in [Marcos -> Contenidos]
      /\ atiende.marco \in Marcos /\ lista_de_marcos[atiende.marco] = Nadie
  BY <1>1 DEF CargarPagina, IInvTablas, TypeOK, AtiendeOK, FaltaEnCurso, Activos
<1>3. /\ espacio_memoria' =
            [espacio_memoria EXCEPT ![atiende.marco] = swap[tabla[p][x].posicion_swap]]
      /\ tabla' = [tabla EXCEPT ![p][x] = e]
      /\ atiende'.pid = p /\ atiende'.pagina = x /\ atiende'.marco = atiende.marco
      /\ UNCHANGED <<proceso, acceso, swap, cpu, tlb>>
  BY <1>2 DEF CargarPagina, IInvTablas, TypeOK, AtiendeOK, AtiendeTipo
<1>4. /\ e \in EntradaTipo /\ e.presencia = tabla[p][x].presencia
      /\ e.posicion_swap = tabla[p][x].posicion_swap
  <2>1. \A d \in EntradaTipo, f \in Marcos :
           LET c == [d EXCEPT !.marco = f] IN
           c \in EntradaTipo /\ c.presencia = d.presencia /\ c.posicion_swap = d.posicion_swap
    BY DEF EntradaTipo
  <2> QED BY <2>1, <1>2
<1> HIDE DEF e
<1>5. \A q \in Procesos, y \in Paginas : tabla'[q][y] = IF q = p /\ y = x THEN e ELSE tabla[q][y]
  BY <1>1, <1>2, <1>3, <1>4, CambiarEntrada
<1>6. Activos' = Activos
  BY <1>3 DEF Activos
<1>7. IInvTlb'
  <2>1. \A q \in Activos, y \in Paginas : acceso[q] = SinAcceso \/ cpu.pid = q =>
           tabla'[q][y] = tabla[q][y]
    BY <1>1, <1>2, <1>5
  <2> QED BY <2>1, <1>3, <1>6, TlbIntacta
<1>8. swap[tabla[p][x].posicion_swap] = <<p, x>>
  BY <1>1 DEF IInvCopias, CopiaVigente
<1>9. ASSUME NEW q \in Activos, NEW y \in Paginas PROVE CopiaDe(q, y)'
  <2>1. CopiaDe(q, y)
    BY CopiaPorPagina DEF IInvCopias
  <2>2. swap' = swap /\ q \in Procesos
    BY <1>2, <1>3
  <2>3. CASE q = p /\ y = x
    <3>1. tabla'[q][y] = e
      BY <2>2, <2>3, <1>5
    <3> QED BY <2>2, <2>3, <3>1, <1>1, <1>4, <1>8 DEF CopiaDe
  <2>4. CASE ~(q = p /\ y = x)
    <3>1. tabla'[q][y] = tabla[q][y]
      BY <2>2, <2>4, <1>5
    <3>2. tabla[q][y].presencia =>
             espacio_memoria'[tabla[q][y].marco] = espacio_memoria[tabla[q][y].marco]
      <4>1. tabla[q][y].presencia =>
               tabla[q][y].marco \in Marcos /\ lista_de_marcos[tabla[q][y].marco] = q
        BY DEF IInvTablas, EntradasEnSuMarco
      <4>2. q # Nadie
        BY <2>2, MemoriaAssumption
      <4> QED BY <4>1, <4>2, <1>2, <1>3
    <3> QED BY <2>1, <2>2, <3>1, <3>2 DEF CopiaDe
  <2> QED BY <2>3, <2>4
<1>10. CopiaVigente'
  BY <1>6, <1>9 DEF CopiaVigente, CopiaDe
<1>11. CopiaEnCurso'
  <2>1. espacio_memoria'[atiende.marco] = <<p, x>>
    BY <1>2, <1>3, <1>8
  <2> QED BY <2>1, <1>3 DEF CopiaEnCurso
<1> QED BY <1>7, <1>10, <1>11 DEF IInvCopias

LEMMA PresentarDatos ==
    ASSUME IInvTablas, IInvTlb, IInvCopias, PresentarPagina
    PROVE  IInvTlb' /\ IInvCopias'
<1> DEFINE p == atiende.pid
           x == atiende.pagina
           e == [tabla[p][x] EXCEPT !.presencia = TRUE, !.uso = TRUE]
<1>1. /\ p \in Procesos /\ proceso[p] = "fault" /\ p \in Activos /\ x \in Paginas
      /\ ~tabla[p][x].presencia /\ acceso[p] # SinAcceso /\ cpu.pid # p
  BY FaltaBien, SinAccesoNoEs DEF PresentarPagina, IInvTablas, FaltaAusente
<1>2. /\ tabla \in [Procesos -> [Paginas -> EntradaTipo]] /\ tabla[p][x] \in EntradaTipo
      /\ Activos \subseteq Procesos /\ tabla[p][x].marco = atiende.marco
  BY <1>1 DEF PresentarPagina, IInvTablas, TypeOK, FaltaEnCurso, Activos
<1>3. /\ tabla' = [tabla EXCEPT ![p][x] = e]
      /\ proceso' = [proceso EXCEPT ![p] = "listo"]
      /\ atiende' = Ocioso
      /\ UNCHANGED <<acceso, espacio_memoria, swap, cpu, tlb>>
  BY <1>2 DEF PresentarPagina
<1>4. /\ e \in EntradaTipo /\ e.presencia /\ e.marco = tabla[p][x].marco
      /\ e.posicion_swap = tabla[p][x].posicion_swap
  <2>1. \A d \in EntradaTipo :
           LET c == [d EXCEPT !.presencia = TRUE, !.uso = TRUE] IN
           /\ c \in EntradaTipo /\ c.presencia /\ c.marco = d.marco
           /\ c.posicion_swap = d.posicion_swap
    BY DEF EntradaTipo
  <2> QED BY <2>1, <1>2
<1> HIDE DEF e
<1>5. \A q \in Procesos, y \in Paginas : tabla'[q][y] = IF q = p /\ y = x THEN e ELSE tabla[q][y]
  BY <1>1, <1>2, <1>3, <1>4, CambiarEntrada
<1>6. Activos' = Activos
  BY <1>1, <1>3 DEF Activos, IInvTablas, TypeOK
<1>7. IInvTlb'
  <2>1. \A q \in Activos, y \in Paginas : acceso[q] = SinAcceso \/ cpu.pid = q =>
           tabla'[q][y] = tabla[q][y]
    BY <1>1, <1>2, <1>5
  <2>2. \A q \in Procesos : proceso[q] # "nuevo" => proceso'[q] # "nuevo"
    BY <1>3 DEF IInvTablas, TypeOK
  <2> QED BY <2>1, <2>2, <1>3, <1>6, TlbIntacta
<1>8. ASSUME NEW q \in Activos, NEW y \in Paginas PROVE CopiaDe(q, y)'
  <2>1. CopiaDe(q, y)
    BY CopiaPorPagina DEF IInvCopias
  <2>2. swap' = swap /\ espacio_memoria' = espacio_memoria /\ q \in Procesos
    BY <1>2, <1>3
  <2>3. CASE q = p /\ y = x
    <3>1. tabla'[q][y] = e
      BY <2>2, <2>3, <1>5
    <3>2. espacio_memoria[atiende.marco] = <<p, x>>
      BY DEF PresentarPagina, IInvCopias, CopiaEnCurso
    <3> QED BY <2>1, <2>2, <2>3, <3>1, <3>2, <1>1, <1>2, <1>4 DEF CopiaDe
  <2>4. CASE ~(q = p /\ y = x)
    <3>1. tabla'[q][y] = tabla[q][y]
      BY <2>2, <2>4, <1>5
    <3> QED BY <2>1, <2>2, <3>1 DEF CopiaDe
  <2> QED BY <2>3, <2>4
<1>9. CopiaVigente'
  BY <1>6, <1>8 DEF CopiaVigente, CopiaDe
<1>10. CopiaEnCurso'
  BY <1>3 DEF CopiaEnCurso, Ocioso
<1> QED BY <1>7, <1>9, <1>10 DEF IInvCopias

LEMMA LiberarDatos ==
    ASSUME IInvTablas, IInvTlb, IInvCopias, NEW p \in Procesos, AtenderLiberarEstructuras(p)
    PROVE  IInvTlb' /\ IInvCopias'
<1>1. /\ atiende = Ocioso /\ atiende' = Ocioso
      /\ proceso' = [proceso EXCEPT ![p] = "fin"]
      /\ UNCHANGED <<acceso, tabla, espacio_memoria, swap, cpu, tlb>>
  BY DEF AtenderLiberarEstructuras
<1>2. Activos' \subseteq Activos /\ \A q \in Procesos : proceso[q] # "nuevo" => proceso'[q] # "nuevo"
  BY <1>1 DEF Activos, IInvTablas, TypeOK
<1>3. IInvTlb'
  BY <1>1, <1>2, TlbIntacta
<1>4. IInvCopias'
  BY <1>1, <1>2 DEF IInvCopias, CopiaVigente, CopiaEnCurso, Ocioso
<1> QED BY <1>3, <1>4

\* The CPU alone moves no data.
LEMMA CopiasIntactas ==
    ASSUME IInvCopias, Activos' = Activos, UNCHANGED varsMemoria
    PROVE  IInvCopias'
BY DEF IInvCopias, CopiaVigente, CopiaEnCurso, varsMemoria

LEMMA DespacharDatos ==
    ASSUME IInvTablas, IInvTlb, IInvCopias, NEW p \in Procesos, Despachar(p)
    PROVE  IInvTlb' /\ IInvCopias'
<1> USE DEF IInvTlb
<1>1. /\ cpu = Detenida /\ cpu' = [Detenida EXCEPT !.paso = "decodificar", !.pid = p]
      /\ proceso[p] = "listo" /\ proceso' = [proceso EXCEPT ![p] = "cpu"]
      /\ tabla' = tabla
      /\ UNCHANGED <<acceso, varsMemoria, tlb>>
  BY DEF Despachar, varsMemoria
<1>2. Activos' = Activos /\ Claves(tlb) \subseteq Procesos \X Paginas
  BY <1>1 DEF Activos, IInvTablas, TypeOK
<1>3. IInvCopias'
  BY <1>1, <1>2, CopiasIntactas
<1>4. TlbUnica' /\ TlbDeProcesos'
  BY <1>1, <1>2 DEF TlbUnica, TlbDeProcesos, IInvTablas, TypeOK
<1>5. TlbSinPendiente'
  BY <1>1 DEF TlbSinPendiente, Detenida
<1>6. TlbVigente'
  BY <1>1, <1>2 DEF TlbVigente, Detenida
<1>7. AccesoAlMarcoPropio'
  BY <1>1 DEF AccesoAlMarcoPropio, Detenida
<1> QED BY <1>3, <1>4, <1>5, <1>6, <1>7

LEMMA DecodificarDatos ==
    ASSUME IInvTablas, IInvTlb, IInvCopias, NEW a \in Accesos, Decodificar(a)
    PROVE  IInvTlb' /\ IInvCopias'
<1> USE DEF IInvTlb
<1>1. /\ cpu.paso = "decodificar" /\ acceso[cpu.pid] \in {SinAcceso, a}
      /\ cpu.pid \in Procesos /\ cpu.pid \in Activos /\ cpu \in CpuTipo
      /\ tabla' = tabla
      /\ UNCHANGED <<proceso, acceso, varsMemoria>>
  BY FaltaAjena DEF Decodificar, IInvTablas, TypeOK, CpuOK, varsMemoria
<1>2. Activos' = Activos
  BY <1>1 DEF Activos
<1>3. IInvCopias'
  BY <1>1, <1>2, CopiasIntactas
<1>4. CASE Buscar(tlb, cpu.pid, a[2]) = {} /\ cpu' = [cpu EXCEPT !.paso = "pedir", !.acceso = a]
           /\ UNCHANGED tlb
  <2>1. cpu'.pid = cpu.pid /\ cpu'.paso = "pedir" /\ cpu'.acceso = a
    BY <1>1, <1>4 DEF CpuTipo
  <2>2. <<cpu.pid, a[2]>> \notin Claves(tlb)
    BY <1>4 DEF Buscar
  <2>3. TlbUnica' /\ TlbDeProcesos'
    BY <1>1, <1>4 DEF TlbUnica, TlbDeProcesos
  <2>4. TlbSinPendiente'
    BY <1>1, <1>4, <2>1, <2>2 DEF TlbSinPendiente
  <2>5. TlbVigente'
    BY <1>1, <1>2, <1>4, <2>1 DEF TlbVigente
  <2>6. AccesoAlMarcoPropio'
    BY <2>1 DEF AccesoAlMarcoPropio
  <2> QED BY <1>3, <2>3, <2>4, <2>5, <2>6
<1>5. ASSUME NEW c \in Buscar(tlb, cpu.pid, a[2]),
             cpu' = [cpu EXCEPT !.paso = "acceder", !.acceso = a, !.marco = tlb.marco[c]],
             tlb' = Referir(tlb, c)
      PROVE  IInvTlb'
  <2>1. /\ cpu'.pid = cpu.pid /\ cpu'.paso = "acceder" /\ cpu'.acceso = a
        /\ cpu'.marco = tlb.marco[c]
    BY <1>1, <1>5 DEF CpuTipo
  <2>2. tlb'.marco = tlb.marco /\ Claves(tlb') = Claves(tlb)
    BY <1>5 DEF Referir, Claves
  <2>3. c = <<cpu.pid, a[2]>> /\ c \in Claves(tlb)
    BY DEF Buscar
  <2>4. acceso[cpu.pid] = SinAcceso
    BY <1>1, <2>3 DEF TlbSinPendiente
  <2>5. LET e == tabla[cpu.pid][a[2]] IN e.presencia /\ e.marco = tlb.marco[c]
    BY <1>1, <2>3, <2>4 DEF TlbVigente
  <2>6. TlbUnica' /\ TlbDeProcesos'
    BY <1>1, <2>2 DEF TlbUnica, TlbDeProcesos
  <2>7. TlbSinPendiente'
    BY <1>1, <2>1, <2>2, <2>4 DEF TlbSinPendiente
  <2>8. TlbVigente'
    BY <1>1, <1>2, <2>1, <2>2, <2>4 DEF TlbVigente
  <2>9. AccesoAlMarcoPropio'
    BY <1>1, <2>1, <2>5 DEF AccesoAlMarcoPropio
  <2> QED BY <2>6, <2>7, <2>8, <2>9
<1> QED BY <1>3, <1>4, <1>5 DEF Decodificar

LEMMA PedidoDeMarcoDatos ==
    ASSUME IInvTablas, IInvTlb, IInvCopias, AtenderPedidoDeMarco
    PROVE  IInvTlb' /\ IInvCopias'
<1> USE DEF IInvTlb
<1>1. /\ cpu.paso = "pedir" /\ cpu'.paso = "recibir" /\ cpu'.pid = cpu.pid
      /\ cpu'.acceso = cpu.acceso /\ tabla' = tabla
      /\ UNCHANGED <<proceso, acceso, varsMemoria, tlb>>
  BY DEF AtenderPedidoDeMarco, IInvTablas, TypeOK, CpuOK, CpuTipo, varsMemoria
<1>2. Activos' = Activos
  BY <1>1 DEF Activos
<1>3. IInvCopias'
  BY <1>1, <1>2, CopiasIntactas
<1>4. TlbUnica' /\ TlbDeProcesos' /\ TlbSinPendiente' /\ AccesoAlMarcoPropio'
  BY <1>1 DEF TlbUnica, TlbDeProcesos, TlbSinPendiente, AccesoAlMarcoPropio
<1>5. TlbVigente'
  BY <1>1, <1>2 DEF TlbVigente
<1> QED BY <1>3, <1>4, <1>5

LEMMA RecibirMarcoDatos ==
    ASSUME IInvTablas, IInvTlb, IInvCopias, RecibirMarco, EntradasTlb \in {0, 1}
    PROVE  IInvTlb' /\ IInvCopias'
<1> USE DEF IInvTlb
<1>1. /\ cpu.paso = "recibir" /\ cpu.pid \in Procesos /\ cpu.pid \in Activos
      /\ proceso[cpu.pid] = "cpu" /\ cpu \in CpuTipo /\ cpu.acceso \in Accesos
      /\ cpu.acceso[2] \in Paginas /\ tabla' = tabla /\ UNCHANGED varsMemoria
  BY FaltaAjena DEF RecibirMarco, IInvTablas, TypeOK, CpuOK, Accesos, varsMemoria
<1>2. CASE cpu.marco # -1
  <2> DEFINE k == <<cpu.pid, cpu.acceso[2]>>
  <2>1. /\ tlb' = Actualizar(tlb, k, cpu.marco)
        /\ cpu' = [cpu EXCEPT !.paso = "acceder"]
        /\ UNCHANGED <<proceso, acceso>>
    BY <1>2 DEF RecibirMarco
  <2>2. /\ cpu'.paso = "acceder" /\ cpu'.pid = cpu.pid /\ cpu'.acceso = cpu.acceso
        /\ cpu'.marco = cpu.marco
    BY <1>1, <2>1 DEF CpuTipo
  <2>3. Activos' = Activos
    BY <2>1 DEF Activos
  <2>4. LET e == tabla[cpu.pid][cpu.acceso[2]] IN e.presencia /\ e.marco = cpu.marco
    BY <1>1, <1>2 DEF IInvTablas, RespuestaVigente
  <2>5. /\ \A c \in Claves(tlb') : c = k /\ tlb'.marco[c] = cpu.marco
        /\ EntradasTlb = 0 => Claves(tlb') = {}
    <3> HIDE DEF k
    <3> QED BY <2>1, ActualizarUnica DEF TlbUnica
  <2>6. TlbUnica'
    BY <2>5 DEF TlbUnica
  <2>7. TlbDeProcesos'
    BY <1>1, <2>1, <2>5 DEF TlbDeProcesos
  <2>8. TlbSinPendiente'
    BY <1>1, <2>1, <2>2, <2>5 DEF TlbSinPendiente
  <2>9. TlbVigente'
    BY <1>1, <2>4, <2>5 DEF TlbVigente
  <2>10. AccesoAlMarcoPropio'
    BY <1>1, <2>2, <2>4 DEF AccesoAlMarcoPropio
  <2>11. IInvCopias'
    BY <1>1, <2>3, CopiasIntactas
  <2> QED BY <2>6, <2>7, <2>8, <2>9, <2>10, <2>11
<1>3. CASE cpu.marco = -1
  <2>1. /\ acceso' = [acceso EXCEPT ![cpu.pid] = cpu.acceso]
        /\ proceso' = [proceso EXCEPT ![cpu.pid] = "fault"]
        /\ cpu' = Detenida /\ cpu'.paso = "ociosa"
        /\ tlb' = tlb
    BY <1>3 DEF RecibirMarco, Detenida
  <2>2. Activos' = Activos /\ Claves(tlb) \subseteq Procesos \X Paginas
    BY <1>1, <2>1 DEF Activos, IInvTablas, TypeOK
  <2>3. \A p \in Procesos : /\ p # cpu.pid => acceso'[p] = acceso[p] /\ proceso'[p] = proceso[p]
                            /\ p = cpu.pid => acceso'[p] = cpu.acceso /\ proceso'[p] = "fault"
    BY <1>1, <2>1 DEF IInvTablas, TypeOK
  <2>4. TlbUnica' /\ TlbDeProcesos'
    BY <2>1, <2>2, <2>3 DEF TlbUnica, TlbDeProcesos
  <2>5. TlbSinPendiente'
    BY <1>1, <2>1, <2>3 DEF TlbSinPendiente
  <2>6. TlbVigente'
    <3>1. ASSUME NEW c \in Claves(tlb), c[1] \in Activos, acceso'[c[1]] = SinAcceso
          PROVE  tabla[c[1]][c[2]].presencia /\ tabla[c[1]][c[2]].marco = tlb.marco[c]
      <4>1. c[1] \in Procesos /\ acceso[c[1]] = SinAcceso
        BY <1>1, <2>2, <2>3, <3>1, SinAccesoNoEs
      <4> QED BY <3>1, <4>1 DEF TlbVigente
    <3> QED BY <1>1, <2>1, <2>2, <3>1 DEF TlbVigente
  <2>7. AccesoAlMarcoPropio'
    BY <2>1 DEF AccesoAlMarcoPropio
  <2>8. IInvCopias'
    BY <1>1, <2>2, CopiasIntactas
  <2> QED BY <2>4, <2>5, <2>6, <2>7, <2>8
<1> QED BY <1>2, <1>3

\* An access ends: its process has no access pending, and what the TLB says of it is right.
LEMMA EjecutadaTlb ==
    ASSUME IInvTablas, IInvTlb, cpu.paso = "acceder", Ejecutada, SoloBits,
           UNCHANGED <<proceso, tlb>>
    PROVE  IInvTlb'
<1> USE DEF IInvTlb
<1>1. cpu.pid \in Procesos /\ cpu.pid \in Activos
  BY FaltaAjena DEF IInvTablas
<1>2. /\ cpu'.paso = "decodificar" /\ cpu'.pid = cpu.pid
      /\ acceso' = [acceso EXCEPT ![cpu.pid] = SinAcceso]
  BY DEF Ejecutada, Detenida
<1>3. \A p \in Procesos : acceso'[p] = IF p = cpu.pid THEN SinAcceso ELSE acceso[p]
  BY <1>2 DEF IInvTablas, TypeOK
<1>4. Activos' = Activos /\ Claves(tlb) \subseteq Procesos \X Paginas
  BY DEF Activos, IInvTablas, TypeOK
<1>5. TlbUnica' /\ TlbDeProcesos'
  BY DEF TlbUnica, TlbDeProcesos
<1>6. TlbSinPendiente'
  BY <1>2, <1>3 DEF TlbSinPendiente
<1>7. TlbVigente'
  <2>1. ASSUME NEW c \in Claves(tlb), c[1] \in Activos, acceso'[c[1]] = SinAcceso
        PROVE  tabla'[c[1]][c[2]].presencia /\ tabla'[c[1]][c[2]].marco = tlb.marco[c]
    <3>1. c[1] \in Procesos /\ c[2] \in Paginas
      BY <1>4
    <3>2. acceso[c[1]] = SinAcceso \/ (cpu.pid = c[1] /\ cpu.paso = "acceder")
      BY <1>3, <2>1, <3>1
    <3>3. tabla[c[1]][c[2]].presencia /\ tabla[c[1]][c[2]].marco = tlb.marco[c]
      BY <2>1, <3>2 DEF TlbVigente
    <3> QED BY <3>1, <3>3 DEF SoloBits
  <2> QED BY <1>2, <1>4, <2>1 DEF TlbVigente
<1>8. AccesoAlMarcoPropio'
  BY <1>2 DEF AccesoAlMarcoPropio
<1> QED BY <1>5, <1>6, <1>7, <1>8

LEMMA LecturaDatos ==
    ASSUME IInvTablas, IInvTlb, IInvCopias, AtenderPedidoDeLectura
    PROVE  IInvTlb' /\ IInvCopias'
<1> DEFINE p == cpu.pid
           x == cpu.acceso[2]
           e == [tabla[p][x] EXCEPT !.uso = TRUE]
<1>1. /\ p \in Procesos /\ x \in Paginas
      /\ tabla \in [Procesos -> [Paginas -> EntradaTipo]] /\ tabla[p][x] \in EntradaTipo
  BY DEF IInvTablas, TypeOK, CpuOK, Accesos, AtenderPedidoDeLectura
<1>2. /\ tabla' = [tabla EXCEPT ![p][x] = e]
      /\ UNCHANGED <<proceso, espacio_memoria, swap, atiende, tlb>>
  BY <1>1 DEF AtenderPedidoDeLectura
<1>3. /\ e \in EntradaTipo /\ e.marco = tabla[p][x].marco
      /\ e.presencia = tabla[p][x].presencia /\ e.posicion_swap = tabla[p][x].posicion_swap
      /\ e.modificado = tabla[p][x].modificado
  <2>1. \A d \in EntradaTipo :
           LET c == [d EXCEPT !.uso = TRUE] IN
           /\ c \in EntradaTipo /\ c.marco = d.marco /\ c.presencia = d.presencia
           /\ c.posicion_swap = d.posicion_swap /\ c.modificado = d.modificado
    BY DEF EntradaTipo
  <2> QED BY <2>1, <1>1
<1> HIDE DEF e
<1>4. \A q \in Procesos, y \in Paginas : tabla'[q][y] = IF q = p /\ y = x THEN e ELSE tabla[q][y]
  BY <1>1, <1>2, <1>3, CambiarEntrada
<1>5. SoloBits /\ Activos' = Activos /\ Activos \subseteq Procesos
  BY <1>1, <1>2, <1>3, <1>4 DEF SoloBits, Activos
<1>6. IInvTlb'
  BY <1>2, <1>5, EjecutadaTlb DEF AtenderPedidoDeLectura
<1>7. ASSUME NEW q \in Activos, NEW y \in Paginas PROVE CopiaDe(q, y)'
  <2>1. CopiaDe(q, y)
    BY CopiaPorPagina DEF IInvCopias
  <2>2. /\ tabla'[q][y].marco = tabla[q][y].marco
        /\ tabla'[q][y].presencia = tabla[q][y].presencia
        /\ tabla'[q][y].modificado = tabla[q][y].modificado
        /\ tabla'[q][y].posicion_swap = tabla[q][y].posicion_swap
    BY <1>3, <1>4, <1>5
  <2> QED BY <2>1, <2>2, <1>2 DEF CopiaDe
<1>8. CopiaVigente'
  BY <1>5, <1>7 DEF CopiaVigente, CopiaDe
<1>9. CopiaEnCurso'
  BY <1>2 DEF IInvCopias, CopiaEnCurso
<1> QED BY <1>6, <1>8, <1>9 DEF IInvCopias

LEMMA EscrituraDatos ==
    ASSUME IInvTablas, IInvTlb, IInvCopias, AtenderPedidoDeEscritura
    PROVE  IInvTlb' /\ IInvCopias'
<1> DEFINE p == cpu.pid
           x == cpu.acceso[2]
           f == cpu.marco
           e == EscribirBits(tabla[p][x])
<1>1. /\ p \in Procesos /\ p \in Activos /\ x \in Paginas /\ f \in Marcos
      /\ tabla \in [Procesos -> [Paginas -> EntradaTipo]] /\ tabla[p][x] \in EntradaTipo
      /\ atiende.paso # "ocioso" => atiende.pid # p
  BY FaltaAjena DEF IInvTablas, TypeOK, CpuOK, Accesos, AtenderPedidoDeEscritura
<1>2. /\ tabla' = [tabla EXCEPT ![p][x] = e]
      /\ espacio_memoria' = [g \in Marcos |->
             IF (espacio_memoria[g] = <<p, x>>) = (g = f) THEN espacio_memoria[g] ELSE Otro]
      /\ swap' = [s \in Posiciones |-> IF swap[s] = <<p, x>> THEN Otro ELSE swap[s]]
      /\ UNCHANGED <<proceso, atiende, tlb>>
  BY <1>1 DEF AtenderPedidoDeEscritura
<1>3. /\ e \in EntradaTipo /\ e.marco = tabla[p][x].marco
      /\ e.presencia = tabla[p][x].presencia /\ e.posicion_swap = tabla[p][x].posicion_swap
      /\ e.modificado
  <2>1. \A d \in EntradaTipo :
           /\ EscribirBits(d) \in EntradaTipo /\ EscribirBits(d).marco = d.marco
           /\ EscribirBits(d).presencia = d.presencia
           /\ EscribirBits(d).posicion_swap = d.posicion_swap /\ EscribirBits(d).modificado
    BY DEF EntradaTipo, EscribirBits
  <2> QED BY <2>1, <1>1
<1> HIDE DEF e
<1>4. \A q \in Procesos, y \in Paginas : tabla'[q][y] = IF q = p /\ y = x THEN e ELSE tabla[q][y]
  BY <1>1, <1>2, <1>3, CambiarEntrada
<1>5. SoloBits /\ Activos' = Activos /\ Activos \subseteq Procesos
  BY <1>1, <1>2, <1>3, <1>4 DEF SoloBits, Activos
<1>6. IInvTlb'
  BY <1>2, <1>5, EjecutadaTlb DEF AtenderPedidoDeEscritura
<1>7. tabla[p][x].presencia /\ tabla[p][x].marco = f
  BY DEF IInvTlb, AccesoAlMarcoPropio, AtenderPedidoDeEscritura
<1>8. espacio_memoria[f] = <<p, x>>
  BY <1>1, <1>7 DEF IInvCopias, CopiaVigente
<1>9. /\ espacio_memoria'[f] = <<p, x>>
      /\ \A d : \A g \in Marcos : espacio_memoria[g] = d /\ d # <<p, x>> => espacio_memoria'[g] = d
      /\ \A d : \A s \in Posiciones : swap[s] = d /\ d # <<p, x>> => swap'[s] = d
  BY <1>1, <1>2, <1>8
<1>10. ASSUME NEW q \in Activos, NEW y \in Paginas PROVE CopiaDe(q, y)'
  <2>1. CopiaDe(q, y)
    BY CopiaPorPagina DEF IInvCopias
  <2>2. /\ tabla[q][y].posicion_swap \in Posiciones
        /\ tabla[q][y].presencia => tabla[q][y].marco \in Marcos
    BY DEF IInvTablas, PosicionesPropias, EntradasEnSuMarco
  <2>3. CASE q = p /\ y = x
    <3>1. tabla'[q][y] = e
      BY <1>1, <1>4, <2>3
    <3> QED BY <2>3, <3>1, <1>3, <1>7, <1>9 DEF CopiaDe
  <2>4. CASE ~(q = p /\ y = x)
    <3>1. tabla'[q][y] = tabla[q][y]
      BY <1>4, <1>5, <2>4
    <3>2. <<q, y>> # <<p, x>>
      BY <2>4
    <3> QED BY <2>1, <2>2, <3>1, <3>2, <1>9 DEF CopiaDe
  <2> QED BY <2>3, <2>4
<1>11. CopiaVigente'
  BY <1>5, <1>10 DEF CopiaVigente, CopiaDe
<1>12. CopiaEnCurso'
  <2>1. CASE atiende.paso = "presentar"
    <3>1. atiende.marco \in Marcos /\ atiende.pid # p
      BY <2>1, <1>1 DEF IInvTablas, TypeOK, AtiendeOK
    <3>2. espacio_memoria[atiende.marco] = <<atiende.pid, atiende.pagina>>
      BY <2>1 DEF IInvCopias, CopiaEnCurso
    <3>3. <<atiende.pid, atiende.pagina>> # <<p, x>>
      BY <3>1
    <3> QED BY <3>1, <3>2, <3>3, <1>2, <1>9 DEF CopiaEnCurso
  <2>2. CASE atiende.paso # "presentar"
    BY <2>2, <1>2 DEF CopiaEnCurso
  <2> QED BY <2>1, <2>2
<1> QED BY <1>6, <1>11, <1>12 DEF IInvCopias

\* The process leaves the CPU after an instruction, and the TLB loses entries or none.
LEMMA SalirDatos ==
    ASSUME IInvTablas, IInvTlb, IInvCopias, cpu.paso = "decodificar", cpu' = Detenida,
           UNCHANGED <<acceso, varsMemoria>>,
           NEW q \in {"listo", "terminado"}, proceso' = [proceso EXCEPT ![cpu.pid] = q],
           Claves(tlb') \subseteq Claves(tlb),
           \A c \in Claves(tlb') : tlb'.marco[c] = tlb.marco[c]
    PROVE  IInvTlb' /\ IInvCopias'
<1> USE DEF IInvTlb
<1>1. cpu.pid \in Procesos /\ proceso[cpu.pid] = "cpu" /\ cpu'.paso = "ociosa" /\ tabla' = tabla
  BY FaltaAjena DEF IInvTablas, Detenida, varsMemoria
<1>2. /\ Activos' = Activos /\ Claves(tlb) \subseteq Procesos \X Paginas
      /\ \A p \in Procesos : proceso[p] # "nuevo" => proceso'[p] # "nuevo"
  BY <1>1 DEF Activos, IInvTablas, TypeOK
<1>3. IInvCopias'
  BY <1>2, CopiasIntactas
<1>4. TlbUnica' /\ TlbDeProcesos'
  BY <1>2 DEF TlbUnica, TlbDeProcesos
<1>5. TlbSinPendiente'
  BY <1>1 DEF TlbSinPendiente
<1>6. TlbVigente'
  <2>1. ASSUME NEW c \in Claves(tlb'), c[1] \in Activos, acceso[c[1]] = SinAcceso
        PROVE  tabla[c[1]][c[2]].presencia /\ tabla[c[1]][c[2]].marco = tlb'.marco[c]
    BY <2>1 DEF TlbVigente
  <2> QED BY <1>1, <1>2, <2>1 DEF TlbVigente
<1>7. AccesoAlMarcoPropio'
  BY <1>1 DEF AccesoAlMarcoPropio
<1> QED BY <1>3, <1>4, <1>5, <1>6, <1>7

LEMMA TerminarDatos ==
    ASSUME IInvTablas, IInvTlb, IInvCopias, Terminar
    PROVE  IInvTlb' /\ IInvCopias'
<1>1. /\ Claves(tlb') \subseteq Claves(tlb)
      /\ \A c \in Claves(tlb') : tlb'.marco[c] = tlb.marco[c]
  <2>1. tlb' = LimpiarProceso(tlb, cpu.pid) \/ tlb' = tlb
    BY DEF Terminar
  <2> QED BY <2>1, LimpiarDeja
<1> QED BY <1>1, SalirDatos DEF Terminar

\* What the CPU reads and writes is what the process last wrote: IInvDatos is inductive
\* together with IInvTablas when the TLB has at most one entry.
THEOREM DatosInductivos ==
    ASSUME EntradasTlb \in {0, 1}
    PROVE  Spec => []IInvDatos
<1>1. Init => IInvTlb /\ IInvCopias
  <2> SUFFICES ASSUME Init PROVE IInvTlb /\ IInvCopias
    OBVIOUS
  <2>1. Claves(tlb) = {} /\ Activos = {}
    BY DEF Init, Claves, TlbVacia, Activos
  <2>2. cpu.paso = "ociosa" /\ atiende.paso = "ocioso"
    BY DEF Init, Detenida, Ocioso
  <2> QED BY <2>1, <2>2 DEF IInvTlb, IInvCopias, TlbUnica, TlbDeProcesos, TlbSinPendiente,
             TlbVigente, AccesoAlMarcoPropio, CopiaVigente, CopiaEnCurso
<1>2. IInvTablas /\ IInvTlb /\ IInvCopias /\ [Next]_vars => IInvTlb' /\ IInvCopias'
  <2> SUFFICES ASSUME IInvTablas, IInvTlb, IInvCopias, [Next]_vars
               PROVE  IInvTlb' /\ IInvCopias'
    OBVIOUS
  <2>1. CASE AtenderKernel
    BY <2>1, EstructurasDatos, PaginaFaultDatos, LiberarDatos, RajarDatos, CargarDatos,
       PresentarDatos DEF AtenderKernel
  <2>2. CASE AtenderCpu
    BY <2>2, PedidoDeMarcoDatos, LecturaDatos, EscrituraDatos DEF AtenderCpu
  <2>3. ASSUME Desalojar PROVE IInvTlb' /\ IInvCopias'
    BY <2>3, SalirDatos DEF Desalojar
  <2>4. CASE CicloDeInstruccion
    BY <2>3, <2>4, DespacharDatos, DecodificarDatos, RecibirMarcoDatos, TerminarDatos
       DEF CicloDeInstruccion
  <2>5. CASE UNCHANGED vars
    <3>1. Activos' = Activos /\ UNCHANGED <<proceso, acceso, varsMemoria, cpu, tlb>>
      BY <2>5 DEF vars, Activos
    <3>2. IInvCopias'
      BY <3>1, CopiasIntactas
    <3>3. tabla' = tabla
      BY <3>1 DEF varsMemoria
    <3>4. IInvTlb'
      BY <3>1, <3>3, TlbIntacta
    <3> QED BY <3>2, <3>4
  <2> QED BY <2>1, <2>2, <2>4, <2>5 DEF Next
<1>3. IInvTlb /\ IInvCopias => IInvDatos
  BY DEF IInvTlb, IInvCopias, IInvDatos
<1> QED BY <1>1, <1>2, <1>3, TablasInductivas, PTL DEF Spec

\* CopiaVigente: no data a process wrote is lost, whatever is replaced and when.
THEOREM NadaSePierde ==
    ASSUME EntradasTlb \in {0, 1}
    PROVE  Spec => []CopiaVigente
<1>1. IInvDatos => CopiaVigente
  BY DEF IInvDatos
<1> QED BY <1>1, DatosInductivos, PTL

\* AccesoAlMarcoPropio: every read or write goes to the frame that has the page.
THEOREM AccesosAlMarcoPropio ==
    ASSUME EntradasTlb \in {0, 1}
    PROVE  Spec => []AccesoAlMarcoPropio
<1>1. IInvDatos => AccesoAlMarcoPropio
  BY DEF IInvDatos
<1> QED BY <1>1, DatosInductivos, PTL

\* TlbCoherente: the TLB is right about every process not in the middle of a page fault.
THEOREM TlbSiempreCoherente ==
    ASSUME EntradasTlb \in {0, 1}
    PROVE  Spec => []TlbCoherente
<1>1. IInvDatos => TlbCoherente
  BY DEF IInvDatos, TlbVigente, TlbCoherente
<1> QED BY <1>1, DatosInductivos, PTL
=============================================================================
