---------------------------- MODULE DatosPruebas ----------------------------
(***************************************************************************)
(* The inductive invariant with which the whole system implements Maquina  *)
(* (MaquinaPruebas), and what its proof rests on.  InvD says what each     *)
(* PCB, message, frame, slot of swap and entry of the TLB has to do with   *)
(* the program of its console, wherever they are.  The sections that       *)
(* follow say what a request to the memory, an access and an instruction   *)
(* do to it; when a step of the system is of one console; and which step   *)
(* of Maquina that is.                                                     *)
(***************************************************************************)
EXTENDS EjecucionPruebas

-----------------------------------------------------------------------------
(* What the memory stores *)

\* The entry of a page that is in a frame of its process.
Vigente(mem, x) ==
    Entrada(mem, x).presencia /\ mem.marcos[Entrada(mem, x).marco] = PidDe(mem, x)

CamposEntrada == {"marco", "presencia", "modificado", "swap"}
EntradaBien(e) ==
    /\ DOMAIN e = CamposEntrada /\ e = [f \in CamposEntrada |-> e[f]]
    /\ e.swap \in [Offsets -> Int]

\* The words: no frame has two pages, and a page that was not modified is as in its slot.
DirFisicas == {DirFisica(m, o) : m \in Marcos, o \in Offsets}
SinMezcla(mem) ==
    \A x, y \in LasPaginas(mem) :
        (Vigente(mem, x) /\ Vigente(mem, y) /\ Entrada(mem, x).marco = Entrada(mem, y).marco) => x = y
CopiaFiel(mem) ==
    \A x \in LasPaginas(mem) :
        (Vigente(mem, x) /\ ~Entrada(mem, x).modificado) =>
            \A d \in Offsets : mem.espacio[DirFisica(Entrada(mem, x).marco, d)] = Entrada(mem, x).swap[d]
Datos(mem) ==
    /\ \A x \in LasPaginas(mem) : EntradaBien(Entrada(mem, x))
    /\ mem.espacio \in [DirFisicas -> Int]
    /\ SinMezcla(mem) /\ CopiaFiel(mem)

\* Every page of p that is present is in a frame of p.
Cuerda(mem, p) ==
    \A x \in PaginasDe(mem, p) : Entrada(mem, x).presencia => Vigente(mem, x)

-----------------------------------------------------------------------------
(* What makes the machine of each console that of Maquina *)

\* The page of an address, and how the TLB calls it.
TamMax == EntradasPorTabla * TamPagina
ClaveA(dir) == <<dir \div TamMax, (dir % TamMax) \div TamPagina>>
PaginaEn(pcb, k) == <<pcb.tabla_de_segmentos[k[1] + 1].indice_tabla_paginas, k[2]>>
DirProxima(pcb) == obtener_dir_logica(fetch(pcb))
ProximaEsAcceso(pcb) ==
    pcb.program_counter < Len(pcb.instrucciones) /\ EsAcceso(fetch(pcb))

\* The PCB of a process of console c: its program, its segments, and the page of its fault.
ProgramaDe(pcb, c) ==
    \E a \in Archivos(c) : SePuedeLeer(a) /\ pcb.instrucciones = obtener_pseudocodigo(a)
TablaDe(t, s) ==
    /\ Len(t) = Len(s)
    /\ \A i \in DOMAIN t : t[i].nro_segmento = i - 1 /\ t[i].tamanio_segmento = atoi(s[i])
    /\ \A i, j \in DOMAIN t : t[i].indice_tabla_paginas = t[j].indice_tabla_paginas => i = j
FallaBien(pcb) ==
    pcb.page_fault => /\ ~pcb.segmentation_fault /\ ProximaEsAcceso(pcb)
                      /\ pcb.pagina_fault = PaginaEn(pcb, ClaveA(DirProxima(pcb)))

\* Past an instruction of its console.
EnEspera(pcb) == UltimaEsDeConsola(pcb) /\ ~pcb.segmentation_fault /\ ~pcb.page_fault

\* A PCB of console c that is new, ended, back from the CPU or with a thread h; f: the
\* instruction of its console has not had its effect.
EnRegla(pcb, c, nuevo, fin, vuelve, h, f) ==
    /\ ProgramaDe(pcb, c) /\ FallaBien(pcb)
    /\ nuevo => /\ pcb.tamanio_segmentos = Segmentos(c)
                /\ pcb.program_counter = 0 /\ pcb.registros = Maq!Reset
    /\ ~nuevo => TablaDe(pcb.tabla_de_segmentos, Segmentos(c))
    /\ pcb.segmentation_fault => vuelve \/ fin
    /\ pcb.page_fault => vuelve \/ h = "page fault"
    /\ f => EnEspera(pcb) /\ (vuelve \/ h = "pedir" \/ h = "contestar")
    /\ vuelve /\ EnEspera(pcb) => f
    /\ h = "pedir" => f

\* What is on its way between console c and the thread that waits for it.
LoDicho(c, pcb, f) ==
    LET i == obtener_ultima_instruccion(pcb) IN
    IF i.parametro1 = "TECLADO"
    THEN /\ f
         /\ haciaKernel[c] # <<>> =>
               \E v \in Teclas : haciaKernel[c] = ValorConCodigo(v, "OKI_TECLADO")
    ELSE /\ haciaConsola[c] # <<>> =>
               f /\ haciaConsola[c] = ValorConCodigo(pcb.registros[i.parametro2], "PANTALLA")
         /\ haciaKernel[c] # <<>> \/ consola[c] = "imprimio" => ~f

Vuelve(p) == EnCpuEsta(p) /\ cpu.estado = "devuelve"
Bien(p) ==
    /\ Vive(p) => EnRegla(PcbDe(p), consolaDe[p], p \in Elems(cola_new), p \in Elems(cola_exit),
                          Vuelve(p), hilo[p], falta[p])
    /\ falta[p] => Vive(p)
    /\ hilo[p] = "contestar" => LoDicho(consolaDe[p], pcbs[p], falta[p])
    /\ Admitido(p) /\ p \notin Elems(cola_exit) => Cuerda(memoria, p)

\* The entry of the TLB is that of the page, or the next access of its process does not
\* find it and takes its place.
EnTlb(pcb, mem, k, marco) ==
    LET x == PaginaEn(pcb, k) IN
    /\ k = <<k[1], k[2]>> /\ k[1] + 1 \in DOMAIN pcb.tabla_de_segmentos
    /\ k[2] \in 0..(EntradasPorTabla - 1)
    /\ \/ Entrada(mem, x).presencia /\ Entrada(mem, x).marco = marco
       \/ ProximaEsAcceso(pcb) /\ ClaveA(DirProxima(pcb)) # k
TlbUna(t) ==
    /\ \A k, l \in Claves(t) : k = l
    /\ EntradasTlb = 0 => Claves(t) = {}
    /\ \A k \in Claves(t) : k = <<k[1], k[2]>>
TlbBien ==
    TlbUna(tlb) /\ \A k \in Claves(tlb) :
        Admitido(k[1]) /\ ~Acabado(k[1]) => EnTlb(PcbDe(k[1]), memoria, k[2], tlb.marco[k])

InvD ==
    /\ Datos(memoria) /\ TlbBien
    /\ falta \in [Pids -> BOOLEAN] /\ \A p \in Pids : p > pid_actual => ~falta[p]
    /\ \A p \in 1..pid_actual : Bien(p)

-----------------------------------------------------------------------------
(* The memory keeps the words of every process *)

\* The physical address of a word says its frame and its offset.
LEMMA DirEs ==
    ASSUME NEW m \in Marcos, NEW d \in Offsets
    PROVE  /\ DirFisica(m, d) \in DirFisicas
           /\ DirFisica(m, d) \div TamPagina = m /\ DirFisica(m, d) % TamPagina = d
<1>1. DirFisica(m, d) \in DirFisicas
  BY DEF DirFisicas
<1>2. m \in Nat /\ d \in 0..(TamPagina - 1) /\ TamPagina \in Nat \ {0}
  BY ServidorAssumption DEF Marcos, Offsets
<1>3. TamPagina * m = m * TamPagina
  BY <1>2
<1>4. (TamPagina * m + d) \div TamPagina = m /\ (TamPagina * m + d) % TamPagina = d
  BY ONLY <1>2, Cociente
<1> QED BY <1>1, <1>3, <1>4 DEF DirFisica

\* Two words of the memory have different addresses.
LEMMA DirUnica ==
    ASSUME NEW m \in Marcos, NEW d \in Offsets, NEW k \in Marcos, NEW f \in Offsets,
           DirFisica(m, d) = DirFisica(k, f)
    PROVE  m = k /\ d = f
BY DirEs

\* A memory whose frames, words and entry of x change, and nothing else.
Puesto(mem, n, x, e, y, z) ==
    /\ EsMemoria(n) /\ n.marcos = y /\ n.espacio = z
    /\ LasPaginas(n) = LasPaginas(mem) /\ Len(n.tablas) = Len(mem.tablas)
    /\ Entrada(n, x) = e
    /\ \A w \in LasPaginas(mem) : /\ PidDe(n, w) = PidDe(mem, w)
                                  /\ w # x => Entrada(n, w) = Entrada(mem, w)

LEMMA TodoPuesto ==
    ASSUME NEW mem, EsMemoria(mem), BuenaMemoria(mem), NEW x \in LasPaginas(mem), NEW e, NEW y, NEW z
    PROVE  Puesto(mem, ConEntrada([[mem EXCEPT !.marcos = y] EXCEPT !.espacio = z], x, e), x, e, y, z)
<1> DEFINE a == [mem EXCEPT !.marcos = y]
           b == [a EXCEPT !.espacio = z]
           n == ConEntrada(b, x, e)
<1>1. EsMemoria(a) /\ a.marcos = y /\ a.tablas = mem.tablas
  BY MarcosAparte
<1> HIDE DEF a
<1>2. EsMemoria(b) /\ b.marcos = y /\ b.tablas = mem.tablas
  BY <1>1, EspacioAparte
<1>3. b.espacio = z
  BY <1>1 DEF EsMemoria, CamposMemoria
<1> HIDE DEF b
<1>4. /\ LasPaginas(b) = LasPaginas(mem)
      /\ \A w : Entrada(b, w) = Entrada(mem, w) /\ PidDe(b, w) = PidDe(mem, w)
  BY <1>2 DEF LasPaginas, Entrada, PidDe
<1>5. \A k \in DOMAIN b.tablas : /\ DOMAIN b.tablas[k] = {"pid", "entradas"}
                /\ DOMAIN b.tablas[k].entradas = 0..(EntradasPorTabla - 1)
  BY <1>2 DEF BuenaMemoria
<1>6. /\ EsMemoria(n) /\ n.marcos = b.marcos /\ Len(n.tablas) = Len(b.tablas)
      /\ LasPaginas(n) = LasPaginas(b) /\ Entrada(n, x) = e
      /\ \A w \in LasPaginas(b) : /\ PidDe(n, w) = PidDe(b, w)
                                  /\ w # x => Entrada(n, w) = Entrada(b, w)
  BY <1>2, <1>4, <1>5, EntradaPuesta
<1>7. n.espacio = b.espacio
  BY <1>2 DEF ConEntrada, EsMemoria, CamposMemoria
<1> HIDE DEF n
<1>8. n.marcos = y /\ n.espacio = z /\ Len(n.tablas) = Len(mem.tablas)
  BY <1>2, <1>3, <1>6, <1>7
<1>9. \A w \in LasPaginas(mem) : /\ PidDe(n, w) = PidDe(mem, w)
                                 /\ w # x => Entrada(n, w) = Entrada(mem, w)
  BY <1>4, <1>6
<1>10. Puesto(mem, n, x, e, y, z)
  BY <1>4, <1>6, <1>8, <1>9 DEF Puesto
<1> QED BY <1>10 DEF n, b, a

\* What a change for process q leaves to the others.
Aparte(mem, n, q) ==
    /\ \A x \in LasPaginas(mem) : x \in LasPaginas(n) /\ PidDe(n, x) = PidDe(mem, x)
    /\ \A x \in LasPaginas(n) : PidDe(n, x) # q => x \in LasPaginas(mem)
    /\ \A x \in LasPaginas(mem) : PidDe(mem, x) # q =>
          /\ Entrada(n, x) = Entrada(mem, x)
          /\ Vigente(mem, x) => /\ Vigente(n, x)
                                /\ \A d \in Offsets : Palabra(n, x, d) = Palabra(mem, x, d)

\* And to q.
Mantiene(mem, n, q) ==
    \A x \in PaginasDe(mem, q) : \A d \in Offsets : Palabra(n, x, d) = Palabra(mem, x, d)

\* The others keep their pages, with their words.
LEMMA Apartada ==
    ASSUME NEW mem, NEW n, NEW q, Aparte(mem, n, q), NEW p, p # q, Cuerda(mem, p)
    PROVE  /\ Cuerda(n, p) /\ Mantiene(mem, n, p) /\ PaginasDe(n, p) = PaginasDe(mem, p)
           /\ \A x \in PaginasDe(mem, p) : Entrada(n, x) = Entrada(mem, x)
<1>1. PaginasDe(n, p) = {x \in LasPaginas(n) : PidDe(n, x) = p}
      /\ PaginasDe(mem, p) = {x \in LasPaginas(mem) : PidDe(mem, x) = p}
  BY DEF PaginasDe, LasPaginas
<1>2. PaginasDe(n, p) = PaginasDe(mem, p)
  BY <1>1 DEF Aparte
<1>3. \A x \in PaginasDe(mem, p) : Entrada(n, x) = Entrada(mem, x)
  BY <1>1 DEF Aparte
<1>4. Cuerda(n, p)
  BY <1>1, <1>2, <1>3 DEF Cuerda, Aparte
<1>5. ASSUME NEW x \in PaginasDe(mem, p), NEW d \in Offsets
      PROVE  Palabra(n, x, d) = Palabra(mem, x, d)
  <2>1. CASE Entrada(mem, x).presencia
    <3>1. Vigente(mem, x)
      BY <2>1 DEF Cuerda
    <3> QED BY <1>1, <3>1 DEF Aparte
  <2>2. CASE ~Entrada(mem, x).presencia
    BY <1>3, <2>2 DEF Palabra
  <2> QED BY <2>1, <2>2
<1> QED BY <1>2, <1>3, <1>4, <1>5 DEF Mantiene

\* Two changes for q.
LEMMA ApartadaDosVeces ==
    ASSUME NEW mem, NEW r, NEW n, NEW q, Aparte(mem, r, q), Aparte(r, n, q)
    PROVE  Aparte(mem, n, q)
<1>1. /\ \A x \in LasPaginas(mem) : x \in LasPaginas(n) /\ PidDe(n, x) = PidDe(mem, x)
      /\ \A x \in LasPaginas(n) : PidDe(n, x) # q => x \in LasPaginas(mem)
  BY DEF Aparte
<1>2. ASSUME NEW x \in LasPaginas(mem), PidDe(mem, x) # q
      PROVE  /\ Entrada(n, x) = Entrada(mem, x)
             /\ Vigente(mem, x) => /\ Vigente(n, x)
                                   /\ \A d \in Offsets : Palabra(n, x, d) = Palabra(mem, x, d)
  <2>1. /\ x \in LasPaginas(r) /\ PidDe(r, x) # q /\ Entrada(r, x) = Entrada(mem, x)
        /\ Vigente(mem, x) => /\ Vigente(r, x)
                              /\ \A d \in Offsets : Palabra(r, x, d) = Palabra(mem, x, d)
    BY <1>2 DEF Aparte
  <2>2. /\ Entrada(n, x) = Entrada(r, x)
        /\ Vigente(r, x) => /\ Vigente(n, x)
                            /\ \A d \in Offsets : Palabra(n, x, d) = Palabra(r, x, d)
    BY <2>1 DEF Aparte
  <2> QED BY <2>1, <2>2
<1> QED BY <1>1, <1>2 DEF Aparte

\* What a handler takes from a page and the one or two numbers that follow it.
LEMMA PedidoLeido ==
    ASSUME NEW a, NEW b, NEW dir, NEW v, NEW c
    PROVE  LET f == Paquete(c, empaquetar_pagina(<<a, b>>)) \o Entero(dir)
               g == f \o Entero(v)
           IN /\ LeerEntero(TrasPaquete(f), 0) = dir
              /\ deserializar_pagina(Buffer(g), 0) = <<a, b>>
              /\ LeerEntero(TrasPaquete(g), 0) = dir /\ LeerEntero(TrasPaquete(g), AnchoInt) = v
<1> DEFINE s == empaquetar_pagina(<<a, b>>)
           P == Paquete(c, s)
<1>1. EsFlujo(s) /\ EsFlujo(Entero(dir)) /\ EsFlujo(Entero(v)) /\ Len(Entero(dir)) = AnchoInt
  BY PaginaFlujo, Anchos
<1>2. deserializar_pagina(s, 0) = <<a, b>>
  BY PaginaSola
<1> HIDE DEF s
<1>3. EsFlujo(P)
  <2>1. EsFlujo(Codigo(c)) /\ EsFlujo(Entero(Len(s)))
    BY Anchos
  <2> QED BY <1>1, <2>1, Concatenado DEF Paquete
<1>4. EsFlujo(Entero(dir) \o Entero(v))
  BY <1>1, Concatenado
<1>5. (P \o Entero(dir)) \o Entero(v) = P \o (Entero(dir) \o Entero(v))
  <2>1. EsFlujo(P) /\ EsFlujo(Entero(dir)) /\ EsFlujo(Entero(v))
    BY ONLY <1>1, <1>3
  <2>2. TresFlujos(P, Entero(dir), Entero(v))
    BY ONLY <2>1 DEF TresFlujos
  <2>3. Asocian(P, Entero(dir), Entero(v))
    BY ONLY <2>2, AsociativaDe
  <2> QED BY ONLY <2>3 DEF Asocian
<1>6. TrasPaquete(P \o Entero(dir)) = Entero(dir)
  BY <1>1, MensajeEntero
<1>7. LeerEntero(Entero(dir), 0) = dir
  BY <1>1, TieneTodo, Lectores
<1>8. /\ Buffer(P \o (Entero(dir) \o Entero(v))) = s
      /\ TrasPaquete(P \o (Entero(dir) \o Entero(v))) = Entero(dir) \o Entero(v)
  <2>1. PICK t : t = Entero(dir) \o Entero(v)
    OBVIOUS
  <2>2. EsFlujo(t)
    BY <1>4, <2>1
  <2>3. Buffer(P \o t) = s /\ TrasPaquete(P \o t) = t
    BY <1>1, <2>2, MensajeEntero
  <2> HIDE DEF P
  <2> QED BY <2>1, <2>3
<1>9. /\ LeerEntero(Entero(dir) \o Entero(v), 0) = dir
      /\ LeerEntero(Entero(dir) \o Entero(v), AnchoInt) = v
  <2>1. Tiene(Entero(dir) \o Entero(v), 0, Entero(dir))
    BY <1>1, TieneAlPrincipio
  <2>2. Tiene(Entero(dir) \o Entero(v), AnchoInt, Entero(v))
    BY <1>1, TieneAlFinal
  <2>3. AnchoInt \in Nat
    BY DEF AnchoInt
  <2> QED BY <2>1, <2>2, <2>3, Lectores
<1> HIDE DEF P
<1> QED BY <1>2, <1>5, <1>6, <1>7, <1>8, <1>9 DEF P, s

\* A word is written in a page that is in its frame: it is there, and no other changes.
EscritaEn(mem, n, x, d, v) ==
    /\ EsMemoria(n) /\ Datos(n) /\ Aparte(mem, n, PidDe(mem, x))
    /\ LasPaginas(n) = LasPaginas(mem)
    /\ \A y \in LasPaginas(mem) :
          /\ PidDe(n, y) = PidDe(mem, y)
          /\ Entrada(n, y).presencia = Entrada(mem, y).presencia
          /\ Entrada(n, y).marco = Entrada(mem, y).marco
          /\ Vigente(mem, y) => Vigente(n, y)
    /\ Palabra(n, x, d) = v
    /\ \A y \in LasPaginas(mem), o \in Offsets :
          (<<y, o>> # <<x, d>> /\ (Entrada(mem, y).presencia => Vigente(mem, y))) =>
              Palabra(n, y, o) = Palabra(mem, y, o)

LEMMA AlEscribirPalabra ==
    ASSUME NEW mem, EsMemoria(mem), BuenaMemoria(mem), Datos(mem), NEW x \in LasPaginas(mem),
           Vigente(mem, x), NEW d \in Offsets, NEW v \in Int
    PROVE  EscritaEn(mem, AtenderPedidoDeEscritura(mem,
               Paquete("ESCRIBIR", empaquetar_pagina(x))
               \o Entero(DirFisica(Entrada(mem, x).marco, d)) \o Entero(v)).mem, x, d, v)
<1> DEFINE f == Entrada(mem, x).marco
           dir == DirFisica(f, d)
           flujo == (Paquete("ESCRIBIR", empaquetar_pagina(x)) \o Entero(dir)) \o Entero(v)
           z == [mem.espacio EXCEPT ![dir] = v]
           e0 == Entrada(mem, x)
           e == [e0 EXCEPT !.modificado = TRUE]
           n == ConEntrada([[mem EXCEPT !.marcos = mem.marcos] EXCEPT !.espacio = z], x, e)
<1>0. x = <<x[1], x[2]>>
  BY DeTabla
<1>1. /\ deserializar_pagina(Buffer(flujo), 0) = x
      /\ LeerEntero(TrasPaquete(flujo), 0) = dir /\ LeerEntero(TrasPaquete(flujo), AnchoInt) = v
  <2> HIDE DEF dir
  <2>1. PICK a, b : x = <<a, b>>
    BY <1>0
  <2> QED BY <2>1, PedidoLeido
<1>2. AtenderPedidoDeEscritura(mem, flujo).mem = n
  <2>1. [mem EXCEPT !.espacio[dir] = v] = [[mem EXCEPT !.marcos = mem.marcos] EXCEPT !.espacio = z]
    <3> HIDE DEF dir
    <3> QED BY DEF EsMemoria, CamposMemoria
  <2> HIDE DEF flujo, dir
  <2>2. AtenderPedidoDeEscritura(mem, flujo).mem = ConEntrada([mem EXCEPT !.espacio[dir] = v], x, e)
    BY <1>1 DEF AtenderPedidoDeEscritura
  <2> QED BY <2>1, <2>2
<1>3. /\ EsMemoria(n) /\ n.marcos = mem.marcos /\ n.espacio = z
      /\ LasPaginas(n) = LasPaginas(mem) /\ Len(n.tablas) = Len(mem.tablas)
      /\ Entrada(n, x) = e
      /\ \A w \in LasPaginas(mem) : /\ PidDe(n, w) = PidDe(mem, w)
                                    /\ w # x => Entrada(n, w) = Entrada(mem, w)
  <2> HIDE DEF z, e
  <2>1. Puesto(mem, n, x, e, mem.marcos, z)
    BY TodoPuesto, Zenon
  <2> HIDE DEF n
  <2> QED BY <2>1 DEF Puesto
<1>4. \A y \in LasPaginas(mem) : EntradaBien(Entrada(mem, y))
  BY DEF Datos
<1>5. /\ EntradaBien(e) /\ e.presencia = e0.presencia /\ e.marco = e0.marco /\ e.swap = e0.swap
      /\ e.modificado = TRUE
  <2>1. EntradaBien(e0)
    BY <1>4
  <2> HIDE DEF e0
  <2> QED BY <2>1 DEF EntradaBien, CamposEntrada
<1>6. f \in Marcos
  BY Zenon DEF BuenaMemoria, EsEntrada, Vigente
<1>7. mem.espacio \in [DirFisicas -> Int] /\ dir \in DirFisicas
  BY <1>6, DirEs DEF Datos
<1>8. z \in [DirFisicas -> Int] /\ z[dir] = v /\ \A a \in DirFisicas \ {dir} : z[a] = mem.espacio[a]
  <2> HIDE DEF dir
  <2> QED BY <1>7
<1> HIDE DEF n, e, e0, z
<1>9. \A y \in LasPaginas(mem) : /\ Entrada(n, y).presencia = Entrada(mem, y).presencia
                                 /\ Entrada(n, y).marco = Entrada(mem, y).marco
                                 /\ Entrada(n, y).swap = Entrada(mem, y).swap
                                 /\ EntradaBien(Entrada(n, y))
  BY <1>3, <1>4, <1>5 DEF e0
<1>10. \A y \in LasPaginas(mem) : Vigente(n, y) <=> Vigente(mem, y)
  BY <1>3, <1>9 DEF Vigente
<1>11. ASSUME NEW y \in LasPaginas(mem), Vigente(mem, y), NEW o \in Offsets, <<y, o>> # <<x, d>>
       PROVE  n.espacio[DirFisica(Entrada(mem, y).marco, o)]
                = mem.espacio[DirFisica(Entrada(mem, y).marco, o)]
  <2>1. Entrada(mem, y).marco \in Marcos
    BY <1>11, Zenon DEF BuenaMemoria, EsEntrada, Vigente
  <2>2. PICK k \in Marcos : k = Entrada(mem, y).marco
    BY <2>1
  <2>3. DirFisica(k, o) # dir
    <3>1. SUFFICES ASSUME DirFisica(k, o) = DirFisica(f, d) PROVE FALSE
      OBVIOUS
    <3>2. k = f /\ o = d
      BY <1>6, <3>1, DirUnica
    <3>3. y = x
      BY <1>11, <2>2, <3>2 DEF Datos, SinMezcla
    <3> QED BY <1>11, <3>2, <3>3
  <2>4. DirFisica(k, o) \in DirFisicas
    BY DirEs
  <2> QED BY <1>3, <1>8, <2>2, <2>3, <2>4
<1>12. Palabra(n, x, d) = v
  BY <1>3, <1>8, <1>9 DEF Palabra, Vigente
<1>13. ASSUME NEW y \in LasPaginas(mem), NEW o \in Offsets, <<y, o>> # <<x, d>>,
              Entrada(mem, y).presencia => Vigente(mem, y)
       PROVE  Palabra(n, y, o) = Palabra(mem, y, o)
  BY <1>9, <1>11, <1>13 DEF Palabra
<1>14. Datos(n)
  <2>1. SinMezcla(n)
    BY <1>3, <1>9, <1>10 DEF Datos, SinMezcla
  <2>2. ASSUME NEW y \in LasPaginas(n), Vigente(n, y), ~Entrada(n, y).modificado, NEW o \in Offsets
        PROVE  n.espacio[DirFisica(Entrada(n, y).marco, o)] = Entrada(n, y).swap[o]
    <3>1. y # x /\ y \in LasPaginas(mem) /\ Vigente(mem, y) /\ Entrada(n, y) = Entrada(mem, y)
      BY <1>3, <1>5, <1>10, <2>2
    <3>2. mem.espacio[DirFisica(Entrada(mem, y).marco, o)] = Entrada(mem, y).swap[o]
      BY <2>2, <3>1 DEF Datos, CopiaFiel
    <3>3. <<y, o>> # <<x, d>>
      BY <3>1
    <3>4. n.espacio[DirFisica(Entrada(mem, y).marco, o)] = mem.espacio[DirFisica(Entrada(mem, y).marco, o)]
      BY <1>11, <3>1, <3>3
    <3> QED BY <3>1, <3>2, <3>4
  <2>3. CopiaFiel(n)
    BY <2>2 DEF CopiaFiel
  <2> QED BY <1>3, <1>8, <1>9, <2>1, <2>3 DEF Datos
<1>15. Aparte(mem, n, PidDe(mem, x))
  <2>1. ASSUME NEW y \in LasPaginas(mem), PidDe(mem, y) # PidDe(mem, x)
        PROVE  /\ Entrada(n, y) = Entrada(mem, y)
               /\ Vigente(mem, y) => /\ Vigente(n, y)
                                     /\ \A o \in Offsets : Palabra(n, y, o) = Palabra(mem, y, o)
    <3>1. y # x
      BY <2>1
    <3>2. \A o \in Offsets : <<y, o>> # <<x, d>>
      BY <3>1
    <3> QED BY <1>3, <1>10, <1>13, <3>1, <3>2
  <2> QED BY <1>3, <2>1 DEF Aparte
<1>16. EscritaEn(mem, n, x, d, v)
  BY <1>3, <1>9, <1>10, <1>12, <1>13, <1>14, <1>15 DEF EscritaEn
<1> QED BY <1>2, <1>16

\* Every table is of a process.
ConDuenio(mem) == \A y \in LasPaginas(mem) : PidDe(mem, y) # PidLibre

\* A change for q that q does not notice either.
Cambiada(mem, n, q) ==
    /\ EsMemoria(n) /\ Datos(n) /\ Aparte(mem, n, q) /\ Cuerda(n, q) /\ Mantiene(mem, n, q)
    /\ LasPaginas(n) = LasPaginas(mem)
    /\ \A y \in LasPaginas(mem) : PidDe(n, y) = PidDe(mem, y)

\* A frame of a page in its frame is one of the memory.
LEMMA EnMarco ==
    ASSUME NEW mem, BuenaMemoria(mem), NEW x \in LasPaginas(mem), Entrada(mem, x).presencia
    PROVE  Entrada(mem, x).marco \in Marcos
BY Zenon DEF BuenaMemoria, EsEntrada

\* A victim goes to its slot with its words.
LEMMA Rajada ==
    ASSUME NEW mem, EsMemoria(mem), BuenaMemoria(mem), Datos(mem), ConDuenio(mem),
           NEW x \in LasPaginas(mem), Entrada(mem, x).presencia, Cuerda(mem, PidDe(mem, x))
    PROVE  /\ Cambiada(mem, RajarPagina(mem, x), PidDe(mem, x))
           /\ RajarPagina(mem, x).marcos[Entrada(mem, x).marco] = PidLibre
           /\ \A y \in LasPaginas(mem) : y # x => Entrada(RajarPagina(mem, x), y) = Entrada(mem, y)
<1> DEFINE e == Entrada(mem, x)
           f == e.marco
           copia == [d \in Offsets |-> mem.espacio[DirFisica(f, d)]]
           s == IF e.modificado THEN copia ELSE e.swap
           e2 == [e EXCEPT !.presencia = FALSE, !.modificado = FALSE,
                           !.swap = IF e.modificado THEN copia ELSE @]
           ms == [mem.marcos EXCEPT ![f] = PidLibre]
           n == RajarPagina(mem, x)
           q == PidDe(mem, x)
<1>1. EntradaBien(e) /\ f \in Marcos
  BY EnMarco DEF Datos
<1>2. Vigente(mem, x)
  BY DEF Cuerda, PaginasDe, LasPaginas
<1>3. [mem EXCEPT !.marcos[f] = PidLibre] = [[mem EXCEPT !.marcos = ms] EXCEPT !.espacio = mem.espacio]
  <2> HIDE DEF f
  <2> QED BY DEF EsMemoria, CamposMemoria
<1>4. n = ConEntrada([[mem EXCEPT !.marcos = ms] EXCEPT !.espacio = mem.espacio], x, e2)
  <2>1. n = ConEntrada([mem EXCEPT !.marcos[f] = PidLibre], x, e2)
    BY DEF RajarPagina
  <2> HIDE DEF n, e2, f
  <2> QED BY <1>3, <2>1
<1>5. Puesto(mem, n, x, e2, ms, mem.espacio)
  <2> HIDE DEF n, e2, ms
  <2>1. Puesto(mem, ConEntrada([[mem EXCEPT !.marcos = ms] EXCEPT !.espacio = mem.espacio], x, e2),
               x, e2, ms, mem.espacio)
    BY TodoPuesto, Zenon
  <2> QED BY <1>4, <2>1
<1>6. mem.espacio \in [DirFisicas -> Int]
  BY DEF Datos
<1>7. copia \in [Offsets -> Int]
  <2>1. \A d \in Offsets : DirFisica(f, d) \in DirFisicas
    BY <1>1, DirEs
  <2> HIDE DEF f
  <2> QED BY <1>6, <2>1
<1>8. EntradaBien(e2) /\ e2.presencia = FALSE /\ e2.swap = s
  <2> HIDE DEF copia, e
  <2> QED BY <1>1, <1>7 DEF EntradaBien, CamposEntrada
<1>9. \A d \in Offsets : s[d] = mem.espacio[DirFisica(f, d)]
  BY <1>2 DEF Datos, CopiaFiel
<1>10. DOMAIN mem.marcos = Marcos
  BY DEF BuenaMemoria
<1>11. ms[f] = PidLibre /\ \A m \in Marcos \ {f} : ms[m] = mem.marcos[m]
  <2> HIDE DEF f
  <2> QED BY <1>1, <1>10
<1> HIDE DEF n, e2, ms, s, copia
<1>12. /\ EsMemoria(n) /\ n.marcos = ms /\ n.espacio = mem.espacio
       /\ LasPaginas(n) = LasPaginas(mem) /\ Entrada(n, x) = e2
  BY <1>5 DEF Puesto
<1>13. \A w \in LasPaginas(mem) : /\ PidDe(n, w) = PidDe(mem, w)
                                  /\ w # x => Entrada(n, w) = Entrada(mem, w)
  BY <1>5 DEF Puesto
<1>14. ASSUME NEW y \in LasPaginas(mem), Vigente(n, y)
       PROVE  y # x /\ Vigente(mem, y)
  <2>1. y # x
    BY <1>8, <1>12, <1>14 DEF Vigente
  <2>2. Entrada(n, y) = Entrada(mem, y) /\ Entrada(mem, y).presencia
    BY <1>13, <1>14, <2>1 DEF Vigente
  <2>3. ms[Entrada(mem, y).marco] = PidDe(mem, y) /\ PidDe(mem, y) # PidLibre
    BY <1>12, <1>13, <1>14, <2>2 DEF Vigente, ConDuenio
  <2>4. Entrada(mem, y).marco \in Marcos
    BY <2>2, EnMarco
  <2> QED BY <1>11, <2>1, <2>2, <2>3, <2>4 DEF Vigente
<1>15. ASSUME NEW y \in LasPaginas(mem), Vigente(mem, y), y # x
       PROVE  Vigente(n, y)
  <2>1. Entrada(mem, y).marco \in Marcos
    BY <1>15, EnMarco DEF Vigente
  <2>2. Entrada(mem, y).marco # f
    BY <1>2, <1>15 DEF Datos, SinMezcla
  <2> QED BY <1>11, <1>12, <1>13, <1>15, <2>1, <2>2 DEF Vigente
<1>16. ASSUME NEW y \in LasPaginas(mem), NEW d \in Offsets
       PROVE  Palabra(n, y, d) = Palabra(mem, y, d)
  <2>1. CASE y = x
    BY <1>8, <1>9, <1>12, <2>1 DEF Palabra
  <2>2. CASE y # x
    BY <1>12, <1>13, <2>2 DEF Palabra
  <2> QED BY <2>1, <2>2
<1>17. Datos(n)
  <2>1. \A y \in LasPaginas(n) : EntradaBien(Entrada(n, y))
    BY <1>8, <1>12, <1>13 DEF Datos
  <2>2. SinMezcla(n)
    BY <1>12, <1>13, <1>14 DEF Datos, SinMezcla
  <2>3. CopiaFiel(n)
    BY <1>12, <1>13, <1>14 DEF Datos, CopiaFiel
  <2> QED BY <1>6, <1>12, <2>1, <2>2, <2>3 DEF Datos
<1>18. Aparte(mem, n, q)
  BY <1>12, <1>13, <1>15, <1>16 DEF Aparte
<1>19. /\ PaginasDe(n, q) = {y \in LasPaginas(n) : PidDe(n, y) = q}
       /\ PaginasDe(mem, q) = {y \in LasPaginas(mem) : PidDe(mem, y) = q}
  BY DEF PaginasDe, LasPaginas
<1>20. Mantiene(mem, n, q)
  BY <1>16, <1>19 DEF Mantiene
<1>21. Cuerda(n, q)
  <2>1. SUFFICES ASSUME NEW y \in PaginasDe(n, q), Entrada(n, y).presencia PROVE Vigente(n, y)
    BY DEF Cuerda
  <2>2. y # x /\ y \in PaginasDe(mem, q) /\ Entrada(mem, y).presencia /\ y \in LasPaginas(mem)
    BY <1>8, <1>12, <1>13, <1>19, <2>1
  <2>3. Vigente(mem, y)
    BY <2>2 DEF Cuerda
  <2> QED BY <1>15, <2>2, <2>3
<1>22. Cambiada(mem, n, q)
  BY <1>12, <1>13, <1>17, <1>18, <1>20, <1>21 DEF Cambiada
<1>23. n.marcos[f] = PidLibre
  BY <1>11, <1>12
<1> QED BY <1>13, <1>22, <1>23 DEF n

\* A page comes to a free frame with its words.
LEMMA Cargada ==
    ASSUME NEW mem, EsMemoria(mem), BuenaMemoria(mem), Datos(mem), ConDuenio(mem),
           NEW x \in LasPaginas(mem), ~Entrada(mem, x).presencia, Cuerda(mem, PidDe(mem, x)),
           NEW m \in Marcos, mem.marcos[m] = PidLibre
    PROVE  Cambiada(mem, CargarPagina(mem, x, m), PidDe(mem, x))
<1> DEFINE e == Entrada(mem, x)
           q == PidDe(mem, x)
           e2 == [e EXCEPT !.presencia = TRUE, !.marco = m]
           ms == [mem.marcos EXCEPT ![m] = q]
           z == [dir \in DOMAIN mem.espacio |->
                    IF dir \div TamPagina = m THEN e.swap[dir % TamPagina] ELSE mem.espacio[dir]]
           n == CargarPagina(mem, x, m)
<1>1. EntradaBien(e)
  BY DEF Datos
<1>2. [mem EXCEPT !.marcos[m] = q, !.espacio = [dir \in DOMAIN @ |->
          IF dir \div TamPagina = m THEN e.swap[dir % TamPagina] ELSE @[dir]]]
      = [[mem EXCEPT !.marcos = ms] EXCEPT !.espacio = z]
  <2> HIDE DEF e, q
  <2> QED BY DEF EsMemoria, CamposMemoria
<1>3. n = ConEntrada([[mem EXCEPT !.marcos = ms] EXCEPT !.espacio = z], x, e2)
  <2>1. n = ConEntrada([mem EXCEPT !.marcos[m] = q, !.espacio = [dir \in DOMAIN @ |->
          IF dir \div TamPagina = m THEN e.swap[dir % TamPagina] ELSE @[dir]]], x, e2)
    BY DEF CargarPagina
  <2> HIDE DEF n, e2, e, q
  <2> QED BY <1>2, <2>1
<1>4. Puesto(mem, n, x, e2, ms, z)
  <2> HIDE DEF n, e2, ms, z
  <2>1. Puesto(mem, ConEntrada([[mem EXCEPT !.marcos = ms] EXCEPT !.espacio = z], x, e2),
               x, e2, ms, z)
    BY TodoPuesto, Zenon
  <2> QED BY <1>3, <2>1
<1>5. mem.espacio \in [DirFisicas -> Int] /\ DOMAIN mem.espacio = DirFisicas
  BY DEF Datos
<1>6. /\ EntradaBien(e2) /\ e2.presencia = TRUE /\ e2.marco = m /\ e2.swap = e.swap
      /\ e2.modificado = e.modificado /\ e.swap \in [Offsets -> Int]
  <2> HIDE DEF e
  <2> QED BY <1>1 DEF EntradaBien, CamposEntrada
<1>7. ASSUME NEW k \in Marcos, NEW d \in Offsets
      PROVE  /\ z[DirFisica(k, d)] =
                  IF k = m THEN e.swap[d] ELSE mem.espacio[DirFisica(k, d)]
             /\ z[DirFisica(k, d)] \in Int
  <2>1. PICK a : a = DirFisica(k, d)
    OBVIOUS
  <2>2. a \in DirFisicas /\ a \div TamPagina = k /\ a % TamPagina = d
    BY <2>1, DirEs
  <2> HIDE DEF e
  <2> QED BY <1>5, <1>6, <2>1, <2>2
<1>8. z \in [DirFisicas -> Int]
  <2>1. \A a \in DirFisicas : z[a] \in Int
    BY <1>7 DEF DirFisicas
  <2>2. DOMAIN z = DirFisicas /\ z = [a \in DirFisicas |-> z[a]]
    BY <1>5
  <2> HIDE DEF z
  <2> QED BY <2>1, <2>2
<1>9. DOMAIN mem.marcos = Marcos
  BY DEF BuenaMemoria
<1>10. ms[m] = q /\ \A k \in Marcos \ {m} : ms[k] = mem.marcos[k]
  <2> HIDE DEF q
  <2> QED BY <1>9
<1> HIDE DEF n, e2, ms, z
<1>11. /\ EsMemoria(n) /\ n.marcos = ms /\ n.espacio = z
       /\ LasPaginas(n) = LasPaginas(mem) /\ Entrada(n, x) = e2
  BY <1>4 DEF Puesto
<1>12. \A w \in LasPaginas(mem) : /\ PidDe(n, w) = PidDe(mem, w)
                                  /\ w # x => Entrada(n, w) = Entrada(mem, w)
  BY <1>4 DEF Puesto
<1>13. /\ PaginasDe(n, q) = {y \in LasPaginas(n) : PidDe(n, y) = q}
       /\ PaginasDe(mem, q) = {y \in LasPaginas(mem) : PidDe(mem, y) = q}
  BY DEF PaginasDe, LasPaginas
<1>14. Vigente(n, x)
  BY <1>6, <1>10, <1>11, <1>12 DEF Vigente
<1>15. ASSUME NEW y \in LasPaginas(mem), Vigente(mem, y)
       PROVE  y # x /\ Vigente(n, y) /\ Entrada(mem, y).marco \in Marcos \ {m}
  <2>1. y # x
    BY <1>15 DEF Vigente
  <2>2. Entrada(mem, y).marco \in Marcos \ {m}
    BY <1>15, EnMarco DEF Vigente, ConDuenio
  <2> QED BY <1>10, <1>11, <1>12, <1>15, <2>1, <2>2 DEF Vigente
<1>16. ASSUME NEW y \in LasPaginas(mem), Vigente(n, y), y # x
       PROVE  Vigente(mem, y)
  <2>1. Entrada(n, y) = Entrada(mem, y) /\ PidDe(n, y) = PidDe(mem, y) /\ Entrada(mem, y).presencia
    BY <1>12, <1>16 DEF Vigente
  <2>2. Entrada(mem, y).marco \in Marcos
    BY <2>1, EnMarco
  <2>3. ms[Entrada(mem, y).marco] = PidDe(mem, y)
    BY <1>11, <1>16, <2>1 DEF Vigente
  <2>4. CASE Entrada(mem, y).marco = m
    <3>1. y \in PaginasDe(mem, q)
      BY <1>10, <1>13, <2>3, <2>4
    <3> QED BY <2>1, <3>1 DEF Cuerda
  <2>5. CASE Entrada(mem, y).marco # m
    BY <1>10, <2>1, <2>2, <2>3, <2>5 DEF Vigente
  <2> QED BY <2>4, <2>5
<1>17. ASSUME NEW y \in LasPaginas(mem), NEW d \in Offsets,
              Entrada(mem, y).presencia => Vigente(mem, y)
       PROVE  Palabra(n, y, d) = Palabra(mem, y, d)
  <2>1. CASE y = x
    <3>1. z[DirFisica(m, d)] = e.swap[d]
      BY <1>7
    <3> QED BY <1>6, <1>11, <2>1, <3>1 DEF Palabra
  <2>2. CASE y # x /\ Entrada(mem, y).presencia
    <3>1. PICK k \in Marcos \ {m} : k = Entrada(mem, y).marco
      BY <1>15, <1>17, <2>2
    <3>2. z[DirFisica(k, d)] = mem.espacio[DirFisica(k, d)]
      BY <1>7
    <3> QED BY <1>11, <1>12, <2>2, <3>1, <3>2 DEF Palabra
  <2>3. CASE y # x /\ ~Entrada(mem, y).presencia
    BY <1>12, <2>3 DEF Palabra
  <2> QED BY <2>1, <2>2, <2>3
<1>18. Datos(n)
  <2>1. \A y \in LasPaginas(n) : EntradaBien(Entrada(n, y))
    BY <1>6, <1>11, <1>12 DEF Datos
  <2>2. SinMezcla(n)
    <3>1. SUFFICES ASSUME NEW y \in LasPaginas(mem), NEW w \in LasPaginas(mem), Vigente(n, y),
                          Vigente(n, w), Entrada(n, y).marco = Entrada(n, w).marco
                   PROVE  y = w
      BY <1>11 DEF SinMezcla
    <3>2. CASE y # x /\ w # x
      BY <1>12, <1>16, <3>1, <3>2 DEF Datos, SinMezcla
    <3>3. CASE y = x /\ w # x
      BY <1>6, <1>11, <1>12, <1>15, <1>16, <3>1, <3>3
    <3>4. CASE y # x /\ w = x
      BY <1>6, <1>11, <1>12, <1>15, <1>16, <3>1, <3>4
    <3> QED BY <3>2, <3>3, <3>4
  <2>3. ASSUME NEW y \in LasPaginas(n), Vigente(n, y), ~Entrada(n, y).modificado, NEW d \in Offsets
        PROVE  n.espacio[DirFisica(Entrada(n, y).marco, d)] = Entrada(n, y).swap[d]
    <3>1. CASE y = x
      BY <1>6, <1>7, <1>11, <3>1
    <3>2. CASE y # x
      <4>1. Vigente(mem, y) /\ Entrada(n, y) = Entrada(mem, y) /\ y \in LasPaginas(mem)
        BY <1>11, <1>12, <1>16, <2>3, <3>2
      <4>2. PICK k \in Marcos \ {m} : k = Entrada(mem, y).marco
        BY <1>15, <4>1
      <4>3. z[DirFisica(k, d)] = mem.espacio[DirFisica(k, d)]
        BY <1>7
      <4>4. mem.espacio[DirFisica(k, d)] = Entrada(mem, y).swap[d]
        BY <2>3, <4>1, <4>2 DEF Datos, CopiaFiel
      <4> QED BY <1>11, <4>1, <4>2, <4>3, <4>4
    <3> QED BY <3>1, <3>2
  <2>4. CopiaFiel(n)
    BY <2>3 DEF CopiaFiel
  <2> QED BY <1>8, <1>11, <2>1, <2>2, <2>4 DEF Datos
<1>19. Aparte(mem, n, q)
  <2>1. ASSUME NEW y \in LasPaginas(mem), PidDe(mem, y) # q
        PROVE  /\ Entrada(n, y) = Entrada(mem, y)
               /\ Vigente(mem, y) => /\ Vigente(n, y)
                                     /\ \A d \in Offsets : Palabra(n, y, d) = Palabra(mem, y, d)
    BY <1>12, <1>15, <1>17, <2>1
  <2> QED BY <1>11, <1>12, <2>1 DEF Aparte
<1>20. Mantiene(mem, n, q)
  BY <1>13, <1>17 DEF Mantiene, Cuerda
<1>21. Cuerda(n, q)
  <2>1. SUFFICES ASSUME NEW y \in PaginasDe(n, q), Entrada(n, y).presencia PROVE Vigente(n, y)
    BY DEF Cuerda
  <2>2. CASE y = x
    BY <1>14, <2>2
  <2>3. CASE y # x
    <3>1. y \in PaginasDe(mem, q) /\ Entrada(mem, y).presencia /\ y \in LasPaginas(mem)
      BY <1>11, <1>12, <1>13, <2>1, <2>3
    <3>2. Vigente(mem, y)
      BY <3>1 DEF Cuerda
    <3> QED BY <1>15, <3>1, <3>2
  <2> QED BY <2>2, <2>3
<1>22. Cambiada(mem, n, q)
  BY <1>11, <1>12, <1>18, <1>19, <1>20, <1>21 DEF Cambiada
<1> QED BY <1>22 DEF n

\* A page fault changes nothing of what a process has stored.
LEMMA Fallada ==
    ASSUME NEW mem, EsMemoria(mem), BuenaMemoria(mem), Datos(mem), ConDuenio(mem),
           NEW p, NEW x \in PaginasDe(mem, p), ~Entrada(mem, x).presencia, Cuerda(mem, p),
           NEW n \in AtenderPedidoDePaginaFault(mem,
                         Buffer(Paquete("PAGINA", empaquetar_pagina(x))))
    PROVE  Cambiada(mem, n, p)
<1> DEFINE buffer == Buffer(Paquete("PAGINA", empaquetar_pagina(x)))
           libres == {m \in Marcos : mem.marcos[m] = PidLibre}
<1>1. x \in LasPaginas(mem) /\ PidDe(mem, x) = p
  BY DEF PaginasDe, LasPaginas
<1>2. deserializar_pagina(buffer, 0) = x
  <2>1. x = <<x[1], x[2]>>
    BY <1>1, DeTabla
  <2> QED BY <2>1, PaginaSola
<1> HIDE DEF buffer
<1>3. \/ \E v \in Cargadas(mem, p) : n = CargarPagina(RajarPagina(mem, v), x, Entrada(mem, v).marco)
      \/ \E m \in libres : n = CargarPagina(mem, x, m)
  BY <1>1, <1>2 DEF AtenderPedidoDePaginaFault, buffer
<1>4. CASE \E m \in libres : n = CargarPagina(mem, x, m)
  <2>1. PICK m \in Marcos : mem.marcos[m] = PidLibre /\ n = CargarPagina(mem, x, m)
    BY <1>4
  <2> QED BY <1>1, <2>1, Cargada
<1>5. CASE \E v \in Cargadas(mem, p) :
               n = CargarPagina(RajarPagina(mem, v), x, Entrada(mem, v).marco)
  <2>1. PICK v \in Cargadas(mem, p) :
               n = CargarPagina(RajarPagina(mem, v), x, Entrada(mem, v).marco)
    BY <1>5
  <2>2. v \in LasPaginas(mem) /\ Entrada(mem, v).presencia /\ PidDe(mem, v) = p /\ v # x
    BY DEF Cargadas, PaginasDe, LasPaginas
  <2>3. PICK r : r = RajarPagina(mem, v)
    OBVIOUS
  <2>4. PICK f : f = Entrada(mem, v).marco
    OBVIOUS
  <2>5. f \in Marcos
    BY <2>2, <2>4, EnMarco
  <2>6. /\ Cambiada(mem, r, p) /\ r.marcos[f] = PidLibre
        /\ \A y \in LasPaginas(mem) : y # v => Entrada(r, y) = Entrada(mem, y)
    BY <2>2, <2>3, <2>4, Rajada
  <2>7. EsMemoria(r) /\ BuenaMemoria(r)
    BY <2>2, <2>3, PaginaRajada
  <2>8. /\ LasPaginas(r) = LasPaginas(mem) /\ \A y \in LasPaginas(mem) : PidDe(r, y) = PidDe(mem, y)
        /\ Datos(r) /\ Cuerda(r, p) /\ Aparte(mem, r, p) /\ Mantiene(mem, r, p)
    BY <2>6 DEF Cambiada
  <2>9. /\ x \in LasPaginas(r) /\ ~Entrada(r, x).presencia /\ PidDe(r, x) = p /\ ConDuenio(r)
        /\ PaginasDe(r, p) = PaginasDe(mem, p)
    <3>1. ConDuenio(r)
      BY <2>8 DEF ConDuenio
    <3>2. /\ PaginasDe(r, p) = {y \in LasPaginas(r) : PidDe(r, y) = p}
          /\ PaginasDe(mem, p) = {y \in LasPaginas(mem) : PidDe(mem, y) = p}
      BY DEF PaginasDe, LasPaginas
    <3> QED BY <1>1, <2>2, <2>6, <2>8, <3>1, <3>2
  <2>10. Cambiada(r, n, p)
    BY <2>1, <2>3, <2>4, <2>5, <2>6, <2>7, <2>8, <2>9, Cargada
  <2>11. Aparte(mem, n, p)
    BY <2>8, <2>10, ApartadaDosVeces DEF Cambiada
  <2>12. Mantiene(mem, n, p)
    BY <2>8, <2>9, <2>10 DEF Cambiada, Mantiene
  <2> QED BY <2>8, <2>10, <2>11, <2>12 DEF Cambiada
<1> QED BY <1>3, <1>4, <1>5

\* The end of a process changes nothing of what the others have stored.
LEMMA Liberada ==
    ASSUME NEW mem, EsMemoria(mem), BuenaMemoria(mem), Datos(mem), ConDuenio(mem),
           NEW p \in Enteros, Cuerda(mem, p)
    PROVE  LET n == AtenderLiberarEstructuras(mem,
                       Buffer(ValorConCodigo(p, "LIBERAR_ESTRUCTURAS"))).mem IN
           Datos(n) /\ Aparte(mem, n, p)
<1> DEFINE buffer == Buffer(ValorConCodigo(p, "LIBERAR_ESTRUCTURAS"))
           suyos == {Entrada(mem, x).marco : x \in Cargadas(mem, p)}
           y == [m \in Marcos |-> IF m \in suyos THEN PidLibre ELSE mem.marcos[m]]
           n == AtenderLiberarEstructuras(mem, buffer).mem
<1>1. Valor(buffer) = p
  BY ValorLeido, NumeroEntero
<1>2. n = [mem EXCEPT !.marcos = y]
  <2> HIDE DEF buffer
  <2> QED BY <1>1 DEF AtenderLiberarEstructuras
<1> HIDE DEF n, suyos
<1>3. EsMemoria(n) /\ n.marcos = y /\ n.tablas = mem.tablas /\ n.espacio = mem.espacio
  <2> HIDE DEF y
  <2> QED BY <1>2, MemoriaCambiada DEF EsMemoria, CamposMemoria
<1>4. /\ LasPaginas(n) = LasPaginas(mem)
      /\ \A x \in LasPaginas(mem) : Entrada(n, x) = Entrada(mem, x) /\ PidDe(n, x) = PidDe(mem, x)
  BY <1>3 DEF Entrada, PidDe, LasPaginas
<1>5. \A m \in Marcos : n.marcos[m] = IF m \in suyos THEN PidLibre ELSE mem.marcos[m]
  BY <1>3
<1>6. ASSUME NEW x \in LasPaginas(mem), Vigente(n, x) PROVE Vigente(mem, x)
  <2>1. Entrada(mem, x).marco \in Marcos
    BY <1>4, <1>6, EnMarco DEF Vigente
  <2> QED BY <1>4, <1>5, <1>6, <2>1 DEF Vigente, ConDuenio
<1>7. ASSUME NEW x \in LasPaginas(mem), Vigente(mem, x), PidDe(mem, x) # p PROVE Vigente(n, x)
  <2>1. Entrada(mem, x).marco \in Marcos
    BY <1>7, EnMarco DEF Vigente
  <2>2. Entrada(mem, x).marco \notin suyos
    <3>1. SUFFICES ASSUME Entrada(mem, x).marco \in suyos PROVE FALSE
      OBVIOUS
    <3>2. PICK w \in Cargadas(mem, p) : Entrada(mem, w).marco = Entrada(mem, x).marco
      BY <3>1 DEF suyos
    <3>3. w \in PaginasDe(mem, p) /\ Entrada(mem, w).presencia /\ PidDe(mem, w) = p
      BY DEF Cargadas, PaginasDe
    <3>4. Vigente(mem, w)
      BY <3>3 DEF Cuerda
    <3> QED BY <1>7, <3>2, <3>3, <3>4 DEF Vigente
  <2> QED BY <1>4, <1>5, <1>7, <2>1, <2>2 DEF Vigente
<1>8. \A x \in LasPaginas(mem), d \in Offsets : Palabra(n, x, d) = Palabra(mem, x, d)
  BY <1>3, <1>4 DEF Palabra
<1>9. Datos(n)
  <2>1. SinMezcla(n)
    BY <1>4, <1>6 DEF Datos, SinMezcla
  <2>2. CopiaFiel(n)
    BY <1>3, <1>4, <1>6 DEF Datos, CopiaFiel
  <2> QED BY <1>3, <1>4, <2>1, <2>2 DEF Datos
<1>10. Aparte(mem, n, p)
  BY <1>4, <1>7, <1>8 DEF Aparte
<1> QED BY <1>9, <1>10 DEF n

\* A page is new whatever its slot held before.
LEMMA PaginaDeAntes ==
    ASSUME NEW mem, NEW x \in LasPaginas(mem), x[1] \in Enteros
    PROVE  EntradaBien(EntradaNueva(x)) /\ EntradaNueva(x).presencia = FALSE
<1>1. x = <<x[1], x[2]>> /\ x[2] \in 0..(EntradasPorTabla - 1)
  BY DEF LasPaginas
<1>2. \A d \in Offsets : Residuo(x, d) \in Int
  BY <1>1, ResiduoAssumption DEF Enteros
<1> QED BY <1>2 DEF EntradaBien, CamposEntrada, EntradaNueva

\* A process that is admitted has words in all its pages, and no other changes.
LEMMA Creada ==
    ASSUME NEW mem, EsMemoria(mem), BuenaMemoria(mem), Datos(mem), NEW n, NEW t, NEW q, NEW L,
           EsLista(L), ConTablas(mem, n, t, q, Len(L)), TablasNuevas(mem, n, t, L),
           \A k \in DOMAIN mem.tablas : mem.tablas[k].pid # q
    PROVE  /\ Datos(n) /\ Aparte(mem, n, q) /\ Cuerda(n, q) /\ TablaDe(t, L)
           /\ \A x \in PaginasDe(n, q), d \in Offsets : Palabra(n, x, d) \in Int
<1>1. n.marcos = mem.marcos /\ Len(t) = Len(L) /\ Len(L) \in Nat
  BY DeLista DEF ConTablas
<1>2. /\ EsMemoria(n) /\ n.espacio = mem.espacio
      /\ \A x \in LasPaginas(mem) : /\ x \in LasPaginas(n) /\ PidDe(n, x) = PidDe(mem, x)
                                    /\ Entrada(n, x) = Entrada(mem, x)
      /\ \A x \in LasPaginas(n) : x \notin LasPaginas(mem) =>
            EntradaBien(Entrada(n, x)) /\ Entrada(n, x).presencia = FALSE
  <2>1. ASSUME NEW x \in LasPaginas(n), x \notin LasPaginas(mem)
        PROVE  EntradaBien(Entrada(n, x)) /\ Entrada(n, x).presencia = FALSE
    <3>1. Entrada(n, x) = EntradaNueva(x) /\ x[1] \in Enteros
      BY <2>1 DEF TablasNuevas
    <3> QED BY <3>1, PaginaDeAntes
  <2> QED BY <2>1 DEF TablasNuevas
<1>4. \A x \in LasPaginas(n) : Entrada(n, x).presencia => x \in LasPaginas(mem)
  BY <1>2
<1>5. \A x \in LasPaginas(mem) : Vigente(n, x) <=> Vigente(mem, x)
  BY <1>1, <1>2 DEF Vigente
<1>6. Datos(n)
  <2>1. SinMezcla(n)
    BY <1>2, <1>4, <1>5 DEF Datos, SinMezcla, Vigente
  <2>2. ASSUME NEW x \in LasPaginas(n), Vigente(n, x), ~Entrada(n, x).modificado, NEW d \in Offsets
        PROVE  n.espacio[DirFisica(Entrada(n, x).marco, d)] = Entrada(n, x).swap[d]
    <3>1. x \in LasPaginas(mem)
      BY <1>4, <2>2 DEF Vigente
    <3> QED BY <1>2, <1>5, <2>2, <3>1 DEF Datos, CopiaFiel
  <2>3. \A x \in LasPaginas(n) : EntradaBien(Entrada(n, x))
    BY <1>2 DEF Datos
  <2>4. n.espacio \in [DirFisicas -> Int]
    BY <1>2 DEF Datos
  <2> QED BY <2>1, <2>2, <2>3, <2>4 DEF Datos, CopiaFiel
<1>7. \A x \in LasPaginas(mem) : PidDe(mem, x) # q
  BY DeTabla DEF PidDe
<1>8. ASSUME NEW x \in LasPaginas(n), PidDe(n, x) # q PROVE x \in LasPaginas(mem)
  <2>1. x = <<x[1], x[2]>> /\ x[1] \in Nat /\ x[1] + 1 \in DOMAIN n.tablas
        /\ x[2] \in 0..(EntradasPorTabla - 1)
    BY <1>2, DeTabla
  <2>2. x[1] + 1 \in DOMAIN mem.tablas
    BY <1>8, <2>1 DEF ConTablas, PidDe
  <2>3. DOMAIN mem.tablas = 1..Len(mem.tablas) /\ Len(mem.tablas) \in Nat
    BY DeLista DEF EsMemoria
  <2>4. x[1] \in 0..(Len(mem.tablas) - 1)
    BY <2>1, <2>2, <2>3
  <2> QED BY <2>1, <2>4 DEF LasPaginas
<1>9. Aparte(mem, n, q)
  BY <1>2, <1>5, <1>8 DEF Aparte, Palabra
<1>10. ASSUME NEW x \in PaginasDe(n, q)
       PROVE  EntradaBien(Entrada(n, x)) /\ Entrada(n, x).presencia = FALSE
  <2>1. x \in LasPaginas(n) /\ PidDe(n, x) = q
    BY DEF PaginasDe, LasPaginas
  <2> QED BY <1>2, <1>7, <2>1
<1>11. Cuerda(n, q)
  BY <1>10 DEF Cuerda
<1>12. \A x \in PaginasDe(n, q), d \in Offsets : Palabra(n, x, d) \in Int
  BY <1>10 DEF Palabra, EntradaBien
<1>13. TablaDe(t, L)
  <2>1. DOMAIN t = 1..Len(L)
        /\ \A i \in 1..Len(L) : /\ t[i].nro_segmento = i - 1 /\ t[i].tamanio_segmento = atoi(L[i])
                                /\ t[i].indice_tabla_paginas = Len(mem.tablas) + i - 1
    BY DEF TablasNuevas
  <2>2. Len(mem.tablas) \in Nat
    BY DeLista DEF EsMemoria
  <2>3. \A i, j \in DOMAIN t : t[i].indice_tabla_paginas = t[j].indice_tabla_paginas => i = j
    BY <1>1, <2>1, <2>2
  <2> QED BY <1>1, <2>1, <2>3 DEF TablaDe
<1> QED BY <1>6, <1>9, <1>11, <1>12, <1>13

-----------------------------------------------------------------------------
(* Addresses, the TLB and decode *)

\* An address is of a page of its segment, and its offset is that of a word.
LEMMA DireccionDe ==
    ASSUME NEW n \in Nat, NEW dir \in 0..(n * TamPagina * EntradasPorTabla - 1), dir % AnchoInt = 0
    PROVE  LET k == ClaveA(dir) IN
           /\ k = <<k[1], k[2]>> /\ k[1] \in Nat /\ k[1] + 1 \in 1..n
           /\ k[2] \in 0..(EntradasPorTabla - 1) /\ dir % TamPagina \in Offsets
           /\ (dir % TamMax) % TamPagina = dir % TamPagina /\ dir % TamMax \in 0..(TamMax - 1)
           /\ TamMax \in Nat \ {0} /\ dir \in Nat
           /\ dir = TamMax * k[1] + (TamPagina * k[2] + (dir % TamPagina))
<1> DEFINE s == dir \div TamMax
           p == (dir % TamMax) \div TamPagina
           d == (dir % TamMax) % TamPagina
           T == TamPagina
           E == EntradasPorTabla
<1>1. T \in Nat \ {0} /\ E \in Nat \ {0} /\ T % AnchoInt = 0
  BY ServidorAssumption
<1>2. TamMax \in Nat \ {0} /\ TamMax = E * T
  BY <1>1, Producto DEF TamMax
<1>3. dir \in Nat
  OBVIOUS
<1>4. s + 1 \in 1..n /\ p \in 0..(E - 1)
  BY SegmentoDe DEF TamMaxSegmento, obtener_nro_segmento, obtener_nro_pagina,
                    obtener_desplazamiento_segmento, TamMax
<1>5. s \in Nat /\ d \in 0..(T - 1) /\ dir = TamMax * s + (T * p + d)
  BY <1>1, <1>3, DireccionCompleta DEF TamMaxSegmento, obtener_nro_segmento, obtener_nro_pagina,
                    obtener_desplazamiento_segmento, obtener_desplazamiento_pagina, TamMax
<1>6. dir % TamMax \in 0..(TamMax - 1)
  BY <1>2, <1>3, Division
<1> HIDE DEF s, p, d, T, E
<1>7. TamMax * s + (T * p + d) = T * (E * s + p) + d
  BY <1>1, <1>2, <1>4, <1>5
<1>8. dir % T = d
  <2> DEFINE q == E * s + p
  <2>1. q \in Nat
    BY <1>1, <1>4, <1>5
  <2>2. dir = T * q + d
    BY <1>5, <1>7
  <2> HIDE DEF q
  <2>3. T \in Nat \ {0} /\ d \in 0..(T - 1)
    BY ONLY <1>1, <1>5
  <2>4. (T * q + d) % T = d
    BY ONLY <2>1, <2>3, Cociente
  <2> QED BY ONLY <2>2, <2>4
<1>9. d % AnchoInt = 0
  <2> DEFINE q == E * s + p
  <2>1. q \in Nat
    BY <1>1, <1>4, <1>5
  <2>2. dir = T * q + d
    BY <1>5, <1>7
  <2> HIDE DEF q
  <2>3. PICK a \in Nat : T = 4 * a
    <3>1. T = 4 * (T \div 4) + (T % 4) /\ T \div 4 \in Nat
      BY <1>1
    <3>2. T % 4 = 0
      BY <1>1 DEF AnchoInt
    <3> QED BY <3>1, <3>2
  <2>4. PICK b \in Nat : dir = 4 * b
    <3>1. dir = 4 * (dir \div 4) + (dir % 4) /\ dir \div 4 \in Nat
      BY <1>3
    <3>2. dir % 4 = 0
      BY DEF AnchoInt
    <3> QED BY <3>1, <3>2
  <2>5. T * q = 4 * (a * q)
    BY <2>1, <2>3
  <2> DEFINE w == a * q
  <2>6. w \in Nat
    BY <2>1
  <2>7. d = 4 * (b - w) /\ d \in Nat
    BY <1>5, <2>2, <2>4, <2>5, <2>6
  <2> HIDE DEF w
  <2>8. d % 4 = 0
    BY <2>6, <2>7
  <2> QED BY <2>8 DEF AnchoInt
<1>10. dir % TamPagina \in Offsets
  BY <1>5, <1>8, <1>9 DEF T, Offsets
<1>11. (dir % TamMax) % TamPagina = dir % TamPagina
  BY <1>8 DEF T, d
<1> QED BY <1>2, <1>3, <1>4, <1>5, <1>6, <1>8, <1>10, <1>11 DEF ClaveA, s, p, T, E

\* A TLB that has no page but c, in frame m.
TlbDe(t, c, m) == TlbUna(t) /\ \A d \in Claves(t) : d = c /\ t.marco[d] = m

\* An entry of the TLB takes the place of the only one there may be.
LEMMA TlbConUna ==
    ASSUME NEW t, TlbUna(t), EntradasTlb \in {0, 1}, NEW a, NEW b, NEW m
    PROVE  TlbDe(Actualizar(t, <<a, b>>, m), <<a, b>>, m)
<1> DEFINE c == <<a, b>>
<1>0. c = <<c[1], c[2]>>
  OBVIOUS
<1> HIDE DEF c
<1>1. CASE EntradasTlb = 0
  BY <1>1 DEF TlbUna, TlbDe, Actualizar
<1>2. ASSUME NEW u, Claves(u) = {}, EntradasTlb = 1
      PROVE  TlbDe(Agregar(u, c, m), c, m)
  <2>1. Claves(Agregar(u, c, m)) = {c} /\ Agregar(u, c, m).marco[c] = m
    BY <1>2 DEF Agregar, Claves
  <2> QED BY <1>0, <1>2, <2>1 DEF TlbDe, TlbUna
<1>3. CASE EntradasTlb = 1 /\ Claves(t) = {}
  <2>1. Cardinality(Claves(t)) # EntradasTlb
    BY <1>3, FS_EmptySet
  <2>2. Actualizar(t, c, m) = Agregar(t, c, m)
    BY <1>3, <2>1 DEF Actualizar
  <2> QED BY <1>2, <1>3, <2>2 DEF c
<1>4. CASE EntradasTlb = 1 /\ Claves(t) # {}
  <2>1. PICK k \in Claves(t) : TRUE
    BY <1>4
  <2>2. Claves(t) = {k}
    BY <2>1 DEF TlbUna
  <2>3. Cardinality(Claves(t)) = EntradasTlb
    BY <1>4, <2>2, FS_Singleton
  <2>4. Victima(t) = k
    <3>1. \A orden : \E e \in Claves(t) : \A d \in Claves(t) \ {e} : <<e, d>> \in orden
      BY <2>2
    <3>2. Victima(t) \in Claves(t)
      BY <3>1 DEF Victima
    <3> QED BY <2>2, <3>2
  <2>5. Claves(Sacar(t, {Victima(t)})) = {}
    BY <2>2, <2>4 DEF Sacar, Claves
  <2>6. Actualizar(t, c, m) = Agregar(Sacar(t, {Victima(t)}), c, m)
    BY <1>4, <2>3 DEF Actualizar
  <2> QED BY <1>2, <1>4, <2>5, <2>6 DEF c
<1> QED BY <1>1, <1>3, <1>4 DEF c

\* obtener_marco: the frame of the page, if it is in one, and it is in the TLB.
MarcoBien(r, mem, t, c, x) ==
    \/ r.marco = NoEsta /\ r.tlb = t /\ ~Entrada(mem, x).presencia
    \/ /\ r.marco # NoEsta /\ Entrada(mem, x).presencia /\ r.marco = Entrada(mem, x).marco
       /\ TlbDe(r.tlb, c, r.marco)

LEMMA MarcoDe ==
    ASSUME NEW mem, EsMemoria(mem), BuenaMemoria(mem), NEW x \in LasPaginas(mem),
           NEW t, TlbUna(t), BuenaTlb(t), EntradasTlb \in {0, 1}, NEW pid, NEW k,
           <<pid, k>> \in Claves(t) => /\ Entrada(mem, x).presencia
                                       /\ Entrada(mem, x).marco = t.marco[<<pid, k>>]
    PROVE  MarcoBien(PedirMarco(mem, t, pid, k, x), mem, t, <<pid, k>>, x)
<1> DEFINE r == PedirMarco(mem, t, pid, k, x)
           e == Entrada(mem, x)
           a == AtenderPedidoDeMarco(mem, Buffer(Paquete("PAGINA", empaquetar_pagina(x))))
           c == <<pid, k>>
<1>1. CASE Buscar(t, pid, k) # {}
  <2>1. c \in Claves(t) /\ t.marco[c] # NoEsta
    BY <1>1 DEF Buscar, BuenaTlb
  <2>2. r = [marco |-> t.marco[c], tlb |-> Referir(t, c)]
    BY <1>1, Zenon DEF PedirMarco
  <2>3. e.presencia /\ e.marco = t.marco[c]
    BY <2>1
  <2> HIDE DEF e, c, r
  <2>4. TlbDe(Referir(t, c), c, t.marco[c])
    BY <2>1 DEF TlbDe, TlbUna, Referir, Claves
  <2>5. r.marco = t.marco[c] /\ r.tlb = Referir(t, c)
    BY <2>2
  <2>6. r.marco = e.marco /\ r.marco # NoEsta /\ TlbDe(r.tlb, c, r.marco) /\ e.presencia
    BY <2>1, <2>3, <2>4, <2>5
  <2>7. MarcoBien(r, mem, t, c, x)
    BY <2>6 DEF MarcoBien, e
  <2> QED BY <2>7 DEF r, c
<1>2. CASE Buscar(t, pid, k) = {}
  <2>1. r = IF Operacion(a) = "OKI_MARCO"
            THEN [marco |-> Valor(Buffer(a)), tlb |-> Actualizar(t, c, Valor(Buffer(a)))]
            ELSE [marco |-> NoEsta, tlb |-> t]
    BY <1>2, Zenon DEF PedirMarco
  <2>2. a = IF e.presencia THEN ValorConCodigo(e.marco, "OKI_MARCO") ELSE Codigo("PAGE_NOT_FOUND_404")
    <3>1. deserializar_pagina(Buffer(Paquete("PAGINA", empaquetar_pagina(x))), 0) = x
      <4>1. x = <<x[1], x[2]>>
        BY DeTabla
      <4> QED BY <4>1, PaginaSola
    <3> QED BY <3>1, Zenon DEF AtenderPedidoDeMarco
  <2>0. \A m : TlbDe(Actualizar(t, c, m), c, m)
    BY TlbConUna
  <2> HIDE DEF r, a, c
  <2>3. CASE e.presencia
    <3>1. e.marco \in Marcos
      BY <2>3, EnMarco
    <3>2. e.marco \in Enteros /\ e.marco \in Int /\ e.marco # NoEsta
      <4>1. TamPagina \in Nat \ {0} /\ CantMarcos \in Nat \ {0} /\ TamPagina * CantMarcos \in Enteros
        BY ServidorAssumption, EjecucionAssumption
      <4>2. CantMarcos <= TamPagina * CantMarcos
        BY <4>1
      <4>3. Modulo \div 2 \in Nat
        BY ModuloAssumption
      <4> DEFINE m == e.marco
      <4>4. m \in 0..(CantMarcos - 1)
        BY <3>1 DEF Marcos
      <4> HIDE DEF m
      <4>5. m \in Enteros /\ m \in Int /\ m # NoEsta
        BY <4>1, <4>2, <4>3, <4>4 DEF Enteros, NoEsta
      <4> QED BY <4>5 DEF m
    <3>3. PICK m : m = e.marco
      OBVIOUS
    <3> HIDE DEF e
    <3>4. Operacion(a) = "OKI_MARCO" /\ Valor(Buffer(a)) = m
      BY <2>2, <2>3, <3>2, <3>3, ValorSolo, ValorLeido, NumeroEntero
    <3>5. r.marco = m /\ r.tlb = Actualizar(t, c, m)
      BY <2>1, <3>4
    <3>6. TlbDe(r.tlb, c, m)
      BY <2>0, <3>5
    <3>7. MarcoBien(r, mem, t, c, x)
      BY <2>3, <3>2, <3>3, <3>5, <3>6 DEF MarcoBien, e
    <3> QED BY <3>7 DEF r, c
  <2>4. CASE ~e.presencia
    <3>1. Operacion(a) = "PAGE_NOT_FOUND_404"
      BY <2>2, <2>4, CodigoSolo
    <3>2. r = [marco |-> NoEsta, tlb |-> t]
      BY <2>1, <3>1
    <3>3. MarcoBien(r, mem, t, c, x)
      BY <2>4, <3>2 DEF MarcoBien
    <3> QED BY <3>3 DEF r, c
  <2> QED BY <2>3, <2>4
<1> QED BY <1>1, <1>2

\* decode of an access: past the segment, not in memory, or where its page is.
Decodificado(d, pcb, dir, mem, t) ==
    LET k == ClaveA(dir)
        x == PaginaEn(pcb, k)
        pasa == dir % TamMax >= pcb.tabla_de_segmentos[k[1] + 1].tamanio_segmento
    IN \/ /\ d.error /\ d.tlb = t /\ pasa
          /\ d.pcb = [pcb EXCEPT !.segmentation_fault = TRUE]
       \/ /\ d.error /\ d.tlb = t /\ ~pasa /\ ~Entrada(mem, x).presencia
          /\ d.pcb = [pcb EXCEPT !.page_fault = TRUE, !.pagina_fault = x]
       \/ /\ ~d.error /\ d.pcb = pcb /\ d.pagina = x /\ ~pasa
          /\ Entrada(mem, x).presencia
          /\ d.direccion_fisica = DirFisica(Entrada(mem, x).marco, dir % TamPagina)
          /\ TlbDe(d.tlb, <<pcb.pid, k>>, Entrada(mem, x).marco)

\* The page of an address is one of the process.
LEMMA PaginaPropia ==
    ASSUME NEW p, NEW pcb, BuenPcb(pcb, p), NEW mem, PcbConMemoria(pcb, p, mem),
           NEW a \in DOMAIN pcb.tabla_de_segmentos, NEW b \in 0..(EntradasPorTabla - 1)
    PROVE  LET x == <<pcb.tabla_de_segmentos[a].indice_tabla_paginas, b>> IN
           x \in PaginasDe(mem, p) /\ x \in LasPaginas(mem) /\ PidDe(mem, x) = p
<1>1. PICK y : y = pcb.tabla_de_segmentos[a].indice_tabla_paginas
  OBVIOUS
<1>2. y \in 0..(Len(mem.tablas) - 1) /\ mem.tablas[y + 1].pid = p
  BY <1>1 DEF PcbConMemoria
<1>3. <<y, b>> \in LasPaginas(mem) /\ PidDe(mem, <<y, b>>) = p
  BY <1>2 DEF LasPaginas, PidDe
<1> QED BY <1>1, <1>3 DEF PaginasDe, LasPaginas

LEMMA AlDecodificarAcceso ==
    ASSUME NEW p, NEW pcb, BuenPcb(pcb, p), NEW mem, EsMemoria(mem), BuenaMemoria(mem),
           PcbConMemoria(pcb, p, mem), NEW S, TablaDe(pcb.tabla_de_segmentos, S),
           NEW t, TlbUna(t), BuenaTlb(t), EntradasTlb \in {0, 1},
           NEW j \in DOMAIN pcb.instrucciones, NEW i, i = pcb.instrucciones[j], EsAcceso(i),
           NEW dir, dir = obtener_dir_logica(i), dir % AnchoInt = 0,
           <<p, ClaveA(dir)>> \in Claves(t) =>
               LET e == Entrada(mem, PaginaEn(pcb, ClaveA(dir))) IN
               e.presencia /\ e.marco = t.marco[<<p, ClaveA(dir)>>]
    PROVE  Decodificado(decode(pcb, i, mem, t), pcb, dir, mem, t)
<1> DEFINE ts == pcb.tabla_de_segmentos
           n == Len(ts)
           tam_max  == TamMaxSegmento(pagina_config.cantidad_entradas, pagina_config.tamanio_pagina)
           segmento == ts[obtener_nro_segmento(dir, tam_max) + 1]
           y == obtener_nro_pagina(dir, tam_max, pagina_config.tamanio_pagina)
           x == <<segmento.indice_tabla_paginas, y>>
           pedido == PedirMarco(mem, t, pcb.pid, <<segmento.nro_segmento, y>>, x)
           d == decode(pcb, i, mem, t)
           pasa == obtener_desplazamiento_segmento(dir, tam_max) >= segmento.tamanio_segmento
           fis == DireccionFisica(pedido.marco, pagina_config.tamanio_pagina,
                    obtener_desplazamiento_pagina(dir, tam_max, pagina_config.tamanio_pagina))
           sf == [pcb EXCEPT !.segmentation_fault = TRUE]
           pf == [pcb EXCEPT !.page_fault = TRUE, !.pagina_fault = x]
           k == ClaveA(dir)
<1>1. d = IF pasa THEN [pcb |-> sf, tlb |-> t, pagina |-> x, error |-> TRUE]
          ELSE IF pedido.marco = NoEsta
          THEN [pcb |-> pf, tlb |-> t, pagina |-> x, error |-> TRUE]
          ELSE [pcb |-> pcb, tlb |-> pedido.tlb, pagina |-> x, error |-> FALSE,
                direccion_fisica |-> fis]
  BY Zenon DEF decode
<1>2. n \in Nat /\ DOMAIN ts = 1..n
  BY DeLista DEF BuenPcb
<1>3. dir \in 0..(n * TamPagina * EntradasPorTabla - 1)
  <2>1. Direccionable(pcb.instrucciones, n)
    BY DEF PcbConMemoria
  <2> HIDE DEF n
  <2> QED BY <2>1 DEF Direccionable
<1>4. /\ k = <<k[1], k[2]>> /\ k[1] \in Nat /\ k[1] + 1 \in 1..n
      /\ k[2] \in 0..(EntradasPorTabla - 1) /\ (dir % TamMax) % TamPagina = dir % TamPagina
  <2> HIDE DEF n, k
  <2> QED BY <1>2, <1>3, DireccionDe DEF k
<1>5. /\ tam_max = TamMax /\ pagina_config.tamanio_pagina = TamPagina
      /\ obtener_nro_segmento(dir, tam_max) = k[1] /\ y = k[2]
      /\ obtener_desplazamiento_segmento(dir, tam_max) = dir % TamMax
      /\ obtener_desplazamiento_pagina(dir, tam_max, TamPagina) = (dir % TamMax) % TamPagina
  BY ConfiguracionLeida DEF TamMaxSegmento, TamMax, ClaveA, obtener_nro_segmento,
     obtener_nro_pagina, obtener_desplazamiento_segmento, obtener_desplazamiento_pagina
<1> HIDE DEF k, n
<1>6. segmento = ts[k[1] + 1] /\ x = PaginaEn(pcb, k) /\ k[1] + 1 \in DOMAIN ts
  BY <1>2, <1>4, <1>5 DEF PaginaEn
<1>7. <<segmento.nro_segmento, y>> = k
  <2>1. ts[k[1] + 1].nro_segmento = (k[1] + 1) - 1
    BY <1>6 DEF TablaDe
  <2> HIDE DEF ts, y, segmento
  <2> QED BY <1>4, <1>5, <1>6, <2>1
<1>8. x \in LasPaginas(mem)
  BY <1>4, <1>5, <1>6, PaginaPropia
<1>9. pcb.pid = p
  BY DEF BuenPcb
<1> HIDE DEF ts, segmento, y, x, tam_max
<1>10. MarcoBien(PedirMarco(mem, t, p, k, x), mem, t, <<p, k>>, x)
  <2>1. <<p, k>> \in Claves(t) => /\ Entrada(mem, x).presencia
                                  /\ Entrada(mem, x).marco = t.marco[<<p, k>>]
    BY <1>6 DEF k
  <2> QED BY <1>8, <2>1, MarcoDe
<1>11. MarcoBien(pedido, mem, t, <<p, k>>, x)
  BY <1>7, <1>9, <1>10
<1>12. pasa <=> dir % TamMax >= pcb.tabla_de_segmentos[k[1] + 1].tamanio_segmento
  BY <1>5, <1>6 DEF ts
<1>13. pedido.marco = Entrada(mem, x).marco => fis = DirFisica(Entrada(mem, x).marco, dir % TamPagina)
  BY <1>4, <1>5 DEF DireccionFisica, DirFisica
<1> HIDE DEF pedido, pasa, fis, sf, pf, d
<1>14. \/ d.error /\ d.tlb = t /\ pasa /\ d.pcb = sf
       \/ d.error /\ d.tlb = t /\ ~pasa /\ pedido.marco = NoEsta /\ d.pcb = pf
       \/ /\ ~d.error /\ d.pcb = pcb /\ d.pagina = x /\ ~pasa /\ pedido.marco # NoEsta
          /\ d.direccion_fisica = fis /\ d.tlb = pedido.tlb
  BY <1>1
<1>15. pf = [pcb EXCEPT !.page_fault = TRUE, !.pagina_fault = PaginaEn(pcb, k)]
  BY <1>6 DEF pf
<1>16. Decodificado(d, pcb, dir, mem, t)
  <2>1. CASE pasa
    BY <1>12, <1>14, <2>1 DEF Decodificado, k, sf
  <2>2. CASE ~pasa /\ pedido.marco = NoEsta
    <3>1. ~Entrada(mem, x).presencia
      BY <1>11, <2>2 DEF MarcoBien
    <3>2. d.error /\ d.tlb = t /\ d.pcb = pf
      BY <1>14, <2>2
    <3>3. ~(dir % TamMax >= pcb.tabla_de_segmentos[k[1] + 1].tamanio_segmento)
      BY <1>12, <2>2
    <3>4. ~Entrada(mem, PaginaEn(pcb, k)).presencia
      BY <1>6, <3>1
    <3> QED BY <1>15, <3>2, <3>3, <3>4, Zenon DEF Decodificado, k
  <2>3. CASE ~pasa /\ pedido.marco # NoEsta
    <3>1. Entrada(mem, x).presencia /\ pedido.marco = Entrada(mem, x).marco
          /\ TlbDe(pedido.tlb, <<p, k>>, pedido.marco)
      BY <1>11, <2>3 DEF MarcoBien
    <3>2. ~d.error /\ d.pcb = pcb /\ d.pagina = x /\ d.direccion_fisica = fis /\ d.tlb = pedido.tlb
      BY <1>14, <2>3
    <3>3. ~(dir % TamMax >= pcb.tabla_de_segmentos[k[1] + 1].tamanio_segmento)
      BY <1>12, <2>3
    <3>4. d.direccion_fisica = DirFisica(Entrada(mem, x).marco, dir % TamPagina)
          /\ TlbDe(d.tlb, <<pcb.pid, k>>, Entrada(mem, x).marco)
      BY <1>9, <1>13, <3>1, <3>2
    <3> QED BY <1>6, <3>1, <3>2, <3>3, <3>4, Zenon DEF Decodificado, k
  <2> QED BY <2>1, <2>2, <2>3
<1> QED BY <1>16 DEF d

-----------------------------------------------------------------------------
(* The addresses of a console *)

\* Those that are within its segments, and aligned.
LEMMA DireccionPropia ==
    ASSUME ProgramasNormales, NEW c \in Consolas, NEW dir
    PROVE  LET n == Len(Segmentos(c)) IN
           dir \in DireccionesDe(c) <=>
              /\ dir \in 0..(n * TamPagina * EntradasPorTabla - 1) /\ dir % AnchoInt = 0
              /\ dir % TamMax < atoi(Segmentos(c)[ClaveA(dir)[1] + 1])
<1> DEFINE S == Segmentos(c)
           n == Len(S)
           T == TamPagina
           E == EntradasPorTabla
           W(i) == {x \in 0..(atoi(S[i]) - 1) : x % AnchoInt = 0}
<1>1. T \in Nat \ {0} /\ E \in Nat \ {0} /\ T % AnchoInt = 0
  BY ServidorAssumption
<1>2. n \in Nat /\ DOMAIN S = 1..n
  BY DeLista, ArchivosAssumption
<1>3. TamMax \in Nat \ {0} /\ TamMax = E * T /\ T * E = TamMax
  BY <1>1, Producto DEF TamMax
<1>4. \A i \in 1..n : atoi(S[i]) \in Int /\ atoi(S[i]) <= TamMax
  BY <1>2, <1>3, NumeroTexto DEF ProgramasNormales
<1> HIDE DEF S, n, T, E
<1>5. n * T * E = n * TamMax /\ n * TamMax = TamMax * n
  BY <1>1, <1>2, <1>3
<1>6. PICK u \in Nat : TamMax = 4 * u
  <2>1. PICK a \in Nat : T = 4 * a
    <3>1. T = 4 * (T \div 4) + (T % 4) /\ T \div 4 \in Nat
      BY <1>1
    <3>2. T % 4 = 0
      BY <1>1 DEF AnchoInt
    <3> QED BY <3>1, <3>2
  <2>2. TamMax = 4 * (E * a)
    BY <1>1, <1>3, <2>1
  <2> QED BY <1>1, <2>1, <2>2
<1>7. ASSUME dir \in DireccionesDe(c)
      PROVE  /\ dir \in 0..(n * T * E - 1) /\ dir % AnchoInt = 0
             /\ dir % TamMax < atoi(S[ClaveA(dir)[1] + 1])
  <2>1. dir \in UNION {{(i - 1) * TamPagina * EntradasPorTabla + d : d \in W(i)} : i \in DOMAIN S}
    BY <1>7 DEF DireccionesDe, S
  <2>2. PICK i \in DOMAIN S : dir \in {(i - 1) * TamPagina * EntradasPorTabla + d : d \in W(i)}
    BY <2>1, Zenon
  <2>3. PICK d \in W(i) : dir = (i - 1) * T * E + d
    BY <2>2, Zenon DEF T, E
  <2>4. d \in 0..(TamMax - 1) /\ d % AnchoInt = 0 /\ d < atoi(S[i])
    BY <1>2, <1>3, <1>4, <2>2, <2>3
  <2>5. PICK q \in Nat : q = i - 1 /\ q <= n - 1 /\ i = q + 1
    BY <1>2, <2>2
  <2>6. q * T * E = TamMax * q
    BY <1>1, <1>3, <2>5
  <2>7. dir = TamMax * q + d
    BY <2>3, <2>5, <2>6
  <2>8. dir \div TamMax = q /\ dir % TamMax = d
    BY <1>3, <2>4, <2>5, <2>7, Cociente
  <2>9. ClaveA(dir)[1] + 1 = i
    BY <2>5, <2>8 DEF ClaveA
  <2>10. dir \in 0..(n * T * E - 1)
    <3>1. TamMax * q + TamMax = TamMax * (q + 1) /\ TamMax * q \in Nat
      BY <1>3, <2>5
    <3>2. TamMax * (q + 1) <= TamMax * n
      <4>1. TamMax \in Nat /\ n \in Nat /\ q \in Nat /\ q + 1 <= n
        BY <1>2, <1>3, <2>5
      <4>2. PICK k \in Nat : n = (q + 1) + k
        <5>1. n - (q + 1) \in Nat /\ n = (q + 1) + (n - (q + 1))
          BY ONLY <4>1
        <5> QED BY ONLY <5>1
      <4>3. TamMax * n = TamMax * (q + 1) + TamMax * k
        BY ONLY <4>1, <4>2
      <4>4. TamMax * (q + 1) \in Nat /\ TamMax * k \in Nat
        BY ONLY <4>1, <4>2
      <4> QED BY ONLY <4>3, <4>4
    <3> DEFINE z == TamMax * q
               y == TamMax * n
               w == TamMax * (q + 1)
    <3>3. z \in Nat /\ z + TamMax = w
      BY <3>1
    <3>5. y \in Nat /\ w <= y
      BY <1>2, <1>3, <3>2
    <3>6. dir = z + d
      BY <2>7
    <3>4. n * T * E = y
      BY <1>5
    <3> HIDE DEF z, y, w
    <3> QED BY <1>3, <2>4, <3>3, <3>4, <3>5, <3>6
  <2>11. dir % AnchoInt = 0
    <3> DEFINE z == u * q
    <3>1. TamMax * q = 4 * z /\ z \in Nat
      BY <1>6, <2>5
    <3> HIDE DEF z
    <3>2. d % 4 = 0 /\ d \in Nat
      BY <1>3, <2>4 DEF AnchoInt
    <3>3. dir = 4 * z + d
      BY <2>7, <3>1
    <3>4. dir % 4 = 0
      BY <3>1, <3>2, <3>3
    <3> QED BY <3>4 DEF AnchoInt
  <2> QED BY <2>4, <2>8, <2>9, <2>10, <2>11
<1>8. ASSUME dir \in 0..(n * T * E - 1), dir % AnchoInt = 0,
             dir % TamMax < atoi(S[ClaveA(dir)[1] + 1])
      PROVE  dir \in DireccionesDe(c)
  <2>0. n * TamPagina * EntradasPorTabla = n * T * E
    BY DEF T, E
  <2>1. /\ ClaveA(dir)[1] \in Nat /\ ClaveA(dir)[1] + 1 \in 1..n /\ dir \in Nat
        /\ dir % TamMax \in 0..(TamMax - 1)
    BY <1>2, <1>8, <2>0, DireccionDe
  <2>2. PICK q \in Nat : q = ClaveA(dir)[1] /\ q + 1 \in 1..n
    BY <2>1
  <2>3. PICK d \in Nat : d = dir % TamMax
    BY <2>1
  <2>4. dir \div TamMax = q
    BY <2>2 DEF ClaveA
  <2>5. dir = TamMax * q + d
    BY <1>3, <2>1, <2>3, <2>4, Division
  <2>6. d % AnchoInt = 0
    <3> DEFINE z == u * q
    <3>1. TamMax * q = 4 * z /\ z \in Nat
      BY <1>6, <2>2
    <3> HIDE DEF z
    <3>2. dir % 4 = 0
      BY <1>8 DEF AnchoInt
    <3>3. dir = 4 * z + d
      BY <2>5, <3>1
    <3>4. d % 4 = 0
      BY <2>1, <2>3, <3>1, <3>2, <3>3
    <3> QED BY <3>4 DEF AnchoInt
  <2>7. d \in W(q + 1)
    <3>1. d < atoi(S[q + 1]) /\ atoi(S[q + 1]) \in Int
      BY <1>4, <1>8, <2>2, <2>3
    <3> QED BY <2>3, <2>6, <3>1
  <2>8. dir = ((q + 1) - 1) * T * E + d
    <3>1. ((q + 1) - 1) * T * E = TamMax * q
      BY <1>1, <1>3, <2>2
    <3> QED BY <2>5, <3>1
  <2>9. q + 1 \in DOMAIN S
    BY <1>2, <2>2
  <2> HIDE DEF W
  <2>10. dir \in UNION {{(i - 1) * T * E + e : e \in W(i)} : i \in DOMAIN S}
    BY <2>7, <2>8, <2>9
  <2> QED BY <2>10, Zenon DEF DireccionesDe, S, T, E, W
<1> QED BY <1>7, <1>8 DEF S, n, T, E

\* Two addresses of a process are different words.
LEMMA DireccionesDistintas ==
    ASSUME NEW n \in Nat, NEW a \in 0..(n * TamPagina * EntradasPorTabla - 1),
           NEW b \in 0..(n * TamPagina * EntradasPorTabla - 1), a % AnchoInt = 0, b % AnchoInt = 0,
           NEW pcb, NEW S, TablaDe(pcb.tabla_de_segmentos, S), DOMAIN pcb.tabla_de_segmentos = 1..n,
           PaginaEn(pcb, ClaveA(a)) = PaginaEn(pcb, ClaveA(b)), a % TamPagina = b % TamPagina
    PROVE  a = b
<1> DEFINE k == ClaveA(a)
           l == ClaveA(b)
           ts == pcb.tabla_de_segmentos
<1>1. /\ k[1] + 1 \in 1..n /\ k[1] \in Nat
      /\ a = TamMax * k[1] + (TamPagina * k[2] + (a % TamPagina))
  BY DireccionDe
<1>2. /\ l[1] + 1 \in 1..n /\ l[1] \in Nat
      /\ b = TamMax * l[1] + (TamPagina * l[2] + (b % TamPagina))
  BY DireccionDe
<1> HIDE DEF k, l
<1>3. ts[k[1] + 1].indice_tabla_paginas = ts[l[1] + 1].indice_tabla_paginas /\ k[2] = l[2]
  BY DEF PaginaEn, k, l
<1>4. k[1] + 1 = l[1] + 1
  <2>1. \A i, j \in DOMAIN ts : ts[i].indice_tabla_paginas = ts[j].indice_tabla_paginas => i = j
    BY DEF TablaDe
  <2> HIDE DEF ts
  <2> QED BY <1>1, <1>2, <1>3, <2>1 DEF ts
<1>5. k[1] = l[1]
  BY <1>1, <1>2, <1>4
<1> QED BY <1>1, <1>2, <1>3, <1>5

\* The word of an address is in its page.
LEMMA PalabraEnPagina ==
    ASSUME NEW pcb, NEW dir
    PROVE  PalabraDe(pcb, dir) = Palabra(memoria, PaginaEn(pcb, ClaveA(dir)), dir % TamPagina)
<1>1. TamPagina * EntradasPorTabla = TamMax
  BY ServidorAssumption DEF TamMax
<1>2. PalabraDe(pcb, dir) =
         Palabra(memoria, <<pcb.tabla_de_segmentos[(dir \div TamMax) + 1].indice_tabla_paginas,
                            (dir % TamMax) \div TamPagina>>, dir % TamPagina)
  BY <1>1, Zenon DEF PalabraDe
<1>3. PaginaEn(pcb, ClaveA(dir)) =
         <<pcb.tabla_de_segmentos[(dir \div TamMax) + 1].indice_tabla_paginas,
           (dir % TamMax) \div TamPagina>>
  BY DEF PaginaEn, ClaveA
<1> QED BY <1>2, <1>3

-----------------------------------------------------------------------------
(* What an instruction computes *)

\* The conversions between numbers with and without sign.
LEMMA Signos ==
    ASSUME NEW n \in Int
    PROVE  /\ SinSigno(n) \in 0..(Modulo - 1) /\ ConSigno(n) \in Int
           /\ SinSigno(ConSigno(n)) = SinSigno(n) /\ SinSigno(SinSigno(n)) = SinSigno(n)
           /\ n \in 0..(Modulo - 1) => /\ SinSigno(n) = n
                                       /\ ConSigno(n) = IF n < Modulo \div 2 THEN n ELSE n - Modulo
<1> DEFINE M == Modulo
<1>1. M \in Nat \ {0} /\ M \div 2 \in Nat
  BY ModuloAssumption
<1> HIDE DEF M
<1>2. PICK m : m = n % M
  OBVIOUS
<1>3. m \in 0..(M - 1)
  BY <1>1, <1>2
<1>4. m % M = m /\ (m - M) % M = m
  BY <1>1, <1>3
<1>5. n \in 0..(M - 1) => m = n
  BY <1>1, <1>2
<1>6. SinSigno(n) = m /\ SinSigno(m) = m /\ SinSigno(m - M) = m
  BY <1>2, <1>4 DEF SinSigno, M
<1>7. ConSigno(n) = IF m < M \div 2 THEN m ELSE m - M
  BY <1>6 DEF ConSigno, M
<1>8. SinSigno(ConSigno(n)) = m /\ ConSigno(n) \in Int
  BY <1>1, <1>3, <1>6, <1>7
<1> QED BY <1>3, <1>5, <1>6, <1>7, <1>8 DEF M

\* A register that is none of the four is not assigned.
LEMMA Asignado ==
    ASSUME NEW p, NEW pcb, BuenPcb(pcb, p), NEW r, NEW v
    PROVE  set_valor_en_registro(pcb, r, v).registros = [pcb.registros EXCEPT ![r] = SinSigno(v)]
<1>1. /\ DOMAIN pcb = CamposPcb /\ pcb = [x \in CamposPcb |-> pcb[x]]
      /\ pcb.registros \in [NombresRegistros -> 0..(Modulo - 1)]
  BY DEF BuenPcb
<1>2. CASE r \in DOMAIN pcb.registros
  BY <1>1, <1>2 DEF set_valor_en_registro, CamposPcb
<1>3. CASE r \notin DOMAIN pcb.registros
  <2>1. [pcb.registros EXCEPT ![r] = SinSigno(v)] = pcb.registros
    BY <1>1, <1>3
  <2> QED BY <1>3, <2>1 DEF set_valor_en_registro
<1> QED BY <1>2, <1>3

\* ejecutar_add goes through a text, and the sum is the one of the registers.
LEMMA Sumado ==
    ASSUME NEW p, NEW pcb, BuenPcb(pcb, p), NEW r \in NombresRegistros, NEW s \in NombresRegistros
    PROVE  ejecutar_add(pcb, r, s).registros =
              [pcb.registros EXCEPT ![r] = SinSigno(pcb.registros[r] + pcb.registros[s])]
<1>1. PICK n : n = pcb.registros[r] + pcb.registros[s]
  OBVIOUS
<1>2. n \in Int
  BY <1>1, ModuloAssumption DEF BuenPcb
<1>3. PICK m : m = SinSigno(n)
  OBVIOUS
<1>4. m \in Int /\ SinSigno(m) = m
  BY <1>2, <1>3, Signos, ModuloAssumption
<1>5. atoi(string_itoa(m)) = ConSigno(m) /\ SinSigno(ConSigno(m)) = m
  BY <1>4, NumeroEntero, Signos
<1>6. ejecutar_add(pcb, r, s) = set_valor_en_registro(pcb, r, atoi(string_itoa(m)))
  BY <1>1, <1>3 DEF ejecutar_add, set_valor_registro, obtener_valor_del_registro
<1>7. ejecutar_add(pcb, r, s) = set_valor_en_registro(pcb, r, ConSigno(m))
  BY <1>5, <1>6
<1>8. set_valor_en_registro(pcb, r, ConSigno(m)).registros
         = [pcb.registros EXCEPT ![r] = SinSigno(ConSigno(m))]
  BY Asignado
<1> QED BY <1>1, <1>3, <1>5, <1>7, <1>8

\* What MOV_IN leaves in register r, of the word at offset o of page x.
LoCargado(pcb, r, mem, d, x, o) ==
    /\ ejecutar_mov_in(pcb, r, mem, d).registros =
           [pcb.registros EXCEPT ![r] = SinSigno(Palabra(mem, x, o))]
    /\ Palabra(mem, x, o) \in Int

\* ejecutar_mov_in.
LEMMA Cargado ==
    ASSUME NEW p, NEW pcb, BuenPcb(pcb, p), NEW mem, Datos(mem), BuenaMemoria(mem),
           NEW x \in LasPaginas(mem), EsMemoria(mem), Entrada(mem, x).presencia, NEW o \in Offsets,
           NEW d, d.pagina = x, d.direccion_fisica = DirFisica(Entrada(mem, x).marco, o), NEW r
    PROVE  LoCargado(pcb, r, mem, d, x, o)
<1>1. PICK m \in Marcos : m = Entrada(mem, x).marco
  BY EnMarco
<1>2. PICK w : w = mem.espacio[DirFisica(m, o)]
  OBVIOUS
<1>3. w \in Int
  <2>1. mem.espacio \in [DirFisicas -> Int]
    BY DEF Datos
  <2>2. DirFisica(m, o) \in DirFisicas
    BY DirEs
  <2> QED BY <1>2, <2>1, <2>2
<1>4. Palabra(mem, x, o) = w
  BY <1>1, <1>2 DEF Palabra
<1>5. PICK a, b : x = <<a, b>>
  BY DeTabla
<1>6. PICK f : f = Paquete("LEER", empaquetar_pagina(<<a, b>>)) \o Entero(DirFisica(m, o))
  OBVIOUS
<1>7. LeerEntero(TrasPaquete(f), 0) = DirFisica(m, o)
  BY <1>6, PedidoLeido
<1>8. AtenderPedidoDeLectura(mem, f) = ValorConCodigo(w, "OKI_LEER")
  BY <1>2, <1>7 DEF AtenderPedidoDeLectura
<1>9. PICK g : g = ValorConCodigo(w, "OKI_LEER")
  OBVIOUS
<1>10. Operacion(g) = "OKI_LEER" /\ Valor(Buffer(g)) = ConSigno(w)
  BY <1>3, <1>9, ValorSolo, ValorLeido
<1>11. f = Paquete("LEER", empaquetar_pagina(d.pagina)) \o Entero(d.direccion_fisica)
  BY <1>1, <1>5, <1>6
<1>12. ejecutar_mov_in(pcb, r, mem, d)
          = IF Operacion(g) = "OKI_LEER" THEN set_valor_en_registro(pcb, r, Valor(Buffer(g))) ELSE pcb
  BY <1>8, <1>9, <1>11, Zenon DEF ejecutar_mov_in
<1>13. ejecutar_mov_in(pcb, r, mem, d) = set_valor_en_registro(pcb, r, ConSigno(w))
  BY <1>10, <1>12
<1>14. set_valor_en_registro(pcb, r, ConSigno(w)).registros
          = [pcb.registros EXCEPT ![r] = SinSigno(ConSigno(w))]
  BY Asignado
<1>15. SinSigno(ConSigno(w)) = SinSigno(w)
  BY <1>3, Signos
<1> QED BY <1>3, <1>4, <1>13, <1>14, <1>15 DEF LoCargado

\* ejecutar_mov_out.
LEMMA Escrito ==
    ASSUME NEW p, NEW pcb, BuenPcb(pcb, p), NEW mem, Datos(mem), BuenaMemoria(mem),
           NEW x \in LasPaginas(mem), EsMemoria(mem), Vigente(mem, x), NEW o \in Offsets,
           NEW d, d.pagina = x, d.direccion_fisica = DirFisica(Entrada(mem, x).marco, o),
           NEW r \in NombresRegistros
    PROVE  EscritaEn(mem, ejecutar_mov_out(pcb, r, mem, d), x, o, ConSigno(pcb.registros[r]))
<1>1. PICK v : v = ConSigno(pcb.registros[r])
  OBVIOUS
<1>2. v \in Int
  <2>1. pcb.registros[r] \in Int
    BY ModuloAssumption DEF BuenPcb
  <2> QED BY <1>1, <2>1, Signos
<1>3. EscritaEn(mem, AtenderPedidoDeEscritura(mem,
               Paquete("ESCRIBIR", empaquetar_pagina(x))
               \o Entero(DirFisica(Entrada(mem, x).marco, o)) \o Entero(v)).mem, x, o, v)
  BY <1>2, AlEscribirPalabra
<1>4. ejecutar_mov_out(pcb, r, mem, d) = AtenderPedidoDeEscritura(mem,
               Paquete("ESCRIBIR", empaquetar_pagina(x))
               \o Entero(DirFisica(Entrada(mem, x).marco, o)) \o Entero(v)).mem
  BY <1>1, Zenon DEF ejecutar_mov_out, obtener_valor_del_registro
<1> QED BY <1>1, <1>3, <1>4

\* The instructions of a program that can be read.
DelLenguaje == {"SET", "ADD", "MOV_IN", "MOV_OUT", "IO", "EXIT"}
LEMMA Conocidas ==
    ASSUME NEW c \in Consolas, NEW a \in Archivos(c), SePuedeLeer(a),
           NEW i \in DOMAIN obtener_pseudocodigo(a)
    PROVE  obtener_pseudocodigo(a)[i].operacion \in DelLenguaje
<1>1. i \in Leidas(a) /\ obtener_pseudocodigo(a)[i].operacion = string_to_cod_op(a[i][1])
  BY DEF obtener_pseudocodigo, instruccion_create
<1>2. string_to_cod_op(a[i][1]) # "UNKNOWN_OP"
  BY <1>1 DEF SePuedeLeer
<1> QED BY <1>1, <1>2 DEF string_to_cod_op, Operaciones, DelLenguaje

-----------------------------------------------------------------------------
(* A step is of one console, and the others do not notice *)

\* What InvD says of process p.
Propio(p) ==
    /\ Bien(p)
    /\ Admitido(p) /\ ~Acabado(p) =>
          \A k \in Claves(tlb) : k[1] = p => EnTlb(PcbDe(p), memoria, k[2], tlb.marco[k])

\* A step that leaves process p as it is.
Ajeno(p) ==
    /\ (Vive(p)' <=> Vive(p)) /\ (Vive(p) => PcbDe(p)' = PcbDe(p))
    /\ ((p \in Elems(cola_new))' <=> p \in Elems(cola_new))
    /\ ((p \in Elems(cola_exit))' <=> p \in Elems(cola_exit))
    /\ (Vuelve(p)' <=> Vuelve(p)) /\ hilo'[p] = hilo[p] /\ falta'[p] = falta[p]
    /\ hilo[p] = "contestar" => pcbs'[p] = pcbs[p]

\* The memory keeps the pages of p.
Queda(mem, n, p) ==
    /\ Cuerda(n, p) /\ Mantiene(mem, n, p) /\ PaginasDe(n, p) = PaginasDe(mem, p)
    /\ \A x \in PaginasDe(mem, p) : Entrada(n, x) = Entrada(mem, x)

\* A step of console c.
Turno(c) ==
    /\ pid_actual' \in Nat /\ 1..pid_actual \subseteq 1..pid_actual'
    /\ \A p \in 1..pid_actual : consolaDe'[p] = consolaDe[p]
    /\ \A p \in 1..pid_actual' : consolaDe'[p] # c =>
          /\ p \in 1..pid_actual /\ Ajeno(p)
          /\ Cuerda(memoria, p) => Queda(memoria, memoria', p)
    /\ \A d \in Consolas \ {c} :
          /\ haciaKernel'[d] = haciaKernel[d] /\ haciaConsola'[d] = haciaConsola[d]
          /\ pantalla'[d] = pantalla[d]
          /\ (consola'[d] = "muerta" <=> consola[d] = "muerta")
          /\ (consola'[d] = "imprimio" <=> consola[d] = "imprimio")

\* What a step of console c has to say of the TLB.
Claveado(c) ==
    /\ TlbUna(tlb)'
    /\ \A k \in Claves(tlb') : \/ k \in Claves(tlb) /\ tlb'.marco[k] = tlb.marco[k]
                               \/ k[1] \in 1..pid_actual' => consolaDe'[k[1]] = c

\* InvD, process by process.
InvDPorProceso ==
    /\ Datos(memoria) /\ TlbUna(tlb) /\ falta \in [Pids -> BOOLEAN]
    /\ \A p \in Pids : p > pid_actual => ~falta[p]
    /\ \A p \in 1..pid_actual : Propio(p)
LEMMA InvDEs == InvE => (InvD <=> InvDPorProceso)
<1> SUFFICES ASSUME InvE PROVE InvD <=> InvDPorProceso
  OBVIOUS
<1>1. \A p : Admitido(p) => p \in 1..pid_actual
  BY Vivos DEF Admitido, InvE
<1>2. TlbBien <=> TlbUna(tlb) /\ \A k \in Claves(tlb) : Admitido(k[1]) /\ ~Acabado(k[1]) =>
                         EnTlb(PcbDe(k[1]), memoria, k[2], tlb.marco[k])
  BY DEF TlbBien
<1>3. (\A k \in Claves(tlb) : Admitido(k[1]) /\ ~Acabado(k[1]) =>
                         EnTlb(PcbDe(k[1]), memoria, k[2], tlb.marco[k]))
      <=> \A p \in 1..pid_actual : Admitido(p) /\ ~Acabado(p) =>
            \A k \in Claves(tlb) : k[1] = p => EnTlb(PcbDe(p), memoria, k[2], tlb.marco[k])
  BY <1>1, Zenon
<1> QED BY <1>2, <1>3, Zenon DEF InvD, Propio, InvDPorProceso

LEMMA InvDLuego == (InvE => (InvD <=> InvDPorProceso))'
BY InvDEs, PTL

\* The PCB of a process that is left as it is.
LEMMA AjenoEs ==
    ASSUME NEW p, Ajeno(p)
    PROVE  /\ (Admitido(p)' <=> Admitido(p)) /\ (Acabado(p)' <=> Acabado(p))
<1>1. Acabado(p)' <=> Acabado(p)
  <2>1. Acabado(p) <=> ~Vive(p) \/ PcbDe(p).segmentation_fault
                       \/ PcbDe(p).program_counter = Len(PcbDe(p).instrucciones)
    BY DEF Acabado
  <2>2. Acabado(p)' <=> ~Vive(p)' \/ PcbDe(p)'.segmentation_fault
                       \/ PcbDe(p)'.program_counter = Len(PcbDe(p)'.instrucciones)
    BY DEF Acabado
  <2> QED BY <2>1, <2>2, Zenon DEF Ajeno
<1>2. Admitido(p) <=> Vive(p) /\ p \notin Elems(cola_new)
  BY AdmitidoEs
<1>3. Admitido(p)' <=> Vive(p)' /\ ~((p \in Elems(cola_new))')
  BY DEF Admitido, Elems
<1> QED BY <1>1, <1>2, <1>3 DEF Ajeno

\* And what InvD says of it.
LEMMA BienAjeno ==
    ASSUME InvE, InvM, NEW c \in Consolas, Turno(c), Claveado(c), NEW p \in 1..pid_actual',
           consolaDe'[p] # c, p \in 1..pid_actual => Propio(p)
    PROVE  Propio(p)'
<1>1. /\ p \in 1..pid_actual /\ Ajeno(p) /\ Propio(p) /\ consolaDe'[p] = consolaDe[p]
      /\ Cuerda(memoria, p) => Queda(memoria, memoria', p)
  BY DEF Turno
<1>2. consolaDe[p] \in Consolas \ {c}
  BY <1>1, PidsAlcanzan DEF InvE
<1>3. (Admitido(p)' <=> Admitido(p)) /\ (Acabado(p)' <=> Acabado(p))
  BY <1>1, AjenoEs
<1>4. /\ (Vive(p)' <=> Vive(p)) /\ (Vive(p) => PcbDe(p)' = PcbDe(p))
      /\ ((p \in Elems(cola_new))' <=> p \in Elems(cola_new))
      /\ ((p \in Elems(cola_exit))' <=> p \in Elems(cola_exit))
      /\ (Vuelve(p)' <=> Vuelve(p)) /\ hilo'[p] = hilo[p] /\ falta'[p] = falta[p]
      /\ hilo[p] = "contestar" => pcbs'[p] = pcbs[p]
  BY <1>1 DEF Ajeno
<1>5. PICK d : d = consolaDe[p]
  OBVIOUS
<1>6. /\ haciaKernel'[d] = haciaKernel[d] /\ haciaConsola'[d] = haciaConsola[d]
      /\ (consola'[d] = "imprimio" <=> consola[d] = "imprimio")
  BY <1>2, <1>5 DEF Turno
<1>7. ASSUME Vive(p)'
      PROVE  EnRegla(PcbDe(p)', d, (p \in Elems(cola_new))', (p \in Elems(cola_exit))',
                     Vuelve(p)', hilo'[p], falta'[p])
  <2>1. EnRegla(PcbDe(p), d, p \in Elems(cola_new), p \in Elems(cola_exit),
                     Vuelve(p), hilo[p], falta[p])
    BY <1>1, <1>4, <1>5, <1>7 DEF Propio, Bien
  <2>2. PcbDe(p)' = PcbDe(p) /\ hilo'[p] = hilo[p] /\ falta'[p] = falta[p]
    BY <1>4, <1>7
  <2> QED BY <1>4, <2>1, <2>2, Zenon DEF EnRegla
<1>8. ASSUME hilo'[p] = "contestar" PROVE LoDicho(d, pcbs[p], falta[p])'
  <2>1. LoDicho(d, pcbs[p], falta[p])
    BY <1>1, <1>4, <1>5, <1>8 DEF Propio, Bien
  <2>2. pcbs'[p] = pcbs[p] /\ falta'[p] = falta[p]
    BY <1>4, <1>8
  <2> QED BY <1>6, <2>1, <2>2 DEF LoDicho
<1>9. Admitido(p)' /\ ~((p \in Elems(cola_exit))') => Cuerda(memoria', p)
  BY <1>1, <1>3, <1>4 DEF Propio, Bien, Queda
<1>10. falta'[p] => Vive(p)'
  BY <1>1, <1>4 DEF Propio, Bien
<1>11. Bien(p)'
  <2>1. consolaDe'[p] = d
    BY <1>1, <1>5
  <2> QED BY <1>7, <1>8, <1>9, <1>10, <2>1, Zenon DEF Bien
<1>12. ASSUME Admitido(p)', ~Acabado(p)', NEW k \in Claves(tlb'), k[1] = p
       PROVE  EnTlb(PcbDe(p)', memoria', k[2], tlb'.marco[k])
  <2>1. k \in Claves(tlb) /\ tlb'.marco[k] = tlb.marco[k]
    BY <1>12 DEF Claveado
  <2>2. Admitido(p) /\ ~Acabado(p) /\ PcbDe(p)' = PcbDe(p)
    BY <1>3, <1>4, <1>12 DEF Acabado
  <2>3. p \notin Elems(cola_exit)
    <3>1. p \in Elems(cola_exit) => Acabo(p)
      BY DEF Acabo
    <3> QED BY <2>2, <3>1, AcabadoEs
  <2>4. Queda(memoria, memoria', p)
    BY <1>1, <2>2, <2>3 DEF Propio, Bien
  <2>5. EnTlb(PcbDe(p), memoria, k[2], tlb.marco[k])
    BY <1>1, <1>12, <2>1, <2>2 DEF Propio
  <2>6. PICK pcb : pcb = PcbDe(p)
    OBVIOUS
  <2>7. BuenPcb(pcb, p) /\ PcbConMemoria(pcb, p, memoria)
    BY <1>1, <2>2, <2>6, Vivos DEF InvE, InvM, Acabado
  <2>8. PICK l, m : l = k[2] /\ m = tlb.marco[k]
    OBVIOUS
  <2>9. EnTlb(pcb, memoria, l, m)
    BY <2>5, <2>6, <2>8
  <2>10. PaginaEn(pcb, l) \in PaginasDe(memoria, p)
    BY <2>7, <2>9, PaginaPropia DEF EnTlb, PaginaEn
  <2>11. Entrada(memoria', PaginaEn(pcb, l)) = Entrada(memoria, PaginaEn(pcb, l))
    BY <2>4, <2>10 DEF Queda
  <2>12. EnTlb(pcb, memoria', l, m)
    BY <2>9, <2>11 DEF EnTlb
  <2> QED BY <2>1, <2>2, <2>6, <2>8, <2>12
<1> QED BY <1>11, <1>12, Zenon DEF Propio

\* A step of console c keeps InvD, if it does for the process of c.
LEMMA InvDTras ==
    ASSUME InvE, InvM, InvD, InvE', NEW c \in Consolas, Turno(c), Claveado(c), Datos(memoria'),
           falta' \in [Pids -> BOOLEAN], \A p \in Pids : p > pid_actual' => ~falta'[p],
           \A p \in 1..pid_actual' : consolaDe'[p] = c => Propio(p)'
    PROVE  InvD'
<1>1. \A p \in 1..pid_actual' : Propio(p)'
  <2> TAKE p \in 1..pid_actual'
  <2>1. p \in 1..pid_actual => Propio(p)
    BY InvDEs DEF InvDPorProceso
  <2> QED BY <2>1, BienAjeno
<1>2. InvDPorProceso'
  BY <1>1 DEF InvDPorProceso, Claveado
<1> QED BY <1>2, InvDLuego

-----------------------------------------------------------------------------
(* The machine of a console, from its process *)

ProcesoEs(p) ==
    IF p \in Elems(cola_new) THEN [estado |-> "nada"]
    ELSE IF Acabado(p) /\ ~falta[p] THEN [estado |-> "fin"]
    ELSE [estado |-> "corre", programa |-> Traduccion(PcbDe(p).instrucciones),
          pc |-> PcbDe(p).program_counter + (IF falta[p] THEN 0 ELSE 1),
          registros |-> PcbDe(p).registros]
PalabraA(mem, pcb, dir) == Palabra(mem, PaginaEn(pcb, ClaveA(dir)), dir % TamPagina)
MemoriaEs(p, c) ==
    [dir \in DireccionesDe(c) |->
        IF Admitido(p) /\ ~Acabado(p) THEN SinSigno(PalabraA(memoria, PcbDe(p), dir)) ELSE 0]
SinMemoria(c) == [dir \in DireccionesDe(c) |-> 0]

LaMaquina ==
    \A c \in Consolas :
        /\ \A p \in 1..pid_actual : consolaDe[p] = c =>
              ProcesoDe(c) = ProcesoEs(p) /\ MemoriaDe(c) = MemoriaEs(p, c)
        /\ (\A p \in 1..pid_actual : consolaDe[p] # c) =>
              ProcesoDe(c) = [estado |-> "nada"] /\ MemoriaDe(c) = SinMemoria(c)
LEMMA LaMaquinaEs == InvE => LaMaquina
<1> SUFFICES ASSUME InvE, NEW c \in Consolas
             PROVE  /\ \A p \in 1..pid_actual : consolaDe[p] = c =>
                          ProcesoDe(c) = ProcesoEs(p) /\ MemoriaDe(c) = MemoriaEs(p, c)
                    /\ (\A p \in 1..pid_actual : consolaDe[p] # c) =>
                          ProcesoDe(c) = [estado |-> "nada"] /\ MemoriaDe(c) = SinMemoria(c)
  BY DEF LaMaquina
<1>1. ASSUME NEW p \in 1..pid_actual, consolaDe[p] = c
      PROVE  ProcesoDe(c) = ProcesoEs(p) /\ MemoriaDe(c) = MemoriaEs(p, c)
  <2>1. Procesos(c) = {p}
    BY <1>1, ProcesosDe DEF InvE
  <2>2. (CHOOSE q \in {p} : TRUE) = p
    OBVIOUS
  <2>3. ProcesoDe(c) = ProcesoEs(p)
    <3> DEFINE nacidos == {q \in Procesos(c) : \A i \in DOMAIN cola_new : cola_new[i] # q}
    <3>1. CASE p \in Elems(cola_new)
      <4>1. nacidos = {}
        BY <2>1, <3>1 DEF Elems
      <4> QED BY <3>1, <4>1, Zenon DEF ProcesoDe, ProcesoEs
    <3>2. CASE p \notin Elems(cola_new)
      <4>1. nacidos = {p}
        BY <2>1, <3>2 DEF Elems
      <4>2. nacidos # {} /\ (CHOOSE q \in nacidos : TRUE) = p
        BY <2>2, <4>1
      <4> QED BY <3>2, <4>2, Zenon DEF ProcesoDe, ProcesoEs
    <3> QED BY <3>1, <3>2
  <2>4. CASE Admitido(p) /\ ~Acabado(p)
    <3>1. {q \in Procesos(c) : Admitido(q) /\ ~Acabado(q)} = {p}
      BY <2>1, <2>4
    <3>2. \A dir \in DireccionesDe(c) :
             MemoriaDe(c)[dir] = SinSigno(PalabraDe(PcbDe(p), dir))
      BY <2>2, <3>1, Zenon DEF MemoriaDe
    <3>3. DOMAIN MemoriaDe(c) = DireccionesDe(c)
          /\ MemoriaDe(c) = [dir \in DireccionesDe(c) |-> MemoriaDe(c)[dir]]
      BY DEF MemoriaDe
    <3>4. PICK pcb : pcb = PcbDe(p)
      OBVIOUS
    <3>5. \A dir \in DireccionesDe(c) :
             MemoriaDe(c)[dir] = SinSigno(PalabraA(memoria, pcb, dir))
      BY <3>2, <3>4, PalabraEnPagina DEF PalabraA
    <3>6. MemoriaEs(p, c) = [dir \in DireccionesDe(c) |-> SinSigno(PalabraA(memoria, pcb, dir))]
      BY <2>4, <3>4 DEF MemoriaEs
    <3> QED BY <2>3, <3>3, <3>5, <3>6
  <2>5. CASE ~(Admitido(p) /\ ~Acabado(p))
    <3>1. {q \in Procesos(c) : Admitido(q) /\ ~Acabado(q)} = {}
      BY <2>1, <2>5
    <3>2. MemoriaDe(c) = [dir \in DireccionesDe(c) |-> 0]
      BY <3>1, Zenon DEF MemoriaDe
    <3>3. MemoriaEs(p, c) = [dir \in DireccionesDe(c) |-> 0]
      BY <2>5 DEF MemoriaEs
    <3> QED BY <2>3, <3>2, <3>3
  <2> QED BY <2>4, <2>5
<1>2. ASSUME \A p \in 1..pid_actual : consolaDe[p] # c
      PROVE  ProcesoDe(c) = [estado |-> "nada"] /\ MemoriaDe(c) = SinMemoria(c)
  <2>1. Procesos(c) = {}
    BY <1>2, ProcesosDe DEF InvE
  <2>2. {q \in Procesos(c) : Admitido(q) /\ ~Acabado(q)} = {}
    BY <2>1
  <2>3. MemoriaDe(c) = SinMemoria(c)
    BY <2>2, Zenon DEF MemoriaDe, SinMemoria
  <2>4. {p \in Procesos(c) : \A i \in DOMAIN cola_new : cola_new[i] # p} = {}
    BY <2>1
  <2> QED BY <2>3, <2>4, Zenon DEF ProcesoDe
<1> QED BY <1>1, <1>2

LEMMA LaMaquinaLuego == (InvE => LaMaquina)'
BY LaMaquinaEs, PTL

\* The page of an address of the console of a process.
LEMMA PaginaDeDireccion ==
    ASSUME InvE, InvM, InvD, ProgramasNormales, NEW p \in 1..pid_actual, Admitido(p),
           NEW dir \in DireccionesDe(consolaDe[p])
    PROVE  PaginaEn(PcbDe(p), ClaveA(dir)) \in PaginasDe(memoria, p) /\ dir % TamPagina \in Offsets
<1>1. PICK c \in Consolas : c = consolaDe[p]
  BY PidsAlcanzan DEF InvE
<1>2. PICK pcb : pcb = PcbDe(p)
  OBVIOUS
<1>3. Vive(p) /\ p \notin Elems(cola_new)
  BY AdmitidoEs
<1>4. BuenPcb(pcb, p) /\ PcbConMemoria(pcb, p, memoria)
  BY <1>2, <1>3, Vivos DEF InvE, InvM
<1>5. TablaDe(pcb.tabla_de_segmentos, Segmentos(c))
  <2>1. Bien(p)
    BY DEF InvD
  <2> QED BY <1>1, <1>2, <1>3, <2>1 DEF Bien, EnRegla
<1>6. /\ Len(pcb.tabla_de_segmentos) = Len(Segmentos(c)) /\ Len(Segmentos(c)) \in Nat
      /\ DOMAIN pcb.tabla_de_segmentos = 1..Len(Segmentos(c))
  <2>1. Len(pcb.tabla_de_segmentos) = Len(Segmentos(c))
    BY <1>5 DEF TablaDe
  <2>2. EsLista(pcb.tabla_de_segmentos)
    BY <1>4 DEF BuenPcb
  <2> QED BY <2>1, <2>2, DeLista
<1>7. dir \in 0..(Len(Segmentos(c)) * TamPagina * EntradasPorTabla - 1) /\ dir % AnchoInt = 0
  BY <1>1, DireccionPropia
<1>8. PICK n \in Nat : n = Len(Segmentos(c))
  BY <1>6
<1>9. PICK k : k = ClaveA(dir)
  OBVIOUS
<1>10. k[1] + 1 \in 1..n /\ k[2] \in 0..(EntradasPorTabla - 1) /\ dir % TamPagina \in Offsets
  BY <1>7, <1>8, <1>9, DireccionDe
<1>11. PaginaEn(pcb, k) \in PaginasDe(memoria, p)
  BY <1>4, <1>6, <1>8, <1>10, PaginaPropia DEF PaginaEn
<1> QED BY <1>2, <1>9, <1>10, <1>11

\* A process that keeps its segments and its words keeps its memory.
LEMMA MemoriaMantenida ==
    ASSUME InvE, InvM, InvD, ProgramasNormales, NEW p \in 1..pid_actual,
           Admitido(p)' /\ ~(Acabado(p)') <=> Admitido(p) /\ ~Acabado(p),
           Admitido(p) /\ ~Acabado(p) =>
              /\ PcbDe(p)'.tabla_de_segmentos = PcbDe(p).tabla_de_segmentos
              /\ Mantiene(memoria, memoria', p)
    PROVE  MemoriaEs(p, consolaDe[p])' = MemoriaEs(p, consolaDe[p])
           \/ consolaDe'[p] # consolaDe[p]
<1> SUFFICES ASSUME consolaDe'[p] = consolaDe[p]
             PROVE  MemoriaEs(p, consolaDe[p])' = MemoriaEs(p, consolaDe[p])
  OBVIOUS
<1>1. PICK c : c = consolaDe[p]
  OBVIOUS
<1>2. MemoriaEs(p, consolaDe[p])' = MemoriaEs(p, c)'
  BY <1>1 DEF MemoriaEs
<1>3. CASE Admitido(p) /\ ~Acabado(p)
  <2>1. PICK pcb, n : pcb = PcbDe(p) /\ n = PcbDe(p)'
    OBVIOUS
  <2>2. n.tabla_de_segmentos = pcb.tabla_de_segmentos
    BY <1>3, <2>1
  <2>3. ASSUME NEW dir \in DireccionesDe(c)
        PROVE  PalabraA(memoria', n, dir) = PalabraA(memoria, pcb, dir)
    <3>1. PaginaEn(pcb, ClaveA(dir)) \in PaginasDe(memoria, p) /\ dir % TamPagina \in Offsets
      BY <1>1, <1>3, <2>1, PaginaDeDireccion
    <3>2. PaginaEn(n, ClaveA(dir)) = PaginaEn(pcb, ClaveA(dir))
      BY <2>2 DEF PaginaEn
    <3> QED BY <1>3, <3>1, <3>2 DEF Mantiene, PalabraA
  <2>4. MemoriaEs(p, c) = [dir \in DireccionesDe(c) |-> SinSigno(PalabraA(memoria, pcb, dir))]
    BY <1>3, <2>1 DEF MemoriaEs
  <2>5. MemoriaEs(p, c)' = [dir \in DireccionesDe(c) |-> SinSigno(PalabraA(memoria', n, dir))]
    BY <1>3, <2>1 DEF MemoriaEs
  <2> QED BY <1>1, <1>2, <2>3, <2>4, <2>5
<1>4. CASE ~(Admitido(p) /\ ~Acabado(p))
  <2>1. MemoriaEs(p, c) = [dir \in DireccionesDe(c) |-> 0]
    BY <1>4 DEF MemoriaEs
  <2>2. MemoriaEs(p, c)' = [dir \in DireccionesDe(c) |-> 0]
    BY <1>4 DEF MemoriaEs
  <2> QED BY <1>1, <1>2, <2>1, <2>2
<1> QED BY <1>3, <1>4

\* In a step of console c, the machine of any other does nothing.
LEMMA OtraConsola ==
    ASSUME InvE, InvM, InvD, InvE', ProgramasNormales, NEW c \in Consolas, Turno(c),
           NEW d \in Consolas \ {c}
    PROVE  /\ ProcesoDe(d)' = ProcesoDe(d) /\ MemoriaDe(d)' = MemoriaDe(d)
           /\ TecleadoDe(d)' = TecleadoDe(d)
           /\ (consola'[d] # "muerta") = (consola[d] # "muerta")
<1>1. TecleadoDe(d)' = TecleadoDe(d) /\ (consola'[d] # "muerta") = (consola[d] # "muerta")
  <2>1. haciaKernel'[d] = haciaKernel[d] /\ (consola'[d] = "muerta" <=> consola[d] = "muerta")
    BY DEF Turno
  <2> QED BY <2>1 DEF TecleadoDe
<1>2. LaMaquina /\ LaMaquina'
  BY LaMaquinaEs, LaMaquinaLuego
<1>3. CASE \E p \in 1..pid_actual' : consolaDe'[p] = d
  <2>1. PICK p \in 1..pid_actual' : consolaDe'[p] = d
    BY <1>3
  <2>2. /\ p \in 1..pid_actual /\ Ajeno(p) /\ consolaDe[p] = d
        /\ Cuerda(memoria, p) => Queda(memoria, memoria', p)
    BY <2>1 DEF Turno
  <2>3. ProcesoDe(d) = ProcesoEs(p) /\ MemoriaDe(d) = MemoriaEs(p, d)
    BY <1>2, <2>2 DEF LaMaquina
  <2>4. ProcesoDe(d)' = ProcesoEs(p)' /\ MemoriaDe(d)' = MemoriaEs(p, d)'
    BY <1>2, <2>1 DEF LaMaquina
  <2>5. (Admitido(p)' <=> Admitido(p)) /\ (Acabado(p)' <=> Acabado(p))
    BY <2>2, AjenoEs
  <2>6. Bien(p)
    BY <2>2 DEF InvD
  <2>7. ProcesoEs(p)' = ProcesoEs(p)
    <3>1. /\ falta'[p] = falta[p] /\ (Vive(p) => PcbDe(p)' = PcbDe(p))
          /\ (p \in Elems(cola_new))' <=> p \in Elems(cola_new)
      BY <2>2 DEF Ajeno
    <3>2. CASE Vive(p)
      BY <2>5, <3>1, <3>2 DEF ProcesoEs
    <3>3. CASE ~Vive(p)
      <4>1. ~falta[p] /\ Acabado(p)
        BY <2>6, <3>3 DEF Bien, Acabado
      <4> QED BY <2>5, <3>1, <4>1 DEF ProcesoEs
    <3> QED BY <3>2, <3>3
  <2>8. MemoriaEs(p, d)' = MemoriaEs(p, d)
    <3>1. ASSUME Admitido(p), ~Acabado(p)
          PROVE  /\ PcbDe(p)'.tabla_de_segmentos = PcbDe(p).tabla_de_segmentos
                 /\ Mantiene(memoria, memoria', p)
      <4>1. p \notin Elems(cola_exit)
        <5>1. p \in Elems(cola_exit) => Acabo(p)
          BY DEF Acabo
        <5> QED BY <3>1, <5>1, AcabadoEs
      <4>2. Queda(memoria, memoria', p)
        BY <2>2, <2>6, <3>1, <4>1 DEF Bien
      <4>3. PcbDe(p)' = PcbDe(p)
        BY <2>2, <3>1 DEF Ajeno, Acabado
      <4> QED BY <4>2, <4>3 DEF Queda
    <3>2. MemoriaEs(p, consolaDe[p])' = MemoriaEs(p, consolaDe[p])
          \/ consolaDe'[p] # consolaDe[p]
      BY <2>2, <2>5, <3>1, MemoriaMantenida
    <3>4. MemoriaEs(p, d)' = MemoriaEs(p, consolaDe[p])'
      BY <2>1, <2>2 DEF MemoriaEs
    <3> QED BY <2>1, <2>2, <3>2, <3>4
  <2> QED BY <1>1, <2>3, <2>4, <2>7, <2>8
<1>4. CASE \A p \in 1..pid_actual' : consolaDe'[p] # d
  <2>1. \A p \in 1..pid_actual : consolaDe[p] # d
    BY <1>4 DEF Turno
  <2>2. ProcesoDe(d) = [estado |-> "nada"] /\ MemoriaDe(d) = SinMemoria(d)
    BY <1>2, <2>1 DEF LaMaquina
  <2>3. ProcesoDe(d)' = [estado |-> "nada"] /\ MemoriaDe(d)' = SinMemoria(d)
    BY <1>2, <1>4 DEF LaMaquina, SinMemoria
  <2> QED BY <1>1, <2>2, <2>3
<1> QED BY <1>3, <1>4

\* The variables of Maquina in a step of console c.
LosProcesos == [c \in Consolas |-> ProcesoDe(c)]
LasMemorias == [c \in Consolas |-> MemoriaDe(c)]
LoTecleado == [c \in Consolas |-> TecleadoDe(c)]
LosPresentes == [c \in Consolas |-> consola[c] # "muerta"]

Pasado(c) ==
    /\ LosProcesos' = [LosProcesos EXCEPT ![c] = ProcesoDe(c)']
    /\ LasMemorias' = [LasMemorias EXCEPT ![c] = MemoriaDe(c)']
    /\ LoTecleado' = [LoTecleado EXCEPT ![c] = TecleadoDe(c)']
    /\ LosPresentes' = [LosPresentes EXCEPT ![c] = (consola'[c] # "muerta")]
LEMMA Pasa ==
    ASSUME InvE, InvM, InvD, InvE', ProgramasNormales, NEW c \in Consolas, Turno(c)
    PROVE  Pasado(c)
<1>1. \A d \in Consolas \ {c} :
           /\ ProcesoDe(d)' = ProcesoDe(d) /\ MemoriaDe(d)' = MemoriaDe(d)
           /\ TecleadoDe(d)' = TecleadoDe(d)
           /\ (consola'[d] # "muerta") = (consola[d] # "muerta")
  BY OtraConsola
<1>2. LosProcesos' = [LosProcesos EXCEPT ![c] = ProcesoDe(c)']
  <2>1. LosProcesos' = [d \in Consolas |-> ProcesoDe(d)']
    BY DEF LosProcesos
  <2> QED BY <1>1, <2>1, Zenon DEF LosProcesos
<1>3. LasMemorias' = [LasMemorias EXCEPT ![c] = MemoriaDe(c)']
  <2>1. LasMemorias' = [d \in Consolas |-> MemoriaDe(d)']
    BY DEF LasMemorias
  <2> QED BY <1>1, <2>1, Zenon DEF LasMemorias
<1>4. LoTecleado' = [LoTecleado EXCEPT ![c] = TecleadoDe(c)']
  <2>1. LoTecleado' = [d \in Consolas |-> TecleadoDe(d)']
    BY DEF LoTecleado
  <2> QED BY <1>1, <2>1, Zenon DEF LoTecleado
<1>5. LosPresentes' = [LosPresentes EXCEPT ![c] = (consola'[c] # "muerta")]
  <2>1. LosPresentes' = [d \in Consolas |-> (consola'[d] # "muerta")]
    BY DEF LosPresentes
  <2> QED BY <1>1, <2>1, Zenon DEF LosPresentes
<1> QED BY <1>2, <1>3, <1>4, <1>5 DEF Pasado

-----------------------------------------------------------------------------
(* The steps of Maquina *)

MaqVars == <<LosProcesos, LasMemorias, LoTecleado, pantalla, LosPresentes>>
EnMarcha(c, L, k, R) ==
    ProcesoDe(c) = [estado |-> "corre", programa |-> L, pc |-> k, registros |-> R]

\* The process of a console goes on with its next instruction.
LEMMA MaqSigue ==
    ASSUME NEW c \in Consolas, NEW L, NEW k, NEW R, EnMarcha(c, L, k, R), Pasado(c)
    PROVE  /\ EnMarcha(c, L, k + 1, R)' => Maq!Seguir(c)
           /\ \A r, v : EnMarcha(c, L, k + 1, [R EXCEPT ![r] = v % Modulo])' =>
                 Maq!SeguirAsignando(c, r, v)
           /\ Maq!Instruccion(c) = L[k]
           /\ \A op : Maq!Toca(c, op) <=> L[k].op = op
           /\ \A r : Maq!Registro(c, r) = R[r]
<1> DEFINE P == LosProcesos
           X == ProcesoDe(c)
<1>1. P = [d \in Consolas |-> ProcesoDe(d)] /\ P[c] = X
  BY DEF LosProcesos
<1>2. X.estado = "corre" /\ X.programa = L /\ X.pc = k /\ X.registros = R
      /\ X = [estado |-> "corre", programa |-> L, pc |-> k, registros |-> R]
  BY DEF EnMarcha
<1>3. P' = [P EXCEPT ![c] = ProcesoDe(c)']
  BY DEF Pasado
<1>4. Maq!Instruccion(c) = L[k] /\ (\A op : Maq!Toca(c, op) <=> L[k].op = op)
      /\ (\A r : Maq!Registro(c, r) = R[r])
  BY <1>1, <1>2 DEF Maq!Instruccion, Maq!Toca, Maq!Registro
<1>5. /\ Maq!Seguir(c) <=> P' = [P EXCEPT ![c].pc = @ + 1]
      /\ \A r, v : Maq!SeguirAsignando(c, r, v) <=>
            P' = [P EXCEPT ![c].pc = @ + 1, ![c].registros[r] = v % Modulo]
  BY Zenon DEF Maq!Seguir, Maq!SeguirAsignando, LosProcesos
<1>6. DOMAIN P = Consolas
  BY DEF LosProcesos
<1> HIDE DEF P, X
<1>7. ASSUME EnMarcha(c, L, k + 1, R)' PROVE Maq!Seguir(c)
  <2>1. ProcesoDe(c)' = [estado |-> "corre", programa |-> L, pc |-> k + 1, registros |-> R]
    BY <1>7 DEF EnMarcha
  <2>2. [X EXCEPT !.pc = X.pc + 1] = [estado |-> "corre", programa |-> L, pc |-> k + 1, registros |-> R]
    BY <1>2
  <2>3. P' = [P EXCEPT ![c].pc = @ + 1]
    BY <1>1, <1>3, <1>6, <2>1, <2>2
  <2> QED BY <1>5, <2>3
<1>8. ASSUME NEW r, NEW v, EnMarcha(c, L, k + 1, [R EXCEPT ![r] = v % Modulo])'
      PROVE  Maq!SeguirAsignando(c, r, v)
  <2>1. PICK S : S = [R EXCEPT ![r] = v % Modulo]
    OBVIOUS
  <2>2. ProcesoDe(c)' = [estado |-> "corre", programa |-> L, pc |-> k + 1, registros |-> S]
    BY <1>8, <2>1 DEF EnMarcha
  <2>3. PICK Y : Y = [X EXCEPT !.pc = X.pc + 1]
    OBVIOUS
  <2>4. Y = [estado |-> "corre", programa |-> L, pc |-> k + 1, registros |-> R]
    BY <1>2, <2>3
  <2>5. [Y EXCEPT !.registros = [Y.registros EXCEPT ![r] = v % Modulo]] = ProcesoDe(c)'
    BY <2>1, <2>2, <2>4
  <2>6. PICK Q : Q = [P EXCEPT ![c].pc = @ + 1]
    OBVIOUS
  <2>7. Q = [P EXCEPT ![c] = Y] /\ Q[c] = Y
    BY <1>1, <1>6, <2>3, <2>6
  <2>8. [Q EXCEPT ![c].registros[r] = v % Modulo] = [P EXCEPT ![c] = ProcesoDe(c)']
    <3>1. [Q EXCEPT ![c].registros[r] = v % Modulo] = [Q EXCEPT ![c] = ProcesoDe(c)']
      BY <2>5, <2>7
    <3> QED BY <1>1, <1>6, <2>7, <3>1
  <2>9. P' = [P EXCEPT ![c].pc = @ + 1, ![c].registros[r] = v % Modulo]
    BY <1>3, <2>6, <2>8, Zenon
  <2> QED BY <1>5, <2>9
<1> QED BY <1>4, <1>7, <1>8

MemQuieta(c) == MemoriaDe(c)' = MemoriaDe(c)
DichoQuieto(c) ==
    /\ TecleadoDe(c)' = TecleadoDe(c) /\ pantalla' = pantalla
    /\ (consola'[c] # "muerta") = (consola[c] # "muerta")

LEMMA Quietas ==
    ASSUME NEW c \in Consolas, Pasado(c)
    PROVE  /\ ProcesoDe(c)' = ProcesoDe(c) => LosProcesos' = LosProcesos
           /\ MemQuieta(c) => LasMemorias' = LasMemorias
           /\ DichoQuieto(c) => LoTecleado' = LoTecleado /\ LosPresentes' = LosPresentes
<1>1. /\ LosProcesos = [d \in Consolas |-> ProcesoDe(d)] /\ LasMemorias = [d \in Consolas |-> MemoriaDe(d)]
      /\ LoTecleado = [d \in Consolas |-> TecleadoDe(d)]
      /\ LosPresentes = [d \in Consolas |-> consola[d] # "muerta"]
  BY DEF LosProcesos, LasMemorias, LoTecleado, LosPresentes
<1>2. /\ LosProcesos = [LosProcesos EXCEPT ![c] = ProcesoDe(c)]
      /\ LasMemorias = [LasMemorias EXCEPT ![c] = MemoriaDe(c)]
      /\ LoTecleado = [LoTecleado EXCEPT ![c] = TecleadoDe(c)]
      /\ LosPresentes = [LosPresentes EXCEPT ![c] = (consola[c] # "muerta")]
  BY <1>1
<1> QED BY <1>2, Zenon DEF Pasado, MemQuieta, DichoQuieto

LEMMA MaqQuieta ==
    ASSUME NEW c \in Consolas, Pasado(c), ProcesoDe(c)' = ProcesoDe(c), MemQuieta(c), DichoQuieto(c)
    PROVE  MaqVars' = MaqVars
BY Quietas DEF MaqVars, DichoQuieto

\* Registers: SET, ADD, and the wait for a device.
LEMMA MaqCalcula ==
    ASSUME NEW c \in Consolas, NEW L, NEW k, NEW R, EnMarcha(c, L, k, R), Pasado(c),
           MemQuieta(c), DichoQuieto(c),
           \/ /\ L[k].op = "SET"
              /\ EnMarcha(c, L, k + 1, [R EXCEPT ![L[k].r] = L[k].n % Modulo])'
           \/ /\ L[k].op = "ADD"
              /\ EnMarcha(c, L, k + 1, [R EXCEPT ![L[k].r] = (R[L[k].r] + R[L[k].s]) % Modulo])'
           \/ L[k].op = "ESPERA" /\ EnMarcha(c, L, k + 1, R)'
    PROVE  Maq!Next
<1>1. UNCHANGED <<LasMemorias, LoTecleado, pantalla, LosPresentes>>
  BY Quietas DEF DichoQuieto
<1>2. \/ Maq!Toca(c, "SET")
         /\ Maq!SeguirAsignando(c, Maq!Instruccion(c).r, Maq!Instruccion(c).n)
      \/ Maq!Toca(c, "ADD")
         /\ Maq!SeguirAsignando(c, Maq!Instruccion(c).r,
               Maq!Registro(c, Maq!Instruccion(c).r) + Maq!Registro(c, Maq!Instruccion(c).s))
      \/ Maq!Toca(c, "ESPERA") /\ Maq!Seguir(c)
  <2>1. /\ Maq!Instruccion(c) = L[k] /\ \A op : Maq!Toca(c, op) <=> L[k].op = op
    BY MaqSigue
  <2>2. \A r : Maq!Registro(c, r) = R[r]
    BY MaqSigue
  <2>3. EnMarcha(c, L, k + 1, R)' => Maq!Seguir(c)
    BY MaqSigue
  <2>4. \A r, v : EnMarcha(c, L, k + 1, [R EXCEPT ![r] = v % Modulo])' =>
                 Maq!SeguirAsignando(c, r, v)
    BY MaqSigue
  <2>5. ASSUME L[k].op = "SET",
               EnMarcha(c, L, k + 1, [R EXCEPT ![L[k].r] = L[k].n % Modulo])'
        PROVE  Maq!Toca(c, "SET")
               /\ Maq!SeguirAsignando(c, Maq!Instruccion(c).r, Maq!Instruccion(c).n)
    BY <2>1, <2>4, <2>5, Zenon
  <2>6. ASSUME L[k].op = "ADD",
               EnMarcha(c, L, k + 1, [R EXCEPT ![L[k].r] = (R[L[k].r] + R[L[k].s]) % Modulo])'
        PROVE  Maq!Toca(c, "ADD")
               /\ Maq!SeguirAsignando(c, Maq!Instruccion(c).r,
                    Maq!Registro(c, Maq!Instruccion(c).r) + Maq!Registro(c, Maq!Instruccion(c).s))
    BY <2>1, <2>2, <2>4, <2>6, Zenon
  <2> QED BY <2>1, <2>3, <2>5, <2>6, Zenon
<1>3. Maq!Calcular(c)
  BY <1>1, <1>2, Zenon DEF Maq!Calcular, LasMemorias, LoTecleado, LosPresentes
<1> QED BY <1>3, Zenon DEF Maq!Next

\* The memory: MOV_IN and MOV_OUT.
LEMMA MaqAccede ==
    ASSUME NEW c \in Consolas, NEW L, NEW k, NEW R, EnMarcha(c, L, k, R), Pasado(c),
           DichoQuieto(c), L[k].dir \in DireccionesDe(c),
           \/ /\ L[k].op = "MOV_IN" /\ MemQuieta(c)
              /\ \E v : /\ v = MemoriaDe(c)[L[k].dir]
                        /\ EnMarcha(c, L, k + 1, [R EXCEPT ![L[k].r] = v % Modulo])'
           \/ /\ L[k].op = "MOV_OUT" /\ EnMarcha(c, L, k + 1, R)'
              /\ MemoriaDe(c)' = [MemoriaDe(c) EXCEPT ![L[k].dir] = R[L[k].r]]
    PROVE  Maq!Next
<1>1. UNCHANGED <<LoTecleado, pantalla, LosPresentes>>
  BY Quietas DEF DichoQuieto
<1>2. LasMemorias[c] = MemoriaDe(c) /\ DOMAIN LasMemorias = Consolas
  BY DEF LasMemorias
<1>3. /\ Maq!Toca(c, "MOV_IN") \/ Maq!Toca(c, "MOV_OUT")
      /\ Maq!Instruccion(c).dir \in DireccionesDe(c)
      /\ Maq!Instruccion(c) = L[k]
  <2>1. /\ Maq!Instruccion(c) = L[k] /\ \A op : Maq!Toca(c, op) <=> L[k].op = op
    BY MaqSigue
  <2> QED BY <2>1
<1>4. CASE L[k].op = "MOV_IN"
  <2>0. MemQuieta(c)
    BY <1>4
  <2>01. PICK v : /\ v = MemoriaDe(c)[L[k].dir]
                  /\ EnMarcha(c, L, k + 1, [R EXCEPT ![L[k].r] = v % Modulo])'
    BY <1>4
  <2>1. LasMemorias' = LasMemorias
    BY <2>0, Quietas
  <2>2. Maq!SeguirAsignando(c, Maq!Instruccion(c).r, MemoriaDe(c)[Maq!Instruccion(c).dir])
    <3>1. \A r, w : EnMarcha(c, L, k + 1, [R EXCEPT ![r] = w % Modulo])' =>
                 Maq!SeguirAsignando(c, r, w)
      BY MaqSigue
    <3>3. Maq!SeguirAsignando(c, L[k].r, v)
      BY <2>01, <3>1, Zenon
    <3>4. Maq!Instruccion(c) = L[k]
      BY <1>3
    <3> QED BY <2>01, <3>3, <3>4, Zenon
  <2>3. Maq!SeguirAsignando(c, Maq!Instruccion(c).r, LasMemorias[c][Maq!Instruccion(c).dir])
    BY <1>2, <2>2, Zenon
  <2>4. Maq!Acceder(c)
    BY <1>1, <1>3, <1>4, <2>1, <2>3, Zenon DEF Maq!Acceder, LasMemorias, LoTecleado, LosPresentes
  <2> QED BY <2>4, Zenon DEF Maq!Next
<1>5. CASE L[k].op = "MOV_OUT"
  <2>0. /\ EnMarcha(c, L, k + 1, R)'
        /\ MemoriaDe(c)' = [MemoriaDe(c) EXCEPT ![L[k].dir] = R[L[k].r]]
    BY <1>5
  <2>1. Maq!Seguir(c) /\ Maq!Registro(c, Maq!Instruccion(c).r) = R[L[k].r]
    <3>1. \A r : Maq!Registro(c, r) = R[r]
      BY MaqSigue
    <3>2. Maq!Seguir(c)
      BY <2>0, MaqSigue
    <3> QED BY <1>3, <3>1, <3>2
  <2>2. LasMemorias' = [LasMemorias EXCEPT ![c] = [LasMemorias[c] EXCEPT ![L[k].dir] = R[L[k].r]]]
    BY <1>2, <2>0 DEF Pasado
  <2>3. LasMemorias' = [LasMemorias EXCEPT ![c][Maq!Instruccion(c).dir] =
                            Maq!Registro(c, Maq!Instruccion(c).r)]
    BY <1>3, <2>1, <2>2, Zenon
  <2>4. Maq!Instruccion(c).op # "MOV_IN"
    BY <1>3, <1>5
  <2>5. Maq!Acceder(c)
    BY <1>1, <1>3, <2>1, <2>3, <2>4, Zenon DEF Maq!Acceder, LasMemorias, LoTecleado, LosPresentes
  <2> QED BY <2>5, Zenon DEF Maq!Next
<1> QED BY <1>4, <1>5

\* EXIT, or an access out of the segments.
LEMMA MaqTermina ==
    ASSUME NEW c \in Consolas, NEW L, NEW k, NEW R, EnMarcha(c, L, k, R), Pasado(c),
           DichoQuieto(c), ProcesoDe(c)' = [estado |-> "fin"],
           \/ L[k].op = "EXIT"
           \/ L[k].op \in {"MOV_IN", "MOV_OUT"} /\ L[k].dir \notin DireccionesDe(c),
           MemoriaDe(c)' \in [DireccionesDe(c) -> 0..(Modulo - 1)]
    PROVE  Maq!Next
<1>1. UNCHANGED <<LoTecleado, pantalla, LosPresentes>>
  BY Quietas DEF DichoQuieto
<1>2. \/ Maq!Toca(c, "EXIT")
      \/ /\ Maq!Toca(c, "MOV_IN") \/ Maq!Toca(c, "MOV_OUT")
         /\ Maq!Instruccion(c).dir \notin DireccionesDe(c)
  <2>1. /\ Maq!Instruccion(c) = L[k] /\ \A op : Maq!Toca(c, op) <=> L[k].op = op
    BY MaqSigue
  <2> QED BY <2>1
<1>3. LosProcesos' = [LosProcesos EXCEPT ![c] = [estado |-> "fin"]]
  BY DEF Pasado
<1>4. LasMemorias'[c] = MemoriaDe(c)'
  BY DEF LasMemorias
<1>5. LasMemorias' = [LasMemorias EXCEPT ![c] = LasMemorias'[c]]
  BY <1>4 DEF Pasado
<1>6. LasMemorias'[c] \in [DireccionesDe(c) -> 0..(Modulo - 1)]
  BY <1>4
<1>7. Maq!Terminar(c)
  BY <1>1, <1>2, <1>3, <1>5, <1>6, Zenon
     DEF Maq!Terminar, Maq!Palabras, LosProcesos, LasMemorias, LoTecleado, LosPresentes
<1> QED BY <1>7, Zenon DEF Maq!Next

\* What is printed, typed and taken.
LEMMA MaqImprime ==
    ASSUME NEW c \in Consolas, NEW L, NEW k, NEW R, EnMarcha(c, L, k, R), Pasado(c),
           L[k].op = "PANTALLA", EnMarcha(c, L, k + 1, R)', MemQuieta(c),
           TecleadoDe(c)' = TecleadoDe(c), consola[c] # "muerta", consola'[c] # "muerta",
           pantalla' = [pantalla EXCEPT ![c] = Append(pantalla[c], Maq!ConSigno(R[L[k].r]))]
    PROVE  Maq!Next
<1>1. LasMemorias' = LasMemorias
  BY Quietas
<1>2. LoTecleado' = LoTecleado /\ LosPresentes' = LosPresentes
  <2>1. LoTecleado = [d \in Consolas |-> TecleadoDe(d)] /\ LosPresentes = [d \in Consolas |-> consola[d] # "muerta"]
    BY DEF LoTecleado, LosPresentes
  <2>2. /\ LoTecleado = [LoTecleado EXCEPT ![c] = TecleadoDe(c)]
        /\ LosPresentes = [LosPresentes EXCEPT ![c] = (consola[c] # "muerta")]
    BY <2>1
  <2>3. (consola'[c] # "muerta") = (consola[c] # "muerta")
    OBVIOUS
  <2> QED BY <2>2, <2>3, Zenon DEF Pasado
<1>3. Maq!Toca(c, "PANTALLA") /\ LosPresentes[c]
  <2>1. \A op : Maq!Toca(c, op) <=> L[k].op = op
    BY MaqSigue
  <2> QED BY <2>1 DEF LosPresentes
<1>4. Maq!Seguir(c)
  BY MaqSigue
<1>5. Maq!Registro(c, Maq!Instruccion(c).r) = R[L[k].r]
  <2>1. \A r : Maq!Registro(c, r) = R[r]
    BY MaqSigue
  <2>2. Maq!Instruccion(c) = L[k]
    BY MaqSigue
  <2> QED BY <2>1, <2>2
<1>6. pantalla' = [pantalla EXCEPT ![c] =
           Append(pantalla[c], Maq!ConSigno(Maq!Registro(c, Maq!Instruccion(c).r)))]
  BY <1>5, Zenon
<1>7. Maq!Imprimir(c)
  BY <1>1, <1>2, <1>3, <1>4, <1>6, Zenon
     DEF Maq!Imprimir, LasMemorias, LoTecleado, LosPresentes
<1> QED BY <1>7, Zenon DEF Maq!Next

LEMMA MaqTeclea ==
    ASSUME NEW c \in Consolas, NEW L, NEW k, NEW R, EnMarcha(c, L, k, R), Pasado(c),
           L[k].op = "TECLADO", ProcesoDe(c)' = ProcesoDe(c), MemQuieta(c), pantalla' = pantalla,
           consola[c] # "muerta", consola'[c] # "muerta", TecleadoDe(c) = <<>>,
           NEW v \in Teclas, TecleadoDe(c)' = <<v>>
    PROVE  Maq!Next
<1>1. LasMemorias' = LasMemorias /\ LosProcesos' = LosProcesos
  BY Quietas
<1>2. LosPresentes' = LosPresentes
  <2>1. LosPresentes = [d \in Consolas |-> consola[d] # "muerta"]
    BY DEF LosPresentes
  <2>2. LosPresentes = [LosPresentes EXCEPT ![c] = (consola[c] # "muerta")]
    BY <2>1
  <2>3. (consola'[c] # "muerta") = (consola[c] # "muerta")
    OBVIOUS
  <2> QED BY <2>2, <2>3, Zenon DEF Pasado
<1>3. Maq!Toca(c, "TECLADO") /\ LosPresentes[c] /\ LoTecleado[c] = <<>>
  <2>1. \A op : Maq!Toca(c, op) <=> L[k].op = op
    BY MaqSigue
  <2> QED BY <2>1 DEF LosPresentes, LoTecleado
<1>4. LoTecleado' = [LoTecleado EXCEPT ![c] = <<v>>]
  BY DEF Pasado
<1>5. Maq!Teclear(c)
  BY <1>1, <1>2, <1>3, <1>4, Zenon
     DEF Maq!Teclear, LasMemorias, LoTecleado, LosPresentes, LosProcesos
<1> QED BY <1>5, Zenon DEF Maq!Next

LEMMA MaqToma ==
    ASSUME NEW c \in Consolas, NEW L, NEW k, NEW R, EnMarcha(c, L, k, R), Pasado(c),
           L[k].op = "TECLADO", MemQuieta(c), pantalla' = pantalla,
           (consola'[c] # "muerta") = (consola[c] # "muerta"),
           NEW v, TecleadoDe(c) = <<v>>, TecleadoDe(c)' = <<>>,
           EnMarcha(c, L, k + 1, [R EXCEPT ![L[k].r] = v % Modulo])'
    PROVE  Maq!Next
<1>1. LasMemorias' = LasMemorias
  BY Quietas
<1>2. LosPresentes' = LosPresentes
  <2>1. LosPresentes = [d \in Consolas |-> consola[d] # "muerta"]
    BY DEF LosPresentes
  <2>2. LosPresentes = [LosPresentes EXCEPT ![c] = (consola[c] # "muerta")]
    BY <2>1
  <2> QED BY <2>2, Zenon DEF Pasado
<1>3. Maq!Toca(c, "TECLADO") /\ LoTecleado[c] # <<>> /\ LoTecleado[c][1] = v
  <2>1. \A op : Maq!Toca(c, op) <=> L[k].op = op
    BY MaqSigue
  <2>2. LoTecleado[c] = <<v>>
    BY DEF LoTecleado
  <2> QED BY <2>1, <2>2
<1>4. LoTecleado' = [LoTecleado EXCEPT ![c] = <<>>]
  BY DEF Pasado
<1>5. Maq!SeguirAsignando(c, L[k].r, v)
  <2>1. \A r, w : EnMarcha(c, L, k + 1, [R EXCEPT ![r] = w % Modulo])' =>
                 Maq!SeguirAsignando(c, r, w)
    BY MaqSigue
  <2> QED BY <2>1
<1>6. Maq!Instruccion(c) = L[k]
  BY MaqSigue
<1>7. Maq!SeguirAsignando(c, Maq!Instruccion(c).r, LoTecleado[c][1])
  BY <1>3, <1>5, <1>6, Zenon
<1>8. Maq!Tomar(c)
  BY <1>1, <1>2, <1>3, <1>4, <1>7, Zenon
     DEF Maq!Tomar, LasMemorias, LoTecleado, LosPresentes
<1> QED BY <1>8, Zenon DEF Maq!Next

LEMMA MaqIgnora ==
    ASSUME NEW c \in Consolas, NEW L, NEW k, NEW R, EnMarcha(c, L, k, R), Pasado(c),
           L[k].op \in {"PANTALLA", "TECLADO"}, MemQuieta(c), DichoQuieto(c),
           consola[c] = "muerta", TecleadoDe(c) = <<>>, EnMarcha(c, L, k + 1, R)'
    PROVE  Maq!Next
<1>1. UNCHANGED <<LasMemorias, LoTecleado, pantalla, LosPresentes>>
  BY Quietas DEF DichoQuieto
<1>2. (Maq!Toca(c, "PANTALLA") \/ Maq!Toca(c, "TECLADO")) /\ ~LosPresentes[c]
      /\ LoTecleado[c] = <<>>
  <2>1. \A op : Maq!Toca(c, op) <=> L[k].op = op
    BY MaqSigue
  <2> QED BY <2>1 DEF LosPresentes, LoTecleado
<1>3. Maq!Seguir(c)
  BY MaqSigue
<1>4. Maq!Ignorar(c)
  BY <1>1, <1>2, <1>3, Zenon DEF Maq!Ignorar, LasMemorias, LoTecleado, LosPresentes
<1> QED BY <1>4, Zenon DEF Maq!Next

\* The user leaves, and a program begins.
LEMMA MaqSeVa ==
    ASSUME NEW c \in Interrumpibles, c \in Consolas, Pasado(c), ProcesoDe(c)' = ProcesoDe(c),
           MemQuieta(c), TecleadoDe(c)' = TecleadoDe(c), pantalla' = pantalla,
           consola[c] # "muerta", consola'[c] = "muerta"
    PROVE  Maq!Next
<1>1. LasMemorias' = LasMemorias /\ LosProcesos' = LosProcesos
  BY Quietas
<1>2. LoTecleado' = LoTecleado
  <2>1. LoTecleado = [d \in Consolas |-> TecleadoDe(d)]
    BY DEF LoTecleado
  <2>2. LoTecleado = [LoTecleado EXCEPT ![c] = TecleadoDe(c)]
    BY <2>1
  <2> QED BY <2>2, Zenon DEF Pasado
<1>3. LosPresentes[c]
  BY DEF LosPresentes
<1>4. LosPresentes' = [LosPresentes EXCEPT ![c] = FALSE]
  <2>1. (consola'[c] # "muerta") = FALSE
    OBVIOUS
  <2>2. LosPresentes' = [LosPresentes EXCEPT ![c] = (consola'[c] # "muerta")]
    BY DEF Pasado
  <2> QED BY <2>1, <2>2, Zenon
<1>5. Maq!Irse(c)
  BY <1>1, <1>2, <1>3, <1>4, Zenon
     DEF Maq!Irse, LasMemorias, LoTecleado, LosPresentes, LosProcesos
<1> QED BY <1>5, Zenon DEF Maq!Next

LEMMA MaqNace ==
    ASSUME NEW c \in Consolas, Pasado(c), DichoQuieto(c),
           ProcesoDe(c) = [estado |-> "nada"], NEW L \in ProgramasDe(c),
           EnMarcha(c, L, 1, Maq!Reset)',
           MemoriaDe(c)' \in [DireccionesDe(c) -> 0..(Modulo - 1)]
    PROVE  Maq!Next
<1>1. UNCHANGED <<LoTecleado, pantalla, LosPresentes>>
  BY Quietas DEF DichoQuieto
<1>2. LosProcesos[c].estado = "nada"
  BY DEF LosProcesos
<1>3. ProcesoDe(c)' = [estado |-> "corre", programa |-> L, pc |-> 1, registros |-> Maq!Reset]
  BY DEF EnMarcha, Maq!Reset
<1>4. LosProcesos' = [LosProcesos EXCEPT ![c] =
              [estado |-> "corre", programa |-> L, pc |-> 1, registros |-> Maq!Reset]]
  BY <1>3, Zenon DEF Pasado
<1>5. LasMemorias'[c] = MemoriaDe(c)'
  BY DEF LasMemorias
<1>6. LasMemorias' = [LasMemorias EXCEPT ![c] = LasMemorias'[c]]
  BY <1>5 DEF Pasado
<1>7. LasMemorias'[c] \in [DireccionesDe(c) -> 0..(Modulo - 1)]
  BY <1>5
<1>8. Maq!Nacer(c)
  BY <1>1, <1>2, <1>4, <1>6, <1>7, Zenon
     DEF Maq!Nacer, Maq!Palabras, LosProcesos, LasMemorias, LoTecleado, LosPresentes
<1> QED BY <1>8, Zenon DEF Maq!Next

-----------------------------------------------------------------------------
(* The step of a process *)

Refina == InvD' /\ (Maq!Next \/ MaqVars' = MaqVars)

\* Only EXIT is the last instruction.
LEMMA NoEsLaUltima ==
    ASSUME ProgramasNormales, NEW c \in Consolas, NEW p, NEW pcb, BuenPcb(pcb, p),
           ProgramaDe(pcb, c), NEW k \in 1..Len(pcb.instrucciones),
           pcb.instrucciones[k].operacion # "EXIT"
    PROVE  k < Len(pcb.instrucciones) /\ Len(pcb.instrucciones) \in Nat
<1>1. PICK a \in Archivos(c) : SePuedeLeer(a) /\ pcb.instrucciones = obtener_pseudocodigo(a)
  BY DEF ProgramaDe
<1>2. ProgramaNormal(pcb.instrucciones)
  BY <1>1, Zenon DEF ProgramasNormales
<1>3. pcb.instrucciones[Len(pcb.instrucciones)].operacion = "EXIT"
  BY <1>2 DEF ProgramaNormal
<1>4. Len(pcb.instrucciones) \in Nat
  BY DeLista DEF BuenPcb, EsPrograma
<1>5. k # Len(pcb.instrucciones)
  BY <1>3
<1> QED BY <1>4, <1>5

LEMMA EnEsperaSigue ==
    ASSUME ProgramasNormales, NEW c \in Consolas, NEW p, NEW pcb, BuenPcb(pcb, p),
           ProgramaDe(pcb, c), EnEspera(pcb)
    PROVE  /\ pcb.program_counter \in DOMAIN pcb.instrucciones
           /\ pcb.program_counter < Len(pcb.instrucciones) /\ ~pcb.segmentation_fault
           /\ EsDeConsola(pcb.instrucciones[pcb.program_counter])
<1>1. /\ pcb.program_counter >= 1 /\ EsDeConsola(pcb.instrucciones[pcb.program_counter])
      /\ ~pcb.segmentation_fault
  BY DEF EnEspera, UltimaEsDeConsola, obtener_ultima_instruccion
<1>2. /\ pcb.program_counter \in 0..Len(pcb.instrucciones)
      /\ Len(pcb.instrucciones) \in Nat /\ DOMAIN pcb.instrucciones = 1..Len(pcb.instrucciones)
  BY DeLista DEF BuenPcb, EsPrograma
<1>3. pcb.program_counter \in 1..Len(pcb.instrucciones)
  BY <1>1, <1>2
<1>4. pcb.instrucciones[pcb.program_counter].operacion # "EXIT"
  BY <1>1 DEF EsDeConsola
<1>5. pcb.program_counter < Len(pcb.instrucciones)
  BY <1>3, <1>4, NoEsLaUltima
<1> QED BY <1>1, <1>2, <1>3, <1>5

\* A process whose instruction has not had its effect has not ended.
LEMMA FaltaSigue ==
    ASSUME InvE, InvD, ProgramasNormales, NEW p \in 1..pid_actual
    PROVE  falta[p] => Vive(p) /\ ~Acabado(p)
<1> SUFFICES ASSUME falta[p] PROVE Vive(p) /\ ~Acabado(p)
  OBVIOUS
<1>1. Bien(p)
  BY DEF InvD
<1>2. Vive(p)
  BY <1>1 DEF Bien
<1>3. PICK c \in Consolas : c = consolaDe[p]
  BY PidsAlcanzan DEF InvE
<1>4. PICK pcb : pcb = PcbDe(p)
  OBVIOUS
<1>5. ProgramaDe(pcb, c) /\ EnEspera(pcb)
  BY <1>1, <1>2, <1>3, <1>4 DEF Bien, EnRegla
<1>6. BuenPcb(pcb, p)
  BY <1>2, <1>4, Vivos DEF InvE
<1>7. pcb.program_counter < Len(pcb.instrucciones) /\ ~pcb.segmentation_fault
  BY <1>5, <1>6, EnEsperaSigue
<1>8. Len(pcb.instrucciones) \in Nat
  BY <1>6, DeLista DEF BuenPcb, EsPrograma
<1> QED BY <1>2, <1>4, <1>7, <1>8 DEF Acabado

\* The others, when a process takes a step.
LEMMA SuTurno ==
    ASSUME InvE, NEW q \in 1..pid_actual, NEW c, c = consolaDe[q],
           UNCHANGED <<pid_actual, consolaDe>>,
           \A p \in (1..pid_actual) \ {q} : Ajeno(p),
           memoria' = memoria \/ Aparte(memoria, memoria', q),
           \A d \in Consolas \ {c} :
              /\ haciaKernel'[d] = haciaKernel[d] /\ haciaConsola'[d] = haciaConsola[d]
              /\ pantalla'[d] = pantalla[d]
              /\ (consola'[d] = "muerta" <=> consola[d] = "muerta")
              /\ (consola'[d] = "imprimio" <=> consola[d] = "imprimio")
    PROVE  c \in Consolas /\ Turno(c)
<1>1. pid_actual \in Nat /\ c \in Consolas
  BY PidsAlcanzan DEF InvE, Tipos
<1>2. ASSUME NEW p \in 1..pid_actual, consolaDe[p] # c
      PROVE  Ajeno(p) /\ (Cuerda(memoria, p) => Queda(memoria, memoria', p))
  <2>1. p # q
    BY <1>2
  <2>2. ASSUME Cuerda(memoria, p) PROVE Queda(memoria, memoria', p)
    <3>1. CASE memoria' = memoria
      BY <2>2, <3>1 DEF Queda, Mantiene
    <3>2. CASE Aparte(memoria, memoria', q)
      BY <2>1, <2>2, <3>2, Apartada DEF Queda
    <3> QED BY <3>1, <3>2
  <2> QED BY <2>1, <2>2
<1> QED BY <1>1, <1>2 DEF Turno

\* A console has one process.
LEMMA Unico == Tipos => \A p, r \in 1..pid_actual : consolaDe[p] = consolaDe[r] => p = r
BY PidsAlcanzan
LEMMA UnicoLuego == (Tipos => \A p, r \in 1..pid_actual : consolaDe[p] = consolaDe[r] => p = r)'
BY Unico, PTL

\* InvD and the machine of its console, after the step of a process.
LEMMA TrasSuPaso ==
    ASSUME InvE, InvM, InvD, InvE', ProgramasNormales, NEW c \in Consolas, Turno(c), Claveado(c),
           Datos(memoria'), NEW q \in 1..pid_actual', consolaDe'[q] = c,
           falta' \in [Pids -> BOOLEAN], \A p \in Pids : p > pid_actual' => ~falta'[p],
           Propio(q)'
    PROVE  InvD' /\ Pasado(c)
<1>1. \A p \in 1..pid_actual' : consolaDe'[p] = c => p = q
  BY UnicoLuego DEF InvE
<1>2. \A p \in 1..pid_actual' : consolaDe'[p] = c => Propio(p)'
  BY <1>1
<1> QED BY <1>2, InvDTras, Pasa

LEMMA MaquinaDe ==
    ASSUME InvE, NEW q \in 1..pid_actual, NEW c, c = consolaDe[q]
    PROVE  c \in Consolas /\ ProcesoDe(c) = ProcesoEs(q) /\ MemoriaDe(c) = MemoriaEs(q, c)
<1>1. c \in Consolas
  BY PidsAlcanzan DEF InvE
<1> QED BY <1>1, LaMaquinaEs DEF LaMaquina

LEMMA MaquinaDespues ==
    ASSUME InvE', NEW q \in 1..pid_actual', NEW c \in Consolas, c = consolaDe'[q]
    PROVE  ProcesoDe(c)' = ProcesoEs(q)' /\ MemoriaDe(c)' = MemoriaEs(q, c)'
BY LaMaquinaLuego DEF LaMaquina

\* The process is where it was.
LEMMA ProcesoQuieto ==
    ASSUME NEW q, falta'[q] = falta[q], Acabado(q)' <=> Acabado(q), falta[q] => ~Acabado(q),
           (q \in Elems(cola_new))' <=> q \in Elems(cola_new),
           ~Acabado(q) => /\ PcbDe(q)'.instrucciones = PcbDe(q).instrucciones
                          /\ PcbDe(q)'.program_counter = PcbDe(q).program_counter
                          /\ PcbDe(q)'.registros = PcbDe(q).registros
    PROVE  ProcesoEs(q)' = ProcesoEs(q)
<1>1. CASE Acabado(q)
  BY <1>1 DEF ProcesoEs
<1>2. CASE q \in Elems(cola_new)
  BY <1>2 DEF ProcesoEs
<1>3. CASE q \notin Elems(cola_new) /\ ~Acabado(q)
  <2>1. PICK n, pcb : n = PcbDe(q)' /\ pcb = PcbDe(q)
    OBVIOUS
  <2>2. n.instrucciones = pcb.instrucciones /\ n.program_counter = pcb.program_counter
        /\ n.registros = pcb.registros
    BY <1>3, <2>1
  <2>3. ProcesoEs(q) = [estado |-> "corre", programa |-> Traduccion(pcb.instrucciones),
          pc |-> pcb.program_counter + (IF falta[q] THEN 0 ELSE 1), registros |-> pcb.registros]
    BY <1>3, <2>1 DEF ProcesoEs
  <2>4. ProcesoEs(q)' = [estado |-> "corre", programa |-> Traduccion(n.instrucciones),
          pc |-> n.program_counter + (IF falta'[q] THEN 0 ELSE 1), registros |-> n.registros]
    BY <1>3, <2>1 DEF ProcesoEs
  <2> QED BY <2>2, <2>3, <2>4
<1> QED BY <1>1, <1>2, <1>3

\* What InvD says of a process, from what it says of its PCB.
LEMMA BienCon ==
    ASSUME NEW q, NEW n, n = PcbDe(q)', NEW c, c = consolaDe'[q], NEW nuevo, NEW fin, NEW vuelve,
           (q \in Elems(cola_new))' = nuevo, (q \in Elems(cola_exit))' = fin, Vuelve(q)' = vuelve,
           NEW h, h = hilo'[q], NEW f, f = falta'[q],
           EnRegla(n, c, nuevo, fin, vuelve, h, f), Vive(q)', h # "contestar",
           Cuerda(memoria', q) \/ nuevo \/ fin
    PROVE  Bien(q)'
<1>1. EnRegla(PcbDe(q)', consolaDe'[q], (q \in Elems(cola_new))', (q \in Elems(cola_exit))',
              Vuelve(q)', hilo'[q], falta'[q])
  BY Zenon
<1>2. nuevo => ~(Admitido(q)')
  <2>1. Admitido(q)' => ~((q \in Elems(cola_new))')
    BY DEF Admitido, Elems
  <2> QED BY <2>1
<1>3. (Admitido(q) /\ q \notin Elems(cola_exit))' => Cuerda(memoria', q)
  BY <1>2
<1> QED BY <1>1, <1>3, Zenon DEF Bien

\* The process of the CPU, or of the heap, that InvD knows.
LEMMA EnReglaDe ==
    ASSUME InvE, InvD, NEW q \in 1..pid_actual, Vive(q), NEW pcb, pcb = PcbDe(q),
           NEW c, c = consolaDe[q], NEW nuevo, NEW fin, NEW vuelve,
           (q \in Elems(cola_new)) = nuevo, (q \in Elems(cola_exit)) = fin, Vuelve(q) = vuelve,
           NEW h, h = hilo[q], NEW f, f = falta[q]
    PROVE  EnRegla(pcb, c, nuevo, fin, vuelve, h, f) /\ f \in BOOLEAN
<1>1. Bien(q) /\ falta \in [Pids -> BOOLEAN] /\ q \in Pids
  BY PidsAlcanzan DEF InvD, InvE
<1>2. EnRegla(PcbDe(q), consolaDe[q], q \in Elems(cola_new), q \in Elems(cola_exit),
              Vuelve(q), hilo[q], falta[q])
  BY <1>1, Zenon DEF Bien
<1>3. EnRegla(pcb, c, nuevo, fin, vuelve, h, f)
  BY <1>2, Zenon
<1> QED BY <1>1, <1>3

\* What EnTlb looks at.
Mira(n, pcb) ==
    /\ n.instrucciones = pcb.instrucciones /\ n.program_counter = pcb.program_counter
    /\ n.tabla_de_segmentos = pcb.tabla_de_segmentos
LEMMA TlbSigue ==
    ASSUME NEW q, Propio(q), tlb' = tlb, NEW n, n = PcbDe(q)', Mira(n, PcbDe(q)), memoria' = memoria,
           Admitido(q)' /\ ~Acabado(q)' => Admitido(q) /\ ~Acabado(q), Bien(q)'
    PROVE  Propio(q)'
<1>1. ASSUME Admitido(q)', ~Acabado(q)', NEW k \in Claves(tlb'), k[1] = q
      PROVE  EnTlb(PcbDe(q)', memoria', k[2], tlb'.marco[k])
  <2>1. Admitido(q) /\ ~Acabado(q) /\ k \in Claves(tlb)
    BY <1>1
  <2>2. EnTlb(PcbDe(q), memoria, k[2], tlb.marco[k])
    BY <1>1, <2>1 DEF Propio
  <2>3. PICK pcb, l, m : pcb = PcbDe(q) /\ l = k[2] /\ m = tlb.marco[k]
    OBVIOUS
  <2>4. EnTlb(pcb, memoria, l, m) /\ Mira(n, pcb)
    BY <2>2, <2>3
  <2>5. fetch(n) = fetch(pcb) /\ \A z : PaginaEn(n, z) = PaginaEn(pcb, z)
    BY <2>4 DEF Mira, fetch, PaginaEn
  <2>6. DirProxima(n) = DirProxima(pcb) /\ (ProximaEsAcceso(n) <=> ProximaEsAcceso(pcb))
    BY <2>4, <2>5 DEF Mira, DirProxima, ProximaEsAcceso
  <2>7. EnTlb(n, memoria, l, m)
    BY <2>4, <2>5, <2>6 DEF EnTlb, Mira
  <2> QED BY <2>3, <2>7
<1> QED BY <1>1, Zenon DEF Propio

LEMMA Propios == ASSUME InvE, InvD, NEW q \in 1..pid_actual PROVE Propio(q)
BY InvDEs DEF InvDPorProceso

LEMMA TlbQuieta == ASSUME InvE, InvD, NEW c, tlb' = tlb PROVE Claveado(c)
<1>1. TlbUna(tlb)
  BY DEF InvD, TlbBien
<1>2. TlbUna(tlb)' <=> TlbUna(tlb)
  BY DEF TlbUna, Claves
<1> QED BY <1>1, <1>2 DEF Claveado

\* A step that the machine of its console does not notice.
LEMMA PasoQuieto ==
    ASSUME InvE, InvM, InvD, InvE', ProgramasNormales, NEW q \in 1..pid_actual, NEW c, c = consolaDe[q],
           UNCHANGED <<pid_actual, consolaDe, tlb, falta, pantalla, consola>>,
           TecleadoDe(c)' = TecleadoDe(c), Turno(c), Datos(memoria'),
           Propio(q)', Acabado(q)' <=> Acabado(q), Admitido(q)' <=> Admitido(q),
           (q \in Elems(cola_new))' <=> q \in Elems(cola_new),
           ~Acabado(q) => /\ Mira(PcbDe(q)', PcbDe(q)) /\ PcbDe(q)'.registros = PcbDe(q).registros
                          /\ Mantiene(memoria, memoria', q)
    PROVE  Refina
<1>1. c \in Consolas /\ ProcesoDe(c) = ProcesoEs(q) /\ MemoriaDe(c) = MemoriaEs(q, c)
  BY MaquinaDe
<1>2. falta \in [Pids -> BOOLEAN] /\ \A p \in Pids : p > pid_actual => ~falta[p]
  BY DEF InvD
<1>3. q \in 1..pid_actual' /\ consolaDe'[q] = c
  OBVIOUS
<1>4. Claveado(c)
  BY TlbQuieta
<1>5. InvD' /\ Pasado(c)
  BY <1>1, <1>2, <1>3, <1>4, TrasSuPaso
<1>6. ProcesoDe(c)' = ProcesoEs(q)' /\ MemoriaDe(c)' = MemoriaEs(q, c)'
  BY <1>1, <1>3, MaquinaDespues
<1>7. ProcesoEs(q)' = ProcesoEs(q)
  <2>1. falta[q] => ~Acabado(q)
    BY FaltaSigue
  <2> QED BY <2>1, ProcesoQuieto DEF Mira
<1>8. MemoriaEs(q, c)' = MemoriaEs(q, c)
  <2>1. MemoriaEs(q, consolaDe[q])' = MemoriaEs(q, consolaDe[q]) \/ consolaDe'[q] # consolaDe[q]
    BY MemoriaMantenida DEF Mira
  <2>2. MemoriaEs(q, consolaDe[q])' = MemoriaEs(q, c)'
    BY DEF MemoriaEs
  <2> QED BY <2>1, <2>2
<1>9. MaqVars' = MaqVars
  <2>1. MemQuieta(c)
    BY <1>1, <1>6, <1>8 DEF MemQuieta
  <2>2. DichoQuieto(c)
    BY DEF DichoQuieto
  <2> QED BY <1>1, <1>5, <1>6, <1>7, <2>1, <2>2, MaqQuieta
<1> QED BY <1>5, <1>9 DEF Refina

-----------------------------------------------------------------------------
(* The kernel moves a process *)

\* The others, and what it is then.
LEMMA Movidas ==
    ASSUME InvE, NEW q, NEW n, NEW lugar \in Sitios, BuenPcb(n, q), Ubicado(q, n, lugar),
           pid_actual' = pid_actual, Vive(q), q \notin Elems(cola_exit),
           lugar = "exit" => Terminado(n), hilo'[q] \in {"pedir", "contestar"} => UltimaEsDeConsola(n),
           \A p \in Pids \ {q} : falta'[p] = falta[p]
    PROVE  /\ q \in 1..pid_actual /\ \A p \in (1..pid_actual) \ {q} : Ajeno(p)
           /\ PcbDe(q)' = n /\ Vive(q)' /\ Vuelve(q)' = FALSE /\ Admitido(q)'
           /\ (q \in Elems(cola_new))' = FALSE
           /\ (q \in Elems(cola_exit))' = (lugar = "exit")
           /\ Acabado(q)' <=> Terminado(n)
<1>1. q \in 1..pid_actual /\ 1..pid_actual \subseteq Pids /\ Tipos /\ Pcbs
  BY Vivos, PidsAlcanzan DEF InvE
<1>2. Colas /\ EnUnLugar
  BY DEF InvE
<1>3. /\ pcbs'[q] = n
      /\ \A p : (Vive(p)' <=> Vive(p) \/ p = q)
      /\ \A p : p # q => (Vive(p) => PcbDe(p)' = PcbDe(p))
      /\ \A p : p # q /\ p \in DOMAIN pcbs => pcbs'[p] = pcbs[p]
      /\ PcbDe(q)' = n
  BY <1>1, <1>2, Ubica
<1>4. (cpu' = cpu /\ ~EnCpuEsta(q)) \/ (cpu' = Libre /\ EnCpuEsta(q))
  BY DEF Ubicado
<1>5. \A p : p # q => (Vuelve(p)' <=> Vuelve(p))
  <2>1. \A p : Vuelve(p)' <=> cpu' # Libre /\ cpu'.pcb.pid = p /\ cpu'.estado = "devuelve"
    BY DEF Vuelve, EnCpuEsta
  <2> QED BY <1>4, <2>1 DEF Vuelve, EnCpuEsta
<1>6. Vuelve(q)' = FALSE
  BY <1>4 DEF Vuelve, EnCpuEsta
<1>7. /\ Elems(cola_new') = Elems(cola_new) \ {q}
      /\ Elems(cola_exit') = Elems(cola_exit) \cup (IF lugar = "exit" THEN {q} ELSE {})
      /\ \A p \in Pids \ {q} : hilo'[p] = hilo[p]
  BY DEF Ubicado
<1>8. /\ \A p : (p \in Elems(cola_new))' <=> p \in Elems(cola_new')
      /\ \A p : (p \in Elems(cola_exit))' <=> p \in Elems(cola_exit')
  BY DEF Elems
<1>9. ASSUME NEW p \in (1..pid_actual) \ {q} PROVE Ajeno(p)
  <2>1. hilo'[p] = hilo[p] /\ falta'[p] = falta[p]
    BY <1>1, <1>7
  <2>2. hilo[p] = "contestar" => pcbs'[p] = pcbs[p]
    <3>1. hilo[p] = "contestar" => p \in DOMAIN pcbs
      BY <1>1, EnSuLugar
    <3> QED BY <1>3, <3>1
  <2> QED BY <1>3, <1>5, <1>7, <1>8, <2>1, <2>2 DEF Ajeno
<1>10. (q \in Elems(cola_new))' = FALSE /\ (q \in Elems(cola_exit))' = (lugar = "exit")
  BY <1>7, <1>8
<1>11. Admitido(q)'
  <2>1. Admitido(q)' <=> Vive(q)' /\ ~((q \in Elems(cola_new))')
    BY DEF Admitido, Elems
  <2> QED BY <1>3, <1>10, <2>1
<1>12. Acabado(q)' <=> Terminado(n)
  <2>1. Acabado(q)' <=> ~(Vive(q)') \/ PcbDe(q)'.segmentation_fault
                       \/ PcbDe(q)'.program_counter = Len(PcbDe(q)'.instrucciones)
    BY DEF Acabado
  <2> QED BY <1>3, <2>1 DEF Terminado
<1> QED BY <1>1, <1>3, <1>6, <1>9, <1>10, <1>11, <1>12

\* The machine does not notice.
LEMMA AlMoverlo ==
    ASSUME InvE, InvM, InvD, InvE', ProgramasNormales, NEW q, NEW n, NEW lugar \in Sitios,
           BuenPcb(n, q), Ubicado(q, n, lugar), Vive(q), q \notin Elems(cola_new),
           q \notin Elems(cola_exit), lugar = "exit" => Terminado(n),
           UNCHANGED <<pid_actual, consolaDe, tlb, falta, pantalla, consola, haciaKernel>>,
           NEW c, c = consolaDe[q], \A d \in Consolas \ {c} : haciaConsola'[d] = haciaConsola[d],
           Acabado(q) <=> Terminado(n),
           ~Acabado(q) => /\ Mira(n, PcbDe(q)) /\ n.registros = PcbDe(q).registros
                          /\ Mantiene(memoria, memoria', q)
                          /\ \A k \in Claves(tlb) : k[1] = q =>
                                EnTlb(n, memoria', k[2], tlb.marco[k]),
           Datos(memoria'), memoria' = memoria \/ Aparte(memoria, memoria', q),
           lugar # "exit" => Cuerda(memoria', q),
           NEW h, h = hilo'[q], h # "contestar", NEW f, f = falta[q],
           EnRegla(n, c, FALSE, lugar = "exit", FALSE, h, f)
    PROVE  Refina
<1>1. h = "pedir" => UltimaEsDeConsola(n)
  BY DEF EnRegla, EnEspera
<1>2. /\ q \in 1..pid_actual /\ \A p \in (1..pid_actual) \ {q} : Ajeno(p)
      /\ PcbDe(q)' = n /\ Vive(q)' /\ Vuelve(q)' = FALSE /\ Admitido(q)'
      /\ (q \in Elems(cola_new))' = FALSE
      /\ (q \in Elems(cola_exit))' = (lugar = "exit")
      /\ Acabado(q)' <=> Terminado(n)
  <2>1. hilo'[q] \in {"pedir", "contestar"} => UltimaEsDeConsola(n)
    BY <1>1
  <2>2. pid_actual' = pid_actual /\ \A p \in Pids \ {q} : falta'[p] = falta[p]
    OBVIOUS
  <2> QED BY <2>1, <2>2, Movidas
<1>3. Admitido(q)
  BY AdmitidoEs
<1>4. Turno(c)
  <2>1. /\ UNCHANGED <<pid_actual, consolaDe>>
        /\ \A d \in Consolas \ {c} :
              /\ haciaKernel'[d] = haciaKernel[d] /\ haciaConsola'[d] = haciaConsola[d]
              /\ pantalla'[d] = pantalla[d]
              /\ (consola'[d] = "muerta" <=> consola[d] = "muerta")
              /\ (consola'[d] = "imprimio" <=> consola[d] = "imprimio")
    OBVIOUS
  <2> QED BY <1>2, <2>1, SuTurno
<1>5. Bien(q)'
  <2>1. Cuerda(memoria', q) \/ FALSE \/ lugar = "exit"
    OBVIOUS
  <2>2. c = consolaDe'[q] /\ f = falta'[q] /\ n = PcbDe(q)'
    BY <1>2
  <2> QED BY <1>2, <2>1, <2>2, BienCon
<1>6. Propio(q)'
  <2>1. ASSUME ~Acabado(q)', NEW k \in Claves(tlb'), k[1] = q
        PROVE  EnTlb(PcbDe(q)', memoria', k[2], tlb'.marco[k])
    <3>1. ~Acabado(q) /\ k \in Claves(tlb) /\ tlb'.marco[k] = tlb.marco[k]
      BY <1>2, <2>1
    <3>2. EnTlb(n, memoria', k[2], tlb.marco[k])
      BY <2>1, <3>1
    <3> QED BY <1>2, <3>1, <3>2
  <2> QED BY <1>5, <2>1, Zenon DEF Propio
<1>7. TecleadoDe(c)' = TecleadoDe(c)
  BY DEF TecleadoDe
<1>8. /\ (Acabado(q)' <=> Acabado(q)) /\ (Admitido(q)' <=> Admitido(q))
      /\ (q \in Elems(cola_new))' <=> q \in Elems(cola_new)
  BY <1>2, <1>3
<1>9. ~Acabado(q) => /\ Mira(PcbDe(q)', PcbDe(q)) /\ PcbDe(q)'.registros = PcbDe(q).registros
                     /\ Mantiene(memoria, memoria', q)
  BY <1>2
<1>10. UNCHANGED <<pid_actual, consolaDe, tlb, falta, pantalla, consola>>
  OBVIOUS
<1> QED BY <1>2, <1>4, <1>6, <1>7, <1>8, <1>9, <1>10, PasoQuieto

\* A PCB that goes to READY.
LEMMA ListoEs ==
    ASSUME NEW q \in Nat, NEW pcb, BuenPcb(pcb, q), cola_ready \in Seq(Nat),
           SinRepetir(cola_ready), q \notin Elems(cola_ready), PasarAReady(pcb)
    PROVE  \E n : /\ BuenPcb(n, q) /\ Mira(n, pcb) /\ n.registros = pcb.registros
                  /\ n.socket_consola = pcb.socket_consola
                  /\ ~n.page_fault /\ ~n.segmentation_fault /\ Guardar(n)
                  /\ cola_ready' \in Seq(Nat) /\ SinRepetir(cola_ready')
                  /\ Elems(cola_ready') = (Elems(cola_ready) \ {q}) \cup {q}
<1> DEFINE n == [pcb EXCEPT !.estado = "READY", !.con_desalojo = TRUE, !.interrupcion = FALSE,
                           !.page_fault = FALSE, !.segmentation_fault = FALSE]
<1>1. Guardar(n) /\ cola_ready' = Append(cola_ready, pcb.pid)
  BY DEF PasarAReady
<1>2. BuenPcb(n, q)
  BY VuelveAReady
<1>3. /\ Mira(n, pcb) /\ n.registros = pcb.registros /\ n.socket_consola = pcb.socket_consola
      /\ ~n.page_fault /\ ~n.segmentation_fault
  <2>1. DOMAIN pcb = CamposPcb /\ pcb = [x \in CamposPcb |-> pcb[x]]
    BY DEF BuenPcb
  <2> QED BY <2>1 DEF CamposPcb, Mira
<1>4. pcb.pid = q
  BY DEF BuenPcb
<1>5. Append(cola_ready, q) \in Seq(Nat)
  OBVIOUS
<1>6. SinRepetir(Append(cola_ready, q)) /\ Elems(Append(cola_ready, q)) = Elems(cola_ready) \cup {q}
  BY AlFinalDeCola
<1>7. Elems(cola_ready) \cup {q} = (Elems(cola_ready) \ {q}) \cup {q}
  OBVIOUS
<1> HIDE DEF n
<1> QED BY <1>1, <1>2, <1>3, <1>4, <1>5, <1>6, <1>7

LEMMA EnReglaListo ==
    ASSUME NEW c, NEW pcb, ProgramaDe(pcb, c), TablaDe(pcb.tabla_de_segmentos, Segmentos(c)),
           NEW n, Mira(n, pcb), ~n.page_fault, ~n.segmentation_fault, NEW h, h # "pedir"
    PROVE  EnRegla(n, c, FALSE, FALSE, FALSE, h, FALSE)
BY DEF EnRegla, ProgramaDe, FallaBien, Mira

LEMMA EnTlbMira ==
    ASSUME NEW n, NEW pcb, Mira(n, pcb), NEW mem, NEW k, NEW m, EnTlb(pcb, mem, k, m)
    PROVE  EnTlb(n, mem, k, m)
<1>1. fetch(n) = fetch(pcb) /\ \A z : PaginaEn(n, z) = PaginaEn(pcb, z)
  BY DEF Mira, fetch, PaginaEn
<1>2. DirProxima(n) = DirProxima(pcb) /\ (ProximaEsAcceso(n) <=> ProximaEsAcceso(pcb))
  BY <1>1 DEF Mira, DirProxima, ProximaEsAcceso
<1> QED BY <1>1, <1>2 DEF EnTlb, Mira

LEMMA EnTlbDe ==
    ASSUME InvE, InvD, NEW q \in 1..pid_actual, Admitido(q), ~Acabado(q), NEW pcb, pcb = PcbDe(q),
           NEW n, Mira(n, pcb)
    PROVE  \A k \in Claves(tlb) : k[1] = q => EnTlb(n, memoria, k[2], tlb.marco[k])
<1> TAKE k \in Claves(tlb)
<1> SUFFICES ASSUME k[1] = q PROVE EnTlb(n, memoria, k[2], tlb.marco[k])
  OBVIOUS
<1>1. EnTlb(PcbDe(q), memoria, k[2], tlb.marco[k])
  BY Propios DEF Propio
<1>2. EnTlb(pcb, memoria, k[2], tlb.marco[k])
  BY <1>1
<1> QED BY <1>2, EnTlbMira

\* The pages of a process that is admitted.
LEMMA CuerdaDe ==
    ASSUME InvD, NEW q \in 1..pid_actual, Vive(q), q \notin Elems(cola_new), q \notin Elems(cola_exit)
    PROVE  Cuerda(memoria, q) /\ Datos(memoria)
<1>1. Bien(q) /\ Datos(memoria)
  BY DEF InvD
<1>2. Admitido(q)
  BY AdmitidoEs
<1> QED BY <1>1, <1>2 DEF Bien

\* FinDispositivo.
LEMMA RefDispositivo == ASSUME InvE, InvM, InvD, InvE', ProgramasNormales, FinDispositivo PROVE Refina
<1>0. PICK q : q = Head(cola_dispositivo)
  OBVIOUS
<1>1. /\ cola_dispositivo # <<>> /\ cola_dispositivo' = Tail(cola_dispositivo)
      /\ PasarAReady(pcbs[q]) /\ hilo' = hilo /\ memoria' = memoria
      /\ cola_new' = cola_new /\ cola_exit' = cola_exit /\ cpu' = cpu /\ haciaConsola' = haciaConsola
      /\ UNCHANGED <<pid_actual, consolaDe, tlb, falta, pantalla, consola, haciaKernel>>
  BY <1>0 DEF FinDispositivo, historia, deConsolas
<1>2. cola_dispositivo \in Seq(Nat) /\ SinRepetir(cola_dispositivo)
  BY NoSeMueve
<1>3. /\ q \in Elems(cola_dispositivo)
      /\ Elems(cola_dispositivo') = Elems(cola_dispositivo) \ {q}
      /\ SinRepetir(cola_dispositivo') /\ cola_dispositivo' \in Seq(Nat)
  BY <1>0, <1>1, <1>2, Cabeza
<1>4. /\ q \in DOMAIN pcbs /\ q \notin Elems(cola_new) /\ q \notin Elems(cola_ready)
      /\ q \notin Elems(cola_exit) /\ hilo[q] = "ninguno"
      /\ BuenPcb(pcbs[q], q) /\ Vive(q) /\ ~EnCpuEsta(q)
      /\ q \in Nat /\ q \in 1..pid_actual /\ q \in Pids
  BY <1>3, EnSuLugar
<1>5. PICK pcb : pcb = PcbDe(q)
  OBVIOUS
<1>6. pcb = pcbs[q]
  BY <1>4, <1>5 DEF PcbDe
<1>7. PICK n : /\ BuenPcb(n, q) /\ Mira(n, pcb) /\ n.registros = pcb.registros
               /\ n.socket_consola = pcb.socket_consola
               /\ ~n.page_fault /\ ~n.segmentation_fault /\ Guardar(n)
               /\ cola_ready' \in Seq(Nat) /\ SinRepetir(cola_ready')
               /\ Elems(cola_ready') = (Elems(cola_ready) \ {q}) \cup {q}
  BY <1>1, <1>4, <1>6, NoSeMueve, ListoEs
<1>8. Ubicado(q, n, "ready") /\ "ready" \in Sitios
  <2>1. Ubicado(q, n, "ready")
    BY <1>1, <1>3, <1>4, <1>7, NoSeMueve DEF Ubicado
  <2> QED BY <2>1 DEF Sitios
<1>9. PICK c, f : c = consolaDe[q] /\ f = falta[q]
  OBVIOUS
<1>10. EnRegla(pcb, c, FALSE, FALSE, FALSE, "ninguno", f) /\ f \in BOOLEAN
  <2>1. Vuelve(q) = FALSE /\ (q \in Elems(cola_new)) = FALSE /\ (q \in Elems(cola_exit)) = FALSE
    BY <1>4 DEF Vuelve
  <2> QED BY <1>4, <1>5, <1>9, <2>1, EnReglaDe
<1>11. ~f /\ ~pcb.segmentation_fault /\ EnRegla(n, c, FALSE, FALSE, FALSE, "ninguno", f)
  <2>1. ~f /\ ~pcb.segmentation_fault /\ ProgramaDe(pcb, c)
        /\ TablaDe(pcb.tabla_de_segmentos, Segmentos(c))
    BY <1>10 DEF EnRegla
  <2>2. f = FALSE
    BY <1>10, <2>1
  <2> QED BY <1>7, <2>1, <2>2, EnReglaListo
<1>12. Acabado(q) <=> Terminado(n)
  BY <1>4, <1>5, <1>7, <1>11 DEF Acabado, Terminado, Mira
<1>13. Admitido(q) /\ Mantiene(memoria, memoria', q)
  BY <1>1, <1>4, AdmitidoEs DEF Mantiene
<1>14. ~Acabado(q) => \A k \in Claves(tlb) : k[1] = q => EnTlb(n, memoria', k[2], tlb.marco[k])
  BY <1>1, <1>4, <1>5, <1>7, <1>13, EnTlbDe
<1>15. Cuerda(memoria', q) /\ Datos(memoria')
  BY <1>1, <1>4, CuerdaDe
<1>16. hilo'[q] = "ninguno" /\ "ready" # "exit"
  BY <1>1, <1>4
<1>17. EnRegla(n, c, FALSE, "ready" = "exit", FALSE, "ninguno", f)
  BY <1>11, <1>16
<1> QED BY <1>1, <1>4, <1>5, <1>7, <1>8, <1>9, <1>12, <1>13, <1>14, <1>15, <1>16, <1>17, AlMoverlo

=============================================================================
