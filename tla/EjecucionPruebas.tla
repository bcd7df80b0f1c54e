-------------------------- MODULE EjecucionPruebas --------------------------
(***************************************************************************)
(* Proofs about Ejecucion, the whole system, for any consoles, programs,   *)
(* segments, degree of multiprogramming, memory, TLB and width of an int:  *)
(* InvE is inductive, and with it the types, what is in the sockets, the   *)
(* descriptors the PCBs carry, their trip to the CPU and back, and the     *)
(* places of multiprogramacion.  With InvM, which says the same of frames, *)
(* tables, entries and TLB, no frame is leaked.                            *)
(***************************************************************************)
EXTENDS EjecucionPropiedades, SerializacionPruebas, FiniteSetTheorems

-----------------------------------------------------------------------------
(* The inductive invariant *)

\* What is in a queue, and a queue where nothing is twice.
Elems(q) == {q[i] : i \in DOMAIN q}
SinRepetir(q) == \A i, j \in DOMAIN q : q[i] = q[j] => i = j

\* t_pcb.
CamposPcb == {"pid", "program_counter", "estado", "socket_consola", "interrupcion",
              "con_desalojo", "page_fault", "segmentation_fault", "registros", "pagina_fault",
              "instrucciones", "tabla_de_segmentos", "tamanio_segmentos"}

\* An instruction as the parser leaves it.
EsI(i) == /\ EsInstruccion(i)
          /\ i.operacion = "IO" /\ i.parametro1 = "PANTALLA" => i.parametro2 \in NombresRegistros

\* A program: an EXIT is its last instruction, and what it prints is a register.
EsPrograma(L) ==
    /\ EsLista(L) /\ L # <<>>
    /\ \A i \in DOMAIN L : EsI(L[i]) /\ (L[i].operacion = "EXIT" => i = Len(L))

\* The PCB of process p, wherever it is: its program is whole, its counter in it, and its
\* numbers fit their fields.
BuenPcb(pcb, p) ==
    /\ DOMAIN pcb = CamposPcb /\ pcb = [x \in CamposPcb |-> pcb[x]]
    /\ pcb.pid = p /\ pcb.socket_consola \in Descriptores
    /\ EsPrograma(pcb.instrucciones) /\ pcb.program_counter \in 0..Len(pcb.instrucciones)
    /\ pcb.registros \in [NombresRegistros -> 0..(Modulo-1)]
    /\ pcb.pagina_fault # Nulo =>
          pcb.pagina_fault = <<pcb.pagina_fault[1], pcb.pagina_fault[2]>>
    /\ EsLista(pcb.tabla_de_segmentos)
    /\ \A i \in DOMAIN pcb.tabla_de_segmentos : EsSegmento(pcb.tabla_de_segmentos[i])

\* A pid is once in a queue, at most.
Colas ==
    /\ cola_new \in Seq(Nat) /\ cola_ready \in Seq(Nat)
    /\ cola_dispositivo \in Seq(Nat) /\ cola_exit \in Seq(Nat)
    /\ SinRepetir(cola_new) /\ SinRepetir(cola_ready)
    /\ SinRepetir(cola_dispositivo) /\ SinRepetir(cola_exit)

Bloqueados == {p \in Pids : hilo[p] # "ninguno"}

\* A PCB that is in the heap is in one queue, or a thread has it.
EnUnLugar ==
    /\ Bloqueados \subseteq DOMAIN pcbs
    /\ Elems(cola_new) \subseteq DOMAIN pcbs /\ Elems(cola_ready) \subseteq DOMAIN pcbs
    /\ Elems(cola_dispositivo) \subseteq DOMAIN pcbs /\ Elems(cola_exit) \subseteq DOMAIN pcbs
    /\ Elems(cola_new) \cap Elems(cola_ready) = {}
    /\ Elems(cola_new) \cap Elems(cola_dispositivo) = {}
    /\ Elems(cola_new) \cap Elems(cola_exit) = {}
    /\ Elems(cola_new) \cap Bloqueados = {}
    /\ Elems(cola_ready) \cap Elems(cola_dispositivo) = {}
    /\ Elems(cola_ready) \cap Elems(cola_exit) = {}
    /\ Elems(cola_ready) \cap Bloqueados = {}
    /\ Elems(cola_dispositivo) \cap Elems(cola_exit) = {}
    /\ Elems(cola_dispositivo) \cap Bloqueados = {}
    /\ Elems(cola_exit) \cap Bloqueados = {}

\* The memory, as far as the kernel depends on it.
CamposMemoria == {"tablas", "marcos", "espacio"}
EsMemoria(mem) == /\ DOMAIN mem = CamposMemoria /\ mem = [x \in CamposMemoria |-> mem[x]]
                  /\ EsLista(mem.tablas)

\* The types: pids are given in the order the programs are received, one to a console.
Tipos ==
    /\ consola \in [Consolas -> Formas]
    /\ DOMAIN haciaKernel = Consolas /\ haciaKernel = [c \in Consolas |-> haciaKernel[c]]
    /\ DOMAIN haciaConsola = Consolas /\ haciaConsola = [c \in Consolas |-> haciaConsola[c]]
    /\ fds \in [Descriptores -> Consolas \cup {Cerrado}]
    /\ aceptado \in Descriptores \cup {Ninguno}
    /\ pid_actual \in Nat
    /\ consolaDe \in Seq(Consolas) /\ Len(consolaDe) = pid_actual /\ SinRepetir(consolaDe)
    /\ pendientes \in Seq(Consolas) /\ SinRepetir(pendientes)
    /\ multiprogramacion \in Nat
    /\ hilo \in [Pids -> {"ninguno", "page fault", "pedir", "contestar"}]
    /\ DOMAIN pcbs \subseteq 1..pid_actual /\ pcbs = [p \in DOMAIN pcbs |-> pcbs[p]]
    /\ EsMemoria(memoria)

\* The instruction behind the counter, which solicitud reads, and the end of a program.
UltimaEsDeConsola(pcb) ==
    pcb.program_counter >= 1 /\ EsDeConsola(obtener_ultima_instruccion(pcb))
Terminado(pcb) == pcb.segmentation_fault \/ pcb.program_counter = Len(pcb.instrucciones)

\* The PCB the CPU has is not in the heap, its counter is at an instruction while it runs,
\* and has one behind it when it comes back without a fault.
EnCpuBien ==
    cpu # Libre =>
        /\ cpu = [estado |-> cpu.estado, pcb |-> cpu.pcb] /\ cpu.estado \in {"ejecuta", "devuelve"}
        /\ cpu.pcb.pid \in (1..pid_actual) \ DOMAIN pcbs
        /\ BuenPcb(cpu.pcb, cpu.pcb.pid)
        /\ cpu.estado = "ejecuta" => cpu.pcb.program_counter < Len(cpu.pcb.instrucciones)
        /\ \/ cpu.estado = "ejecuta" \/ cpu.pcb.page_fault \/ cpu.pcb.segmentation_fault
           \/ cpu.pcb.program_counter >= 1

\* Every PCB is good; who is in EXIT ended, and who has a thread of console I/O stopped
\* after an I/O instruction of the console.
Pcbs ==
    /\ \A p \in DOMAIN pcbs : BuenPcb(pcbs[p], p)
    /\ \A p \in Elems(cola_exit) : Terminado(pcbs[p])
    /\ \A p \in Elems(cola_new) : EsLista(pcbs[p].tamanio_segmentos)
    /\ \A p \in Elems(cola_new) : \A i \in DOMAIN pcbs[p].tamanio_segmentos :
            EsTexto(pcbs[p].tamanio_segmentos[i])
    /\ \A p \in Pids : hilo[p] \in {"pedir", "contestar"} => UltimaEsDeConsola(pcbs[p])
    /\ EnCpuBien

\* The descriptor of a PCB is of its console, or was, and the console died and left nothing
\* to read.  The thread that accepts has another.
Socket(p) == PcbDe(p).socket_consola
Conectado(p) ==
    /\ Socket(p) \in Descriptores /\ Socket(p) # aceptado
    /\ \/ fds[Socket(p)] = consolaDe[p]
       \/ /\ fds[Socket(p)] = Cerrado /\ consola[consolaDe[p]] = "muerta"
          /\ haciaKernel[consolaDe[p]] = <<>>
Conectados == \A p \in 1..pid_actual : Vive(p) => Conectado(p)
\* A console that waits to be accepted, or for its program to be received, has no process.
AceptadoSinProceso ==
    aceptado # Ninguno => /\ fds[aceptado] \in Consolas
                          /\ fds[aceptado] \notin Elems(consolaDe)
                          /\ fds[aceptado] \notin Elems(pendientes)
                          /\ consola[fds[aceptado]] # "sin iniciar"
PendientesSinProceso ==
    \A c \in Elems(pendientes) : c \notin Elems(consolaDe) /\ consola[c] # "sin iniciar"
Conexiones == Conectados /\ AceptadoSinProceso /\ PendientesSinProceso

\* What the thread of solicitud asks and is answered, and the program.
Pedido(t, m) == IF t = "TECLADO" THEN m = Codigo("TECLADO")
                ELSE \E v \in Int : m = ValorConCodigo(v, "PANTALLA")
Respuesta(t, k) == IF t = "TECLADO" THEN \E v \in Int : k = ValorConCodigo(v, "OKI_TECLADO")
                   ELSE k = Codigo("OKI_PANTALLA")
Programa(c, k) ==
    \E a \in Archivos(c) : SePuedeLeer(a) /\ k = Paquete("PROCESO", empaquetar_proceso(
        [instrucciones |-> obtener_pseudocodigo(a), segmentos |-> Segmentos(c)]))

\* The sockets of a console that has no process: it may have sent its program.
SinProceso(c) ==
    /\ haciaConsola[c] = <<>> /\ consola[c] # "imprimio"
    /\ haciaKernel[c] # <<>> => consola[c] \in {"atiende", "muerta"} /\ Programa(c, haciaKernel[c])
\* Its process is not waiting for it: nothing is said.
EnSilencio(c) ==
    haciaKernel[c] = <<>> /\ haciaConsola[c] = <<>> /\ consola[c] \in {"atiende", "muerta"}
\* Its process waits for the answer to what it asked: the question is on its way, or is being
\* answered, or the answer is.
EnDialogo(c, t) ==
    /\ haciaKernel[c] = <<>> \/ haciaConsola[c] = <<>>
    /\ haciaConsola[c] # <<>> => consola[c] = "atiende" /\ Pedido(t, haciaConsola[c])
    /\ haciaKernel[c] # <<>> => consola[c] \in {"atiende", "muerta"} /\ Respuesta(t, haciaKernel[c])
    /\ consola[c] = "imprimio" => haciaKernel[c] = <<>> /\ haciaConsola[c] = <<>> /\ t # "TECLADO"
    /\ consola[c] \in {"atiende", "imprimio", "muerta"}
\* Its process ended: it was told, at most that.
Despedida(c) ==
    /\ haciaKernel[c] = <<>> /\ consola[c] \in {"atiende", "fin", "muerta"}
    /\ haciaConsola[c] # <<>> => haciaConsola[c] = Codigo("FINALIZAR") /\ consola[c] = "atiende"

\* What is said to the console of p, by where p is.
Acabo(p) == ~Vive(p) \/ p \in Elems(cola_exit)
Trato(p) ==
    IF Acabo(p) THEN Despedida(consolaDe[p])
    ELSE IF hilo[p] = "contestar"
    THEN EnDialogo(consolaDe[p], obtener_ultima_instruccion(pcbs[p]).parametro1)
    ELSE EnSilencio(consolaDe[p])
\* Every socket, by the process its console has.
Mensajes ==
    /\ \A c \in Consolas : c \notin Elems(consolaDe) => SinProceso(c)
    /\ \A p \in 1..pid_actual : Trato(p)

\* The inductive invariant of Ejecucion.
InvE == Tipos /\ Colas /\ EnUnLugar /\ Pcbs /\ Conexiones /\ Mensajes /\ GradoExacto

-----------------------------------------------------------------------------
(* Queues *)

\* A list and a stream of bytes are the same kind of thing.
LEMMA ListaEsFlujo == ASSUME NEW s PROVE EsLista(s) <=> EsFlujo(s)
<1>1. ASSUME EsLista(s) PROVE EsFlujo(s)
  <2> DEFINE S == {s[i] : i \in 1..Len(s)}
  <2>1. s \in [1..Len(s) -> S] /\ Len(s) \in Nat
    BY <1>1 DEF EsLista
  <2>2. s \in Seq(S)
    BY <2>1
  <2> QED BY <2>2 DEF EsFlujo
<1>2. ASSUME EsFlujo(s) PROVE EsLista(s)
  <2>1. PICK S : s \in Seq(S)
    BY <1>2 DEF EsFlujo
  <2> QED BY <2>1 DEF EsLista
<1> QED BY <1>1, <1>2

\* The length and the positions of a list.
LEMMA DeLista == ASSUME NEW s, EsLista(s) PROVE Len(s) \in Nat /\ DOMAIN s = 1..Len(s)
BY DEF EsLista

\* What push does to a queue (queue_push).
LEMMA AlFinalDeCola ==
    ASSUME NEW S, NEW q \in Seq(S), NEW x
    PROVE  /\ Append(q, x) \in Seq(S \cup {x}) /\ Elems(Append(q, x)) = Elems(q) \cup {x}
           /\ x \notin Elems(q) /\ SinRepetir(q) => SinRepetir(Append(q, x))
<1>1. q \in Seq(S \cup {x}) /\ Append(q, x) \in Seq(S \cup {x})
  OBVIOUS
<1>2. Len(Append(q, x)) = Len(q) + 1 /\ Append(q, x)[Len(q) + 1] = x
      /\ DOMAIN q = 1..Len(q) /\ DOMAIN Append(q, x) = 1..(Len(q) + 1) /\ Len(q) \in Nat
      /\ \A i \in 1..Len(q) : Append(q, x)[i] = q[i]
  BY <1>1
<1>3. Elems(Append(q, x)) = Elems(q) \cup {x}
  <2>1. ASSUME NEW e \in Elems(Append(q, x)) PROVE e \in Elems(q) \cup {x}
    <3>1. PICK i \in 1..(Len(q) + 1) : e = Append(q, x)[i]
      BY <1>2 DEF Elems
    <3>2. CASE i = Len(q) + 1
      BY <1>2, <3>1, <3>2
    <3>3. CASE i \in 1..Len(q)
      BY <1>2, <3>1, <3>3 DEF Elems
    <3> QED BY <1>2, <3>2, <3>3
  <2>2. ASSUME NEW e \in Elems(q) PROVE e \in Elems(Append(q, x))
    <3>1. PICK i \in 1..Len(q) : e = q[i]
      BY <1>2 DEF Elems
    <3>2. i \in DOMAIN Append(q, x) /\ Append(q, x)[i] = e
      BY <1>2, <3>1
    <3> QED BY <3>2 DEF Elems
  <2>3. x \in Elems(Append(q, x))
    <3>1. Len(q) + 1 \in DOMAIN Append(q, x)
      BY <1>2
    <3> QED BY <1>2, <3>1 DEF Elems
  <2> QED BY <2>1, <2>2, <2>3
<1>4. ASSUME x \notin Elems(q), SinRepetir(q) PROVE SinRepetir(Append(q, x))
  <2>1. \A i \in 1..Len(q) : q[i] # x
    BY <1>2, <1>4 DEF Elems
  <2>2. \A i \in 1..(Len(q) + 1) : i \in 1..Len(q) \/ i = Len(q) + 1
    BY <1>2
  <2> QED BY <1>2, <1>4, <2>1, <2>2 DEF SinRepetir
<1> QED BY <1>1, <1>3, <1>4

\* What pop does to a queue (queue_pop).
LEMMA Cabeza ==
    ASSUME NEW S, NEW q \in Seq(S), q # <<>>, SinRepetir(q)
    PROVE  /\ Head(q) \in Elems(q) /\ Elems(q) \subseteq S
           /\ Elems(Tail(q)) = Elems(q) \ {Head(q)} /\ SinRepetir(Tail(q))
           /\ Tail(q) \in Seq(S)
<1>1. Len(q) \in Nat \ {0} /\ DOMAIN q = 1..Len(q) /\ Head(q) = q[1]
      /\ Len(Tail(q)) = Len(q) - 1 /\ DOMAIN Tail(q) = 1..(Len(q) - 1) /\ Tail(q) \in Seq(S)
      /\ \A i \in 1..(Len(q) - 1) : Tail(q)[i] = q[i + 1]
  OBVIOUS
<1>2. Head(q) \in Elems(q) /\ Elems(q) \subseteq S
  BY <1>1 DEF Elems
<1>3. SinRepetir(Tail(q))
  BY <1>1 DEF SinRepetir
<1>4. Elems(Tail(q)) = Elems(q) \ {Head(q)}
  <2>1. ASSUME NEW e \in Elems(Tail(q)) PROVE e \in Elems(q) \ {Head(q)}
    <3>1. PICK i \in 1..(Len(q) - 1) : e = q[i + 1]
      BY <1>1 DEF Elems
    <3>2. i + 1 \in DOMAIN q /\ i + 1 # 1 /\ 1 \in DOMAIN q
      BY <1>1
    <3> QED BY <1>1, <3>1, <3>2 DEF Elems, SinRepetir
  <2>2. ASSUME NEW e \in Elems(q) \ {Head(q)} PROVE e \in Elems(Tail(q))
    <3>1. PICK i \in 1..Len(q) : e = q[i]
      BY <1>1 DEF Elems
    <3>2. i - 1 \in 1..(Len(q) - 1) /\ (i - 1) + 1 = i
      BY <1>1, <2>2, <3>1
    <3>3. Tail(q)[i - 1] = e
      BY <1>1, <3>1, <3>2
    <3> QED BY <1>1, <3>2, <3>3 DEF Elems
  <2> QED BY <2>1, <2>2
<1> QED BY <1>1, <1>2, <1>3, <1>4

\* A sequence is one of the set its elements are in.
LEMMA OtroTipo ==
    ASSUME NEW S, NEW T, NEW q \in Seq(S), Elems(q) \subseteq T PROVE q \in Seq(T)
<1>1. q \in [1..Len(q) -> T] /\ Len(q) \in Nat
  BY DEF Elems
<1> QED BY <1>1

-----------------------------------------------------------------------------
(* Texts, messages and programs *)

\* Every conversion of an int to text and back stays among the ints (string_itoa, atoi).
LEMMA NumeroTexto ==
    /\ \A t : atoi(t) \in Enteros /\ atoi(t) \in Int
    /\ \A n \in Int : SinSigno(n) \in 0..(Modulo - 1) /\ ConSigno(n) \in Enteros
                      /\ EsTexto(string_itoa(n))
<1> DEFINE h == Modulo \div 2
<1>1. Modulo \in Nat \ {0} /\ h \in Nat /\ Modulo = 2 * h /\ h > 0
  BY ModuloAssumption
<1>2. Enteros = (-h)..(h - 1) /\ 0 \in Enteros
  BY <1>1 DEF Enteros
<1>3. ASSUME NEW t PROVE atoi(t) \in Enteros
  <2>1. CASE t \in {Numeral[n] : n \in Enteros}
    <3>1. \E n \in Enteros : Numeral[n] = t
      BY <2>1
    <3>2. (CHOOSE n \in Enteros : Numeral[n] = t) \in Enteros
      BY <3>1
    <3> QED BY <2>1, <3>2 DEF atoi, Numerado
  <2>2. CASE t \notin {Numeral[n] : n \in Enteros}
    BY <1>2, <2>2 DEF atoi, Numerado
  <2> QED BY <2>1, <2>2
<1>4. ASSUME NEW n \in Int
      PROVE  SinSigno(n) \in 0..(Modulo - 1) /\ ConSigno(n) \in Enteros
             /\ EsTexto(string_itoa(n))
  <2>1. SinSigno(n) \in 0..(Modulo - 1)
    BY <1>1 DEF SinSigno
  <2>2. ConSigno(n) \in Enteros
    BY <1>1, <1>2, <2>1 DEF ConSigno
  <2>3. string_itoa(n) = ToString(ConSigno(n))
    BY <2>2 DEF string_itoa, Numeral
  <2> QED BY <2>1, <2>2, <2>3, NumeralAssumption
<1> QED BY <1>2, <1>3, <1>4

\* The empty stream.
LEMMA Vacio ==
    /\ EsFlujo(<<>>)
    /\ \A s : EsFlujo(s) => <<>> \o s = s /\ s \o <<>> = s
<1>1. EsFlujo(<<>>)
  <2>1. <<>> \in Seq({})
    OBVIOUS
  <2> QED BY <2>1 DEF EsFlujo
<1>2. ASSUME NEW s, EsFlujo(s) PROVE <<>> \o s = s /\ s \o <<>> = s
  <2>1. PICK S : s \in Seq(S)
    BY <1>2 DEF EsFlujo
  <2> QED BY <2>1
<1> QED BY <1>1, <1>2

\* A code on its own, and a whole message on its own.
LEMMA CodigoSolo ==
    ASSUME NEW x
    PROVE  /\ EsFlujo(Codigo(x)) /\ Codigo(x) # <<>> /\ <<>> \o Codigo(x) = Codigo(x)
           /\ Operacion(Codigo(x)) = x /\ TrasOperacion(Codigo(x)) = <<>>
<1>1. EsFlujo(Codigo(x)) /\ Len(Codigo(x)) = AnchoInt /\ AnchoInt # 0
  BY Anchos DEF AnchoInt
<1>2. Codigo(x) # <<>>
  BY <1>1
<1>3. Codigo(x) \o <<>> = Codigo(x) /\ <<>> \o Codigo(x) = Codigo(x)
  BY <1>1, Vacio
<1>4. Operacion(Codigo(x) \o <<>>) = x /\ TrasOperacion(Codigo(x) \o <<>>) = <<>>
  BY CodigoEntero, Vacio
<1> QED BY <1>1, <1>2, <1>3, <1>4

\* A packet that is all there is in a socket is read whole (recibir_paquete).
LEMMA PaqueteSolo ==
    ASSUME NEW x, NEW stream, EsFlujo(stream)
    PROVE  LET f == Paquete(x, stream) IN
           /\ EsFlujo(f) /\ f # <<>> /\ <<>> \o f = f
           /\ Operacion(f) = x /\ Buffer(f) = stream /\ TrasPaquete(f) = <<>>
<1> DEFINE f == Paquete(x, stream)
           a == Codigo(x) \o Entero(Len(stream))
<1>1. EsFlujo(a) /\ Len(a) = AnchoInt + AnchoInt
  BY Anchos, Concatenado
<1>2. EsFlujo(a \o stream) /\ Len(a \o stream) = Len(a) + Len(stream) /\ Len(stream) \in Nat
  <2> HIDE DEF a
  <2> QED BY <1>1, Concatenado
<1>3. f = a \o stream
  BY DEF Paquete
<1>4. Len(f) # 0
  BY <1>1, <1>2, <1>3 DEF AnchoInt
<1> HIDE DEF f, a
<1>5. EsFlujo(f) /\ f # <<>>
  BY <1>2, <1>3, <1>4
<1>6. f \o <<>> = f /\ <<>> \o f = f
  BY <1>5, Vacio
<1>7. Operacion(f \o <<>>) = x /\ Buffer(f \o <<>>) = stream /\ TrasPaquete(f \o <<>>) = <<>>
  <2>1. EsFlujo(<<>>)
    BY Vacio
  <2> QED BY <2>1, MensajeEntero DEF f
<1> QED BY <1>5, <1>6, <1>7 DEF f

\* A value with its code, alone in a socket (enviar_valor_con_codigo).
LEMMA ValorSolo ==
    ASSUME NEW v \in Int, NEW x
    PROVE  LET f == ValorConCodigo(v, x) IN
           /\ EsFlujo(f) /\ f # <<>> /\ <<>> \o f = f
           /\ Operacion(f) = x /\ TrasPaquete(f) = <<>> /\ Buffer(f) = Texto(string_itoa(v))
<1>1. EsTexto(string_itoa(v))
  BY NumeroTexto
<1>2. EsFlujo(Texto(string_itoa(v)))
  BY <1>1, TextoFlujo
<1>3. ValorConCodigo(v, x) = Paquete(x, Texto(string_itoa(v)))
  BY DEF ValorConCodigo
<1> HIDE DEF ValorConCodigo
<1> QED BY <1>2, <1>3, PaqueteSolo

---------------------------------------------------------------------------
(* Programs *)

\* Only what comes before the first EXIT is read, and it.
LEMMA LeidasHasta ==
    ASSUME NEW a, EsLista(a), a # <<>>
    PROVE  \E n \in 1..Len(a) :
              /\ Leidas(a) = 1..n
              /\ \A i \in 1..(n - 1) : ~EsExit(a[i])
<1>1. Len(a) \in Nat /\ DOMAIN a = 1..Len(a)
  BY DeLista
<1>2. Len(a) # 0
  BY <1>1 DEF EsLista
<1> DEFINE K == {k \in Nat : k <= Len(a) /\ \A j \in 1..(k - 1) : ~EsExit(a[j])}
<1>3. PICK n \in K : n + 1 \notin K
  <2>1. SUFFICES ASSUME \A k \in K : k + 1 \in K PROVE FALSE
    OBVIOUS
  <2>2. 0 \in K
    BY <1>1
  <2>3. \A k \in Nat : k \in K
    <3> HIDE DEF K
    <3> QED BY <2>1, <2>2, Induccion
  <2>4. Len(a) + 1 \in K
    BY <1>1, <2>3
  <2> QED BY <1>1, <2>4
<1>4. n \in 1..Len(a)
  <2>1. 1 \in K
    BY <1>1, <1>2
  <2>2. n # 0
    <3> HIDE DEF K
    <3> QED BY <1>3, <2>1
  <2> QED BY <2>2
<1>5. Leidas(a) = 1..n
  <2>1. ASSUME NEW i \in 1..n PROVE i \in Leidas(a)
    BY <1>1, <1>4 DEF Leidas
  <2>2. ASSUME NEW i \in Leidas(a) PROVE i \in 1..n
    <3>1. i \in 1..Len(a) /\ \A j \in 1..(i - 1) : ~EsExit(a[j])
      BY <1>1 DEF Leidas
    <3>2. SUFFICES ASSUME i > n PROVE FALSE
      BY <1>4, <3>1
    <3>3. n + 1 \in Nat /\ n + 1 <= Len(a)
      BY <1>1, <1>4, <3>1, <3>2
    <3>4. \A j \in 1..n : j \in 1..(i - 1)
      BY <1>4, <3>1, <3>2
    <3>5. \A j \in 1..((n + 1) - 1) : ~EsExit(a[j])
      BY <1>4, <3>1, <3>4
    <3> QED BY <1>3, <3>3, <3>5
  <2> QED BY <2>1, <2>2
<1> QED BY <1>3, <1>4, <1>5

\* What the parser makes of a file is a program (obtener_pseudocodigo).
LEMMA ProgramaLeido ==
    ASSUME NEW c \in Consolas, NEW a \in Archivos(c), SePuedeLeer(a)
    PROVE  EsPrograma(obtener_pseudocodigo(a))
<1>1. EsLista(a) /\ a # <<>>
      /\ \A i \in DOMAIN a : EsLista(a[i]) /\ a[i] # <<>> /\ ImprimeRegistro(a[i])
                             /\ \A k \in DOMAIN a[i] : EsTexto(a[i][k])
  BY ArchivosAssumption
<1>2. PICK n \in 1..Len(a) : Leidas(a) = 1..n /\ \A i \in 1..(n - 1) : ~EsExit(a[i])
  BY <1>1, LeidasHasta
<1>3. Len(a) \in Nat /\ DOMAIN a = 1..Len(a) /\ n \in Nat \ {0}
  BY <1>1, DeLista
<1> DEFINE L == obtener_pseudocodigo(a)
           E(i) == instruccion_create(string_to_cod_op(a[i][1]), ConParametros(a[i]))
<1>4. L = [i \in 1..n |-> E(i)]
  BY <1>2 DEF obtener_pseudocodigo
<1>5. EsLista(L) /\ L # <<>> /\ DOMAIN L = 1..n /\ Len(L) = n
  <2> HIDE DEF E, L
  <2>1. DOMAIN L = 1..n
    BY <1>4
  <2>2. L \in Seq({E(i) : i \in 1..n}) /\ Len(L) = n
    BY <1>3, <1>4
  <2>3. EsFlujo(L)
    BY <2>2 DEF EsFlujo
  <2> QED BY <1>3, <2>1, <2>2, <2>3, ListaEsFlujo
<1>6. ASSUME NEW i \in 1..n PROVE EsI(L[i]) /\ (L[i].operacion = "EXIT" => i = Len(L))
  <2>1. L[i] = E(i) /\ i \in DOMAIN a
    BY <1>3, <1>4
  <2> DEFINE oper == string_to_cod_op(a[i][1])
             p1 == IF Len(ConParametros(a[i])) = 2 THEN ConParametros(a[i])[1] ELSE ""
             p2 == IF Len(ConParametros(a[i])) = 2 THEN ConParametros(a[i])[2] ELSE ""
  <2>1b. L[i] = [operacion |-> oper, parametro1 |-> p1, parametro2 |-> p2]
    BY <2>1 DEF instruccion_create
  <2> HIDE DEF L, oper, p1, p2, E
  <2>1c. L[i].operacion = oper /\ L[i].parametro1 = p1 /\ L[i].parametro2 = p2
    BY <2>1b
  <2>2. L[i].operacion = string_to_cod_op(a[i][1])
        /\ L[i] = [operacion |-> L[i].operacion, parametro1 |-> L[i].parametro1,
                   parametro2 |-> L[i].parametro2]
    BY <2>1b, <2>1c DEF oper
  <2>3. L[i].operacion = "EXIT" => i = Len(L)
    <3>1. i \in 1..(n - 1) \/ i = n
      BY <1>3
    <3>2. EsExit(a[i]) <=> L[i].operacion = "EXIT"
      BY <2>2 DEF EsExit
    <3> QED BY <1>2, <1>5, <3>1, <3>2
  <2>4. EsTexto("")
    BY NumeralAssumption
  <2>5. CASE EsExit(a[i])
    <3>1. ConParametros(a[i]) = <<>>
      BY <2>5 DEF ConParametros
    <3>2. L[i].parametro1 = "" /\ L[i].parametro2 = ""
      <4>1. Len(<<>>) # 2
        OBVIOUS
      <4> QED BY <2>1c, <3>1, <4>1 DEF p1, p2
    <3>3. L[i].operacion = "EXIT"
      BY <2>2, <2>5 DEF EsExit
    <3> QED BY <2>2, <2>3, <2>4, <3>2, <3>3 DEF EsI, EsInstruccion
  <2>6. CASE ~EsExit(a[i])
    <3>1. Len(a[i]) >= 3
      BY <1>2, <2>6 DEF SePuedeLeer
    <3>2. EsLista(a[i]) /\ ImprimeRegistro(a[i]) /\ \A k \in DOMAIN a[i] : EsTexto(a[i][k])
      BY <1>1, <2>1
    <3>3. Len(a[i]) \in Nat /\ DOMAIN a[i] = 1..Len(a[i])
      BY <3>2, DeLista
    <3> DEFINE s == SubSeq(a[i], 2, 3)
    <3>4. Len(s) = 2 /\ s[1] = a[i][2] /\ s[2] = a[i][3]
      <4>1. PICK S : a[i] \in Seq(S)
        BY <3>2, ListaEsFlujo DEF EsFlujo
      <4> QED BY <3>1, <3>3, <4>1
    <3>5. ConParametros(a[i]) = s
      BY <2>6 DEF ConParametros
    <3> HIDE DEF s
    <3>6. L[i].parametro1 = a[i][2] /\ L[i].parametro2 = a[i][3]
      BY <2>1c, <3>4, <3>5 DEF p1, p2
    <3>7. EsTexto(a[i][2]) /\ EsTexto(a[i][3])
      BY <3>1, <3>2, <3>3
    <3>8. L[i].operacion = "IO" => a[i][1] = "I/O"
      BY <2>2 DEF string_to_cod_op, Operaciones
    <3>9. L[i].operacion = "IO" /\ L[i].parametro1 = "PANTALLA"
             => L[i].parametro2 \in NombresRegistros
      <4>1. ASSUME L[i].operacion = "IO", L[i].parametro1 = "PANTALLA"
            PROVE  \E k \in DOMAIN Registros : a[i][3] = Registros[k]
        BY <3>1, <3>2, <3>6, <3>8, <4>1 DEF ImprimeRegistro
      <4> QED BY <3>6, <4>1 DEF Registros, NombresRegistros
    <3> QED BY <2>2, <2>3, <3>6, <3>7, <3>9 DEF EsI, EsInstruccion
  <2> QED BY <2>5, <2>6
<1> QED BY <1>5, <1>6 DEF EsPrograma

-----------------------------------------------------------------------------
(* The PCB and its fields *)

\* What every step of a PCB leaves as it is.
Igual(n, pcb) ==
    /\ n.pid = pcb.pid /\ n.socket_consola = pcb.socket_consola
    /\ n.instrucciones = pcb.instrucciones
Quieto(n, pcb) ==
    Igual(n, pcb) /\ n.program_counter = pcb.program_counter
    /\ n.segmentation_fault = pcb.segmentation_fault

\* Such a PCB is one its serialization is exact for (SerializacionPruebas!PcbEntero).
LEMMA PcbEs ==
    ASSUME NEW p, NEW pcb, BuenPcb(pcb, p)
    PROVE  EsPcb(pcb)
<1>1. pcb = [pid |-> pcb.pid, program_counter |-> pcb.program_counter, estado |-> pcb.estado,
             socket_consola |-> pcb.socket_consola, interrupcion |-> pcb.interrupcion,
             con_desalojo |-> pcb.con_desalojo, page_fault |-> pcb.page_fault,
             segmentation_fault |-> pcb.segmentation_fault, registros |-> pcb.registros,
             pagina_fault |-> pcb.pagina_fault, instrucciones |-> pcb.instrucciones,
             tabla_de_segmentos |-> pcb.tabla_de_segmentos,
             tamanio_segmentos |-> pcb.tamanio_segmentos]
  BY DEF BuenPcb, CamposPcb
<1>2. pcb.registros = [AX |-> pcb.registros.AX, BX |-> pcb.registros.BX,
                       CX |-> pcb.registros.CX, DX |-> pcb.registros.DX]
  BY DEF BuenPcb, NombresRegistros
<1>3. EsFlujo(pcb.instrucciones) /\ EsFlujo(pcb.tabla_de_segmentos)
  BY ListaEsFlujo DEF BuenPcb, EsPrograma
<1>4. \A i \in DOMAIN pcb.instrucciones : EsInstruccion(pcb.instrucciones[i])
  BY DEF BuenPcb, EsPrograma, EsI
<1>5. /\ pcb.pagina_fault # Nulo =>
            pcb.pagina_fault = <<pcb.pagina_fault[1], pcb.pagina_fault[2]>>
      /\ \A i \in DOMAIN pcb.tabla_de_segmentos : EsSegmento(pcb.tabla_de_segmentos[i])
  BY DEF BuenPcb
<1>6. TieneCampos(pcb)
  BY <1>1, <1>2, Zenon DEF TieneCampos
<1> QED BY <1>3, <1>4, <1>5, <1>6 DEF EsPcb

\* The PCB at the other end of the socket.
LEMMA Viaja ==
    ASSUME NEW p, NEW pcb, BuenPcb(pcb, p)
    PROVE  LET r == PorDispatch(pcb) IN
           /\ BuenPcb(r, p) /\ Quieto(r, pcb)
           /\ r.page_fault = pcb.page_fault /\ r.interrupcion = pcb.interrupcion
           /\ r.registros = pcb.registros
<1> DEFINE r == PorDispatch(pcb)
<1>1. EsPcb(pcb)
  BY PcbEs
<1>2. EsFlujo(empaquetar_pcb(pcb)) /\ deserializar_pcb(empaquetar_pcb(pcb)).valor = Viajado(pcb)
  BY <1>1, PcbEntero
<1>3. r = Viajado(pcb)
  <2>1. Buffer(Paquete("PCB", empaquetar_pcb(pcb))) = empaquetar_pcb(pcb)
    BY <1>2, PaqueteSolo
  <2> QED BY <1>2, <2>1 DEF PorDispatch, recibir_pcb
<1> HIDE DEF r
<1>4. /\ DOMAIN r = CamposPcb /\ r = [x \in CamposPcb |-> r[x]]
      /\ r.pid = pcb.pid /\ r.program_counter = pcb.program_counter
      /\ r.socket_consola = pcb.socket_consola /\ r.instrucciones = pcb.instrucciones
      /\ r.segmentation_fault = pcb.segmentation_fault /\ r.page_fault = pcb.page_fault
      /\ r.interrupcion = pcb.interrupcion /\ r.registros = pcb.registros
      /\ r.tabla_de_segmentos = pcb.tabla_de_segmentos
      /\ r.pagina_fault = IF pcb.pagina_fault = Nulo THEN <<-1, -1>> ELSE pcb.pagina_fault
  BY <1>3 DEF Viajado, CamposPcb
<1>5. r.pagina_fault # Nulo => r.pagina_fault = <<r.pagina_fault[1], r.pagina_fault[2]>>
  <2>1. pcb.pagina_fault # Nulo =>
          pcb.pagina_fault = <<pcb.pagina_fault[1], pcb.pagina_fault[2]>>
    BY DEF BuenPcb
  <2>2. CASE pcb.pagina_fault = Nulo
    BY <1>4, <2>2
  <2>3. CASE pcb.pagina_fault # Nulo
    BY <1>4, <2>1, <2>3
  <2> QED BY <2>2, <2>3
<1>6. BuenPcb(r, p)
  BY <1>4, <1>5 DEF BuenPcb
<1> QED BY <1>4, <1>6 DEF r, Igual, Quieto

\* pcb_create.
LEMMA Creado ==
    ASSUME NEW pid, NEW fd \in Descriptores, NEW proceso, EsPrograma(proceso.instrucciones)
    PROVE  LET n == pcb_create(proceso, pid, fd) IN
           /\ BuenPcb(n, pid) /\ n.socket_consola = fd /\ n.pid = pid
           /\ n.tamanio_segmentos = proceso.segmentos
<1> DEFINE n == pcb_create(proceso, pid, fd)
<1>1. /\ DOMAIN n = CamposPcb /\ n = [x \in CamposPcb |-> n[x]]
      /\ n.pid = pid /\ n.program_counter = 0 /\ n.socket_consola = fd
      /\ n.instrucciones = proceso.instrucciones /\ n.tamanio_segmentos = proceso.segmentos
      /\ n.tabla_de_segmentos = <<>> /\ n.pagina_fault = Nulo
      /\ n.registros = [AX |-> 0, BX |-> 0, CX |-> 0, DX |-> 0]
  BY DEF pcb_create, CamposPcb
<1>2. n.registros \in [NombresRegistros -> 0..(Modulo - 1)]
  <2>1. 0 \in 0..(Modulo - 1)
    BY ModuloAssumption
  <2> QED BY <1>1, <2>1 DEF NombresRegistros
<1>3. EsLista(n.tabla_de_segmentos) /\ DOMAIN n.tabla_de_segmentos = {}
  BY <1>1, Vacio, ListaEsFlujo
<1>4. n.program_counter \in 0..Len(n.instrucciones)
  BY <1>1, DeLista DEF EsPrograma
<1> HIDE DEF n
<1> QED BY <1>1, <1>2, <1>3, <1>4 DEF BuenPcb, n

\* The steps of a PCB, one by one.
LEMMA CambiaEstado ==
    ASSUME NEW p, NEW pcb, BuenPcb(pcb, p), NEW e
    PROVE  LET n == [pcb EXCEPT !.estado = e] IN
           BuenPcb(n, p) /\ Quieto(n, pcb) /\ n.tamanio_segmentos = pcb.tamanio_segmentos
BY DEF BuenPcb, Quieto, Igual, CamposPcb

\* push_ready_pcb and pasar_a_ready.
LEMMA VuelveAReady ==
    ASSUME NEW p, NEW pcb, BuenPcb(pcb, p)
    PROVE  LET n == [pcb EXCEPT !.estado = "READY", !.con_desalojo = TRUE,
                         !.interrupcion = FALSE, !.page_fault = FALSE,
                         !.segmentation_fault = FALSE] IN
           BuenPcb(n, p) /\ Igual(n, pcb) /\ n.program_counter = pcb.program_counter
BY DEF BuenPcb, Quieto, Igual, CamposPcb

\* analizar_contexto_recibido.
LEMMA InterrupcionAtendida ==
    ASSUME NEW p, NEW pcb, BuenPcb(pcb, p)
    PROVE  LET n == [pcb EXCEPT !.interrupcion = FALSE, !.con_desalojo = FALSE] IN
           BuenPcb(n, p) /\ Quieto(n, pcb) /\ n.page_fault = pcb.page_fault
           /\ n.registros = pcb.registros
BY DEF BuenPcb, Quieto, Igual, CamposPcb

\* The interrupt check of the CPU.
LEMMA Interrumpido ==
    ASSUME NEW p, NEW pcb, BuenPcb(pcb, p)
    PROVE  LET n == [pcb EXCEPT !.interrupcion = TRUE] IN BuenPcb(n, p) /\ Quieto(n, pcb)
BY DEF BuenPcb, Quieto, Igual, CamposPcb

\* An access out of its segment (decode).
LEMMA ConSegmentationFault ==
    ASSUME NEW p, NEW pcb, BuenPcb(pcb, p)
    PROVE  LET n == [pcb EXCEPT !.segmentation_fault = TRUE] IN
           BuenPcb(n, p) /\ Igual(n, pcb) /\ n.segmentation_fault = TRUE
BY DEF BuenPcb, Quieto, Igual, CamposPcb

\* A page that is not in memory (decode).
LEMMA ConPageFault ==
    ASSUME NEW p, NEW pcb, BuenPcb(pcb, p), NEW x, NEW y
    PROVE  LET n == [pcb EXCEPT !.page_fault = TRUE, !.pagina_fault = <<x, y>>] IN
           BuenPcb(n, p) /\ Igual(n, pcb) /\ n.page_fault = TRUE
BY DEF BuenPcb, Quieto, Igual, CamposPcb

\* crear_tabla_segmentos.
LEMMA ConSegmentos ==
    ASSUME NEW p, NEW pcb, BuenPcb(pcb, p), NEW t, EsLista(t),
           \A i \in DOMAIN t : EsSegmento(t[i])
    PROVE  LET n == [pcb EXCEPT !.tabla_de_segmentos = t] IN BuenPcb(n, p) /\ Quieto(n, pcb)
BY DEF BuenPcb, Quieto, Igual, CamposPcb

\* A register takes a value that fits it (set_valor_en_registro).
LEMMA ConRegistro ==
    ASSUME NEW p, NEW pcb, BuenPcb(pcb, p), NEW r \in NombresRegistros,
           NEW v \in 0..(Modulo - 1)
    PROVE  LET n == [pcb EXCEPT !.registros[r] = v] IN BuenPcb(n, p) /\ Quieto(n, pcb)
BY DEF BuenPcb, Quieto, Igual, CamposPcb

\* The counter goes on, while there are instructions.
LEMMA Avanza ==
    ASSUME NEW p, NEW pcb, BuenPcb(pcb, p), pcb.program_counter < Len(pcb.instrucciones)
    PROVE  LET n == [pcb EXCEPT !.program_counter = @ + 1] IN
           /\ BuenPcb(n, p) /\ Igual(n, pcb) /\ n.program_counter = pcb.program_counter + 1
           /\ n.segmentation_fault = pcb.segmentation_fault /\ n.page_fault = pcb.page_fault
<1>1. pcb.program_counter + 1 \in 0..Len(pcb.instrucciones)
  BY DeLista DEF BuenPcb, EsPrograma
<1> DEFINE m == pcb.program_counter + 1
           n == [pcb EXCEPT !.program_counter = m]
<1> HIDE DEF m
<1>2. BuenPcb(n, p) /\ Igual(n, pcb) /\ n.program_counter = m
      /\ n.segmentation_fault = pcb.segmentation_fault /\ n.page_fault = pcb.page_fault
  BY <1>1 DEF BuenPcb, Igual, CamposPcb, m
<1> QED BY <1>2 DEF m

\* What is read of the bytes of a PCB is that PCB, but for tamanio_segmentos (recibir_pcb).
LEMMA ViajaEntero ==
    ASSUME NEW p, NEW pcb, BuenPcb(pcb, p)
    PROVE  deserializar_pcb(empaquetar_pcb(pcb)) =
             [valor |-> [pcb EXCEPT !.tamanio_segmentos = Nulo,
                                    !.pagina_fault = IF @ = Nulo THEN <<-1, -1>> ELSE @],
              d |-> Len(empaquetar_pcb(pcb))]
<1> DEFINE pag == IF pcb.pagina_fault = Nulo THEN <<-1, -1>> ELSE pcb.pagina_fault
           v == [pcb EXCEPT !.tamanio_segmentos = Nulo, !.pagina_fault = pag]
<1>1. DOMAIN pcb = CamposPcb /\ pcb = [x \in CamposPcb |-> pcb[x]]
  BY DEF BuenPcb
<1>2. Viajado(pcb) = [Viajado(pcb) EXCEPT !.pid = pcb.pid] /\ DOMAIN Viajado(pcb) = CamposPcb
  BY DEF Viajado, CamposPcb
<1>3. v = [x \in CamposPcb |-> IF x = "pagina_fault" THEN pag
                               ELSE IF x = "tamanio_segmentos" THEN Nulo ELSE pcb[x]]
  <2> HIDE DEF pag
  <2> QED BY <1>1 DEF CamposPcb
<1>4. Viajado(pcb) = [x \in CamposPcb |-> IF x = "pagina_fault" THEN pag
                               ELSE IF x = "tamanio_segmentos" THEN Nulo ELSE pcb[x]]
  <2>1. Viajado(pcb).pagina_fault = pag
    BY DEF Viajado
  <2> HIDE DEF pag
  <2> QED BY <2>1 DEF Viajado, CamposPcb
<1>5. v = Viajado(pcb)
  BY <1>3, <1>4
<1>6. v = [pcb EXCEPT !.tamanio_segmentos = Nulo,
                      !.pagina_fault = IF @ = Nulo THEN <<-1, -1>> ELSE @]
  OBVIOUS
<1> HIDE DEF v
<1> QED BY <1>5, <1>6, PcbEs, PcbEntero

\* set_valor_registro, with the name of any register or of none.
LEMMA Asigna ==
    ASSUME NEW p, NEW pcb, BuenPcb(pcb, p), NEW r, NEW v \in Int
    PROVE  LET n == set_valor_en_registro(pcb, r, v) IN BuenPcb(n, p) /\ Quieto(n, pcb)
<1>1. DOMAIN pcb.registros = NombresRegistros
  BY DEF BuenPcb
<1>2. SinSigno(v) \in 0..(Modulo - 1)
  BY NumeroTexto
<1>3. CASE r \in NombresRegistros
  BY <1>1, <1>2, <1>3, ConRegistro DEF set_valor_en_registro
<1>4. CASE r \notin NombresRegistros
  <2>1. set_valor_en_registro(pcb, r, v) = pcb
    BY <1>1, <1>4 DEF set_valor_en_registro
  <2> QED BY <2>1 DEF Quieto, Igual
<1> QED BY <1>3, <1>4

\* decode changes nothing of a PCB but its faults, and fails only with one of them.
LEMMA Decodifica ==
    ASSUME NEW p, NEW pcb, BuenPcb(pcb, p), NEW i, NEW mem, NEW t
    PROVE  LET d == decode(pcb, i, mem, t) IN
           /\ BuenPcb(d.pcb, p) /\ Igual(d.pcb, pcb) /\ d.error \in BOOLEAN
           /\ d.error => d.pcb.page_fault \/ d.pcb.segmentation_fault
           /\ ~d.error => d.pcb = pcb
<1> DEFINE tam_max  == TamMaxSegmento(pagina_config.cantidad_entradas, pagina_config.tamanio_pagina)
           dir      == obtener_dir_logica(i)
           segmento == pcb.tabla_de_segmentos[obtener_nro_segmento(dir, tam_max) + 1]
           x == segmento.indice_tabla_paginas
           y == obtener_nro_pagina(dir, tam_max, pagina_config.tamanio_pagina)
           pedido == PedirMarco(mem, t, pcb.pid, <<segmento.nro_segmento, y>>, <<x, y>>)
           d == decode(pcb, i, mem, t)
           sf == [pcb EXCEPT !.segmentation_fault = TRUE]
           pf == [pcb EXCEPT !.page_fault = TRUE, !.pagina_fault = <<x, y>>]
<1> DEFINE fis == DireccionFisica(pedido.marco, pagina_config.tamanio_pagina,
                    obtener_desplazamiento_pagina(dir, tam_max, pagina_config.tamanio_pagina))
<1>1. d = IF ~EsAcceso(i)
          THEN [pcb |-> pcb, tlb |-> t, pagina |-> Nulo, error |-> FALSE]
          ELSE IF obtener_desplazamiento_segmento(dir, tam_max) >= segmento.tamanio_segmento
          THEN [pcb |-> sf, tlb |-> t, pagina |-> <<x, y>>, error |-> TRUE]
          ELSE IF pedido.marco = NoEsta
          THEN [pcb |-> pf, tlb |-> t, pagina |-> <<x, y>>, error |-> TRUE]
          ELSE [pcb |-> pcb, tlb |-> pedido.tlb, pagina |-> <<x, y>>, error |-> FALSE,
                direccion_fisica |-> fis]
  BY Zenon DEF decode
<1>2. BuenPcb(sf, p) /\ Igual(sf, pcb) /\ sf.segmentation_fault = TRUE
  BY ConSegmentationFault
<1>3. BuenPcb(pf, p) /\ Igual(pf, pcb) /\ pf.page_fault = TRUE
  BY ConPageFault
<1>4. Igual(pcb, pcb)
  BY DEF Igual
<1> DEFINE a == obtener_desplazamiento_segmento(dir, tam_max) >= segmento.tamanio_segmento
           b == pedido.marco = NoEsta
<1> HIDE DEF d, sf, pf, a, b, x, y, pedido, fis
<1>5. \/ d.pcb = pcb /\ d.error = FALSE
      \/ d.pcb = sf /\ d.error = TRUE
      \/ d.pcb = pf /\ d.error = TRUE
  BY <1>1
<1> QED BY <1>2, <1>3, <1>4, <1>5 DEF d

---------------------------------------------------------------------------
(* The memory keeps its form *)

\* EXCEPT on a list is a list.
LEMMA ListaCambiada ==
    ASSUME NEW s, EsLista(s), NEW n, NEW x PROVE EsLista([s EXCEPT ![n] = x])
<1> DEFINE S == {s[i] : i \in 1..Len(s)} \cup {x}
           t == [s EXCEPT ![n] = x]
<1>1. Len(s) \in Nat /\ s \in [1..Len(s) -> S]
  BY DEF EsLista
<1>2. t \in [1..Len(s) -> S]
  BY <1>1
<1>3. t \in Seq(S)
  <2> HIDE DEF t, S
  <2> QED BY <1>1, <1>2
<1> QED BY <1>3, ListaEsFlujo DEF EsFlujo

\* EXCEPT on a memory is a memory.
LEMMA MemoriaCambiada ==
    ASSUME NEW mem, EsMemoria(mem), NEW ts, EsLista(ts), NEW x
    PROVE  /\ EsMemoria([mem EXCEPT !.tablas = ts])
           /\ EsMemoria([mem EXCEPT !.marcos = x])
           /\ EsMemoria([mem EXCEPT !.espacio = x])
BY DEF EsMemoria, CamposMemoria

\* An entry of a table changes, and the tables are as many.
LEMMA EntradaCambiada ==
    ASSUME NEW mem, EsMemoria(mem), NEW pagina, NEW e
    PROVE  EsMemoria(ConEntrada(mem, pagina, e))
<1> DEFINE k == pagina[1] + 1
           tab == [mem.tablas[k] EXCEPT !.entradas[pagina[2]] = e]
           ts == [mem.tablas EXCEPT ![k] = tab]
<1>1. ConEntrada(mem, pagina, e) = [mem EXCEPT !.tablas = ts]
  BY DEF ConEntrada, EsMemoria, CamposMemoria
<1>2. EsLista(ts)
  <2> HIDE DEF tab, k
  <2> QED BY ListaCambiada DEF EsMemoria
<1>3. EsMemoria([mem EXCEPT !.tablas = ts])
  <2> HIDE DEF ts
  <2> QED BY <1>2, MemoriaCambiada
<1> QED BY <1>1, <1>3, Zenon

\* atender_pedido_de_escritura.
LEMMA EscrituraForma ==
    ASSUME NEW mem, EsMemoria(mem), NEW flujo
    PROVE  EsMemoria(AtenderPedidoDeEscritura(mem, flujo).mem)
<1> DEFINE k == LeerEntero(TrasPaquete(flujo), 0)
           v == LeerEntero(TrasPaquete(flujo), AnchoInt)
           pagina == deserializar_pagina(Buffer(flujo), 0)
           m == [mem EXCEPT !.espacio[k] = v]
           x == [mem.espacio EXCEPT ![k] = v]
           e == [Entrada(mem, pagina) EXCEPT !.modificado = TRUE]
<1>1. AtenderPedidoDeEscritura(mem, flujo).mem = ConEntrada(m, pagina, e)
  BY DEF AtenderPedidoDeEscritura
<1>2. m = [mem EXCEPT !.espacio = x]
  <2> HIDE DEF k, v
  <2> QED BY DEF EsMemoria, CamposMemoria
<1>3. EsMemoria([mem EXCEPT !.espacio = x])
  <2> HIDE DEF x
  <2>1. EsLista(mem.tablas)
    BY DEF EsMemoria
  <2> QED BY <2>1, MemoriaCambiada
<1>4. EsMemoria(m)
  BY <1>2, <1>3
<1> HIDE DEF m, pagina, e
<1> QED BY <1>1, <1>4, EntradaCambiada

\* ejecutar_instruccion changes the registers, and no other field of the PCB.
LEMMA Ejecuta ==
    ASSUME NEW p, NEW pcb, BuenPcb(pcb, p), NEW i, NEW mem, EsMemoria(mem), NEW d
    PROVE  LET e == ejecutar_instruccion(pcb, i, mem, d) IN
           BuenPcb(e.pcb, p) /\ Quieto(e.pcb, pcb) /\ EsMemoria(e.mem)
<1> DEFINE e == ejecutar_instruccion(pcb, i, mem, d)
           a == set_valor_registro(pcb, i.parametro1, i.parametro2)
           b == ejecutar_add(pcb, i.parametro1, i.parametro2)
           c == ejecutar_mov_in(pcb, i.parametro1, mem, d)
           o == ejecutar_mov_out(pcb, i.parametro2, mem, d)
           Bien(n) == BuenPcb(n, p) /\ Quieto(n, pcb)
<1>1. Bien(pcb)
  BY DEF Quieto, Igual
<1>2. ASSUME NEW r, NEW texto PROVE Bien(set_valor_registro(pcb, r, texto))
  BY NumeroTexto, Asigna DEF set_valor_registro
<1>3. Bien(a)
  BY <1>2
<1>4. Bien(b)
  BY <1>2 DEF ejecutar_add
<1>5. Bien(c)
  <2> DEFINE r == AtenderPedidoDeLectura(mem,
                 Paquete("LEER", empaquetar_pagina(d.pagina)) \o Entero(d.direccion_fisica))
  <2>1. c = IF Operacion(r) = "OKI_LEER"
            THEN set_valor_en_registro(pcb, i.parametro1, Valor(Buffer(r))) ELSE pcb
    BY DEF ejecutar_mov_in
  <2> HIDE DEF r
  <2>2. Valor(Buffer(r)) \in Int
    BY NumeroTexto DEF Valor
  <2>3. Bien(set_valor_en_registro(pcb, i.parametro1, Valor(Buffer(r))))
    BY <2>2, Asigna
  <2> QED BY <1>1, <2>1, <2>3
<1>6. EsMemoria(o)
  BY EscrituraForma DEF ejecutar_mov_out
<1>7. e.mem = IF i.operacion = "MOV_OUT" THEN o ELSE mem
  BY Zenon DEF ejecutar_instruccion
<1>8. e.pcb \in {a, b, c, pcb}
  <2>1. e.pcb = CASE i.operacion = "SET"    -> a
               [] i.operacion = "ADD"    -> b
               [] i.operacion = "MOV_IN" -> c
               [] OTHER                  -> pcb
    BY Zenon DEF ejecutar_instruccion
  <2> HIDE DEF a, b, c, e
  <2> QED BY <2>1
<1> HIDE DEF e, a, b, c, o
<1>9. Bien(e.pcb)
  BY <1>1, <1>3, <1>4, <1>5, <1>8
<1> QED BY <1>6, <1>7, <1>9 DEF e

\* rajar_pagina.
LEMMA RajarForma ==
    ASSUME NEW mem, EsMemoria(mem), NEW pagina
    PROVE  EsMemoria(RajarPagina(mem, pagina))
<1> DEFINE e == Entrada(mem, pagina)
           x == [mem.marcos EXCEPT ![e.marco] = PidLibre]
           m == [mem EXCEPT !.marcos[e.marco] = PidLibre]
<1>1. PICK n : RajarPagina(mem, pagina) = ConEntrada(m, pagina, n)
  BY Zenon DEF RajarPagina
<1>2. m = [mem EXCEPT !.marcos = x]
  <2> HIDE DEF e
  <2> QED BY DEF EsMemoria, CamposMemoria
<1>3. EsMemoria([mem EXCEPT !.marcos = x])
  <2> HIDE DEF x
  <2>1. EsLista(mem.tablas)
    BY DEF EsMemoria
  <2> QED BY <2>1, MemoriaCambiada
<1>4. EsMemoria(m)
  BY <1>2, <1>3
<1> HIDE DEF m
<1> QED BY <1>1, <1>4, EntradaCambiada

\* cargar_pagina_en_memoria_principal.
LEMMA CargarForma ==
    ASSUME NEW mem, EsMemoria(mem), NEW pagina, NEW marco
    PROVE  EsMemoria(CargarPagina(mem, pagina, marco))
<1> DEFINE e == Entrada(mem, pagina)
           x == [mem.marcos EXCEPT ![marco] = PidDe(mem, pagina)]
           y == [dir \in DOMAIN mem.espacio |->
                               IF dir \div TamPagina = marco THEN e.swap[dir % TamPagina]
                               ELSE mem.espacio[dir]]
           m1 == [mem EXCEPT !.marcos = x]
           m == [m1 EXCEPT !.espacio = y]
           n == [e EXCEPT !.presencia = TRUE, !.marco = marco]
<1>1. CargarPagina(mem, pagina, marco) =
          ConEntrada([mem EXCEPT !.marcos[marco] = PidDe(mem, pagina),
                           !.espacio = [dir \in DOMAIN @ |->
                               IF dir \div TamPagina = marco THEN e.swap[dir % TamPagina]
                               ELSE @[dir]]], pagina, n)
  BY Zenon DEF CargarPagina
<1>2. [mem EXCEPT !.marcos[marco] = PidDe(mem, pagina),
                  !.espacio = [dir \in DOMAIN @ |->
                               IF dir \div TamPagina = marco THEN e.swap[dir % TamPagina]
                               ELSE @[dir]]] = m
  OBVIOUS
<1>3. EsMemoria(m1)
  <2> HIDE DEF x
  <2>1. EsLista(mem.tablas)
    BY DEF EsMemoria
  <2> QED BY <2>1, MemoriaCambiada
<1>4. EsMemoria(m)
  <2> HIDE DEF m1, y
  <2>1. EsLista(m1.tablas)
    BY <1>3 DEF EsMemoria
  <2> QED BY <1>3, <2>1, MemoriaCambiada
<1>5. EsMemoria(ConEntrada(m, pagina, n))
  <2> HIDE DEF m, n
  <2> QED BY <1>4, EntradaCambiada
<1> QED BY <1>1, <1>2, <1>5, Zenon

\* atender_pedido_de_pagina_fault, with any victim.
LEMMA PageFaultForma ==
    ASSUME NEW mem, EsMemoria(mem), NEW buffer,
           NEW m \in AtenderPedidoDePaginaFault(mem, buffer)
    PROVE  EsMemoria(m)
<1> DEFINE pagina == deserializar_pagina(buffer, 0)
           pid == PidDe(mem, pagina)
           libres == {n \in Marcos : mem.marcos[n] = PidLibre}
<1>1. \/ \E v \in Cargadas(mem, pid) :
             m = CargarPagina(RajarPagina(mem, v), pagina, Entrada(mem, v).marco)
      \/ \E n \in libres : m = CargarPagina(mem, pagina, n)
  BY DEF AtenderPedidoDePaginaFault
<1> HIDE DEF pagina, pid, libres
<1> QED BY <1>1, RajarForma, CargarForma

\* atender_liberar_estructuras, and its answer.
LEMMA LiberarForma ==
    ASSUME NEW mem, EsMemoria(mem), NEW buffer
    PROVE  LET r == AtenderLiberarEstructuras(mem, buffer) IN
           EsMemoria(r.mem) /\ Operacion(r.respuesta) = "OKI_LIBERAR_ESTRUCTURAS"
<1> DEFINE r == AtenderLiberarEstructuras(mem, buffer)
           suyos == {Entrada(mem, x).marco : x \in Cargadas(mem, Valor(buffer))}
           y == [m \in Marcos |-> IF m \in suyos THEN PidLibre ELSE mem.marcos[m]]
<1>1. r.mem = [mem EXCEPT !.marcos = y] /\ r.respuesta = Codigo("OKI_LIBERAR_ESTRUCTURAS")
  BY DEF AtenderLiberarEstructuras
<1>2. EsMemoria([mem EXCEPT !.marcos = y])
  <2> HIDE DEF y
  <2>1. EsLista(mem.tablas)
    BY DEF EsMemoria
  <2> QED BY <2>1, MemoriaCambiada
<1> HIDE DEF r, y
<1> QED BY <1>1, <1>2, CodigoSolo DEF r

\* The concatenation of sequences of a set is a sequence of that set.
LEMMA FlattenTipo ==
    ASSUME NEW S, NEW s \in Seq(Seq(S)) PROVE FlattenSeq(s) \in Seq(S)
<1>1. CASE Len(s) = 0
  <2>1. FlattenSeq(s) = s /\ s = <<>>
    BY <1>1 DEF FlattenSeq
  <2> QED BY <2>1
<1>2. CASE Len(s) # 0
  <2>1. PICK f : Aplanada(s, f) /\ FlattenSeq(s) = f[Len(s)]
    BY <1>2, FlattenSeqEs
  <2> DEFINE T == {n \in Nat : n + 1 <= Len(s) => f[n + 1] \in Seq(S)}
  <2>2. 0 \in T
    <3>1. 1 \in 1..Len(s) => f[1] = s[1]
      BY <2>1 DEF Aplanada
    <3> QED BY <3>1
  <2>3. ASSUME NEW n \in Nat, n \in T PROVE n + 1 \in T
    <3>1. SUFFICES ASSUME (n + 1) + 1 <= Len(s) PROVE f[(n + 1) + 1] \in Seq(S)
      OBVIOUS
    <3> DEFINE k == (n + 1) + 1
    <3>2. k \in 1..Len(s) /\ k # 1 /\ k - 1 = n + 1 /\ n + 1 <= Len(s)
      BY <3>1
    <3>3. f[k] = f[k - 1] \o s[k]
      BY <2>1, <3>2 DEF Aplanada
    <3>4. f[k - 1] \in Seq(S) /\ s[k] \in Seq(S)
      BY <2>3, <3>2
    <3> QED BY <3>3, <3>4
  <2>4. \A n \in Nat : n \in T
    <3> HIDE DEF T
    <3> QED BY <2>2, <2>3, Induccion
  <2>5. Len(s) - 1 \in Nat /\ (Len(s) - 1) + 1 = Len(s)
    BY <1>2
  <2> QED BY <2>1, <2>4, <2>5
<1> QED BY <1>1, <1>2

\* atender_pedido_de_estructuras, and the segments the kernel makes of its answer.
LEMMA CreacionForma ==
    ASSUME NEW mem, EsMemoria(mem), NEW pid, NEW L, EsLista(L),
           \A i \in DOMAIN L : EsTexto(L[i])
    PROVE  LET r == AtenderPedidoDeEstructuras(mem, Buffer(Paquete("ESTRUCTURAS",
                        empaquetar_pcb_memoria([pid |-> pid, segmentos |-> L]))))
               indices == deserializar_strings(Buffer(r.respuesta), 0).valor
               t == crear_tabla_segmentos(indices, L)
           IN EsMemoria(r.mem) /\ EsLista(t) /\ \A i \in DOMAIN t : EsSegmento(t[i])
<1> DEFINE pp == [pid |-> pid, segmentos |-> L]
           b == empaquetar_pcb_memoria(pp)
           buffer == Buffer(Paquete("ESTRUCTURAS", b))
           r == AtenderPedidoDeEstructuras(mem, buffer)
           indices == deserializar_strings(Buffer(r.respuesta), 0).valor
           t == crear_tabla_segmentos(indices, L)
<1>0. EsFlujo(L)
  BY ListaEsFlujo
<1>1. EsFlujo(b) /\ recibir_pcb_memoria(b) = pp
  BY <1>0, PedidoDeEstructurasEntero
<1>2. buffer = b
  <2> HIDE DEF b
  <2> QED BY <1>1, PaqueteSolo
<1>3. recibir_pcb_memoria(buffer) = pp /\ pp.pid = pid /\ pp.segmentos = L
  BY <1>1, <1>2
<1> DEFINE nueva(i) == [pid |-> pid, entradas |-> [x \in 0..(EntradasPorTabla - 1) |->
                                       EntradaNueva(<<Len(mem.tablas) + i - 1, x>>)]]
           nuevas == [i \in DOMAIN L |-> nueva(i)]
           tablas == mem.tablas \o nuevas
           uno == [i \in DOMAIN tablas |-> IF tablas[i].pid = pid THEN <<i>> ELSE <<>>]
           propias == FlattenSeq(uno)
           textos == [i \in DOMAIN propias |-> string_itoa(propias[i] - 1)]
<1> HIDE DEF buffer
<1>4. r.mem = [mem EXCEPT !.tablas = tablas]
      /\ r.respuesta = Paquete("OKI_ESTRUCTURAS", empaquetar_strings(textos))
  <2>1. recibir_pcb_memoria(buffer).pid = pid /\ recibir_pcb_memoria(buffer).segmentos = L
    BY <1>3
  <2> QED BY <2>1, Zenon DEF AtenderPedidoDeEstructuras
<1> HIDE DEF r
<1>5. EsFlujo(tablas)
  <2>1. EsFlujo(mem.tablas)
    BY ListaEsFlujo DEF EsMemoria
  <2>2. EsFlujo(nuevas)
    <3>1. DOMAIN L = 1..Len(L) /\ Len(L) \in Nat
      BY DeLista
    <3> DEFINE Z == {nueva(i) : i \in DOMAIN L}
    <3>2. nuevas \in [1..Len(L) -> Z]
      <4> HIDE DEF nueva
      <4> QED BY <3>1
    <3>3. nuevas \in Seq(Z)
      <4> HIDE DEF nuevas, Z
      <4> QED BY <3>1, <3>2
    <3> QED BY <3>3 DEF EsFlujo
  <2> HIDE DEF nuevas
  <2> QED BY <2>1, <2>2, Concatenado
<1> HIDE DEF tablas
<1>6. EsLista(tablas) /\ Len(tablas) \in Nat /\ DOMAIN tablas = 1..Len(tablas)
  BY <1>5, ListaEsFlujo, DeLista
<1>7. EsMemoria(r.mem)
  <2>1. EsMemoria([mem EXCEPT !.tablas = tablas])
    BY <1>6, MemoriaCambiada
  <2> QED BY <1>4, <2>1
<1>8. propias \in Seq(Int)
  <2>1. uno \in [1..Len(tablas) -> Seq(Int)]
    BY <1>6
  <2>2. uno \in Seq(Seq(Int))
    <3> HIDE DEF uno
    <3> QED BY <1>6, <2>1
  <2> HIDE DEF uno
  <2> QED BY <2>2, FlattenTipo
<1> HIDE DEF propias
<1>9. EsFlujo(textos) /\ \A i \in DOMAIN textos : EsTexto(textos[i])
  <2>1. DOMAIN propias = 1..Len(propias) /\ Len(propias) \in Nat
        /\ \A i \in DOMAIN propias : propias[i] - 1 \in Int
    BY <1>8
  <2>2. \A i \in DOMAIN propias : EsTexto(string_itoa(propias[i] - 1))
    BY <2>1, NumeroTexto
  <2>3. textos \in [1..Len(propias) -> {string_itoa(propias[i] - 1) : i \in DOMAIN propias}]
    BY <2>1
  <2> DEFINE Z == {string_itoa(propias[i] - 1) : i \in DOMAIN propias}
  <2>4. textos \in Seq(Z)
    <3> HIDE DEF Z, textos
    <3>1. textos \in [1..Len(propias) -> Z] /\ Len(propias) \in Nat
      BY ONLY <2>1, <2>3 DEF Z
    <3> QED BY ONLY <3>1
  <2> QED BY <2>1, <2>2, <2>4 DEF EsFlujo
<1> HIDE DEF textos
<1>10. indices = textos
  <2> DEFINE e == empaquetar_strings(textos)
  <2>1. EsFlujo(e) /\ deserializar_strings(e, 0).valor = textos
    BY <1>9, ListasFlujo, TextosEnteros
  <2>2. Buffer(r.respuesta) = e
    <3> HIDE DEF e
    <3> QED BY <1>4, <2>1, PaqueteSolo DEF e
  <2> QED BY <2>1, <2>2
<1> HIDE DEF indices
<1>11. EsLista(indices) /\ DOMAIN indices = 1..Len(indices) /\ Len(indices) \in Nat
  BY <1>9, <1>10, ListaEsFlujo, DeLista
<1> DEFINE seg(i) == [nro_segmento |-> i - 1, indice_tabla_paginas |-> atoi(indices[i]),
                      tamanio_segmento |-> atoi(L[i])]
<1>12. t = [i \in DOMAIN indices |-> seg(i)]
  BY DEF crear_tabla_segmentos
<1>13. \A i : EsSegmento(seg(i))
  BY DEF EsSegmento
<1> HIDE DEF t, seg
<1>14. EsFlujo(t) /\ \A i \in DOMAIN t : EsSegmento(t[i])
  <2>1. t \in [1..Len(indices) -> {seg(i) : i \in DOMAIN indices}]
    BY <1>11, <1>12
  <2>2. t \in Seq({seg(i) : i \in DOMAIN indices})
    BY <1>11, <2>1
  <2> QED BY <1>12, <1>13, <2>2 DEF EsFlujo
<1>15. EsMemoria(r.mem) /\ EsLista(t) /\ \A i \in DOMAIN t : EsSegmento(t[i])
  BY <1>7, <1>14, ListaEsFlujo
<1> QED BY <1>15, Zenon DEF r, t, indices, buffer

-----------------------------------------------------------------------------
(* Where a process is, and what is said to its console *)

\* No console has two processes, so there are as many pids as it takes.
LEMMA PidsAlcanzan ==
    ASSUME Tipos
    PROVE  /\ pid_actual \in {0} \cup Pids /\ 1..pid_actual \subseteq Pids
           /\ DOMAIN pcbs \subseteq Pids /\ DOMAIN consolaDe = 1..pid_actual
           /\ \A p \in 1..pid_actual : consolaDe[p] \in Consolas
           /\ \A p, q \in 1..pid_actual : consolaDe[p] = consolaDe[q] => p = q
<1>1. /\ DOMAIN consolaDe = 1..pid_actual /\ pid_actual \in Nat
      /\ consolaDe \in [1..pid_actual -> Consolas]
      /\ \A p, q \in 1..pid_actual : consolaDe[p] = consolaDe[q] => p = q
  <2>1. consolaDe \in Seq(Consolas) /\ Len(consolaDe) = pid_actual /\ SinRepetir(consolaDe)
        /\ pid_actual \in Nat
    BY DEF Tipos
  <2>2. DOMAIN consolaDe = 1..pid_actual /\ consolaDe \in [1..pid_actual -> Consolas]
    BY <2>1
  <2> QED BY <2>1, <2>2 DEF SinRepetir
<1>2. IsFiniteSet(Consolas) /\ Cardinality(Consolas) \in Nat
  BY EjecucionAssumption, FS_CardinalityType
<1>3. consolaDe \in Injection(1..pid_actual, Consolas)
  BY <1>1 DEF Injection, IsInjective
<1>4. Cardinality(1..pid_actual) <= Cardinality(Consolas)
  BY <1>2, <1>3, FS_Injection
<1>5. Cardinality(1..pid_actual) = pid_actual
  BY <1>1, FS_Interval
<1>6. pid_actual <= Cardinality(Consolas)
  BY <1>4, <1>5
<1>7. DOMAIN pcbs \subseteq 1..pid_actual
  BY DEF Tipos
<1> QED BY <1>1, <1>2, <1>6, <1>7 DEF Pids

\* Where a process is, in terms of the variables.
LEMMA DelCpu ==
    ASSUME Tipos, EnCpuBien
    PROVE  /\ cpu = Libre => \A p : ~EnCpuEsta(p) /\ (Vive(p) <=> p \in DOMAIN pcbs)
           /\ cpu # Libre => /\ \A p : Vive(p) <=> p \in DOMAIN pcbs \/ p = cpu.pcb.pid
                             /\ PcbDe(cpu.pcb.pid) = cpu.pcb
           /\ \A p \in DOMAIN pcbs : PcbDe(p) = pcbs[p] /\ ~EnCpuEsta(p)
BY DEF EnCpuBien, Vive, EnCpuEsta, PcbDe

\* A process that lives has a PCB of its own, with the descriptor of a console.
LEMMA Vivos ==
    ASSUME Tipos, Pcbs, NEW p, Vive(p)
    PROVE  BuenPcb(PcbDe(p), p) /\ p \in 1..pid_actual /\ Socket(p) \in Descriptores
<1>1. EnCpuBien /\ \A q \in DOMAIN pcbs : BuenPcb(pcbs[q], q)
  BY DEF Pcbs
<1>2. DOMAIN pcbs \subseteq 1..pid_actual
  BY DEF Tipos
<1>3. BuenPcb(PcbDe(p), p) /\ p \in 1..pid_actual
  BY <1>1, <1>2 DEF EnCpuBien, Vive, EnCpuEsta, PcbDe
<1> QED BY <1>3 DEF BuenPcb, Socket

\* A console has one process, or none.
LEMMA ProcesosDe ==
    ASSUME Tipos, NEW c \in Consolas
    PROVE  /\ \A p \in 1..pid_actual : consolaDe[p] = c => Procesos(c) = {p}
           /\ c \in Elems(consolaDe) <=> \E p \in 1..pid_actual : consolaDe[p] = c
           /\ c \notin Elems(consolaDe) <=> Procesos(c) = {}
BY PidsAlcanzan DEF Procesos, Elems

\* A step that leaves the kernel's queues, the CPU and the memory alone.
LEMMA KernelQuieto ==
    ASSUME Tipos, Colas, EnUnLugar, Pcbs, GradoExacto, UNCHANGED <<deKernel, cpu, memoria, consolaDe>>
    PROVE  /\ Colas' /\ EnUnLugar' /\ Pcbs' /\ GradoExacto'
           /\ \A p : (Vive(p) <=> Vive(p)') /\ Socket(p)' = Socket(p) /\ (Acabo(p)' <=> Acabo(p))
<1>1. /\ pid_actual' = pid_actual /\ pcbs' = pcbs /\ cola_new' = cola_new
      /\ cola_ready' = cola_ready /\ cola_dispositivo' = cola_dispositivo
      /\ cola_exit' = cola_exit /\ multiprogramacion' = multiprogramacion /\ hilo' = hilo
      /\ cpu' = cpu /\ consolaDe' = consolaDe
  BY DEF deKernel, colas
<1>2. Colas'
  BY <1>1 DEF Colas, Elems, SinRepetir
<1>3. EnUnLugar'
  BY <1>1 DEF EnUnLugar, Elems, Bloqueados
<1>4. Pcbs'
  BY <1>1 DEF Pcbs, Elems, EnCpuBien
<1>5. \A p : (Vive(p) <=> Vive(p)') /\ (Admitido(p) <=> Admitido(p)')
  BY <1>1 DEF Vive, EnCpuEsta, Admitido
<1>6. GradoExacto'
  <2>1. {p \in 1..pid_actual : Admitido(p)} = {p \in 1..pid_actual' : Admitido(p)'}
    BY <1>1, <1>5
  <2> QED BY <1>1, <2>1 DEF GradoExacto
<1>7. \A p : Socket(p)' = Socket(p) /\ (Acabo(p)' <=> Acabo(p))
  BY <1>1, <1>5 DEF Socket, PcbDe, EnCpuEsta, Acabo, Elems
<1> QED BY <1>2, <1>3, <1>4, <1>5, <1>6, <1>7

\* What is said to some consoles changes nothing of the others.
LEMMA DichoA ==
    ASSUME Tipos, Mensajes, UNCHANGED <<pid_actual, consolaDe>>, NEW C \in SUBSET Consolas,
           \A d \in Consolas \ C : consola'[d] = consola[d] /\ haciaKernel'[d] = haciaKernel[d]
                                     /\ haciaConsola'[d] = haciaConsola[d],
           \A p \in 1..pid_actual : consolaDe[p] \notin C =>
                /\ (Acabo(p)' <=> Acabo(p))
                /\ ~Acabo(p) => /\ (hilo'[p] = "contestar" <=> hilo[p] = "contestar")
                                /\ hilo[p] = "contestar" => pcbs'[p] = pcbs[p],
           \A c \in C : c \notin Elems(consolaDe) => SinProceso(c)',
           \A p \in 1..pid_actual : consolaDe[p] \in C => Trato(p)'
    PROVE  Mensajes'
<1>0. Elems(consolaDe)' = Elems(consolaDe)
  BY DEF Elems
<1>1. ASSUME NEW d \in Consolas, d \notin Elems(consolaDe)' PROVE SinProceso(d)'
  <2>1. CASE d \in C
    BY <1>0, <1>1, <2>1
  <2>2. CASE d \notin C
    <3>1. SinProceso(d)
      BY <1>0, <1>1 DEF Mensajes
    <3> QED BY <2>2, <3>1 DEF SinProceso, Programa
  <2> QED BY <2>1, <2>2
<1>2. ASSUME NEW p \in 1..pid_actual PROVE Trato(p)'
  <2>1. CASE consolaDe[p] \in C
    BY <2>1
  <2>2. CASE consolaDe[p] \notin C
    <3> DEFINE d == consolaDe[p]
    <3>1. d \in Consolas \ C /\ d = consolaDe'[p]
      BY <2>2, PidsAlcanzan
    <3>2. Trato(p)
      BY DEF Mensajes
    <3>3. consola'[d] = consola[d] /\ haciaKernel'[d] = haciaKernel[d]
          /\ haciaConsola'[d] = haciaConsola[d] /\ consolaDe'[p] = d
      BY <3>1
    <3>4. CASE Acabo(p)
      <4>1. Acabo(p)' /\ Despedida(d)
        BY <2>2, <3>2, <3>4 DEF Trato
      <4> QED BY <3>3, <4>1 DEF Trato, Despedida
    <3>5. CASE ~Acabo(p) /\ hilo[p] = "contestar"
      <4>1. /\ ~(Acabo(p)') /\ hilo'[p] = "contestar" /\ pcbs'[p] = pcbs[p]
            /\ EnDialogo(d, obtener_ultima_instruccion(pcbs[p]).parametro1)
        BY <2>2, <3>2, <3>5 DEF Trato
      <4> QED BY <3>3, <4>1 DEF Trato, EnDialogo
    <3>6. CASE ~Acabo(p) /\ hilo[p] # "contestar"
      <4>1. ~(Acabo(p)') /\ hilo'[p] # "contestar" /\ EnSilencio(d)
        BY <2>2, <3>2, <3>6 DEF Trato
      <4> QED BY <3>3, <4>1 DEF Trato, EnSilencio
    <3> QED BY <3>4, <3>5, <3>6
  <2> QED BY <2>1, <2>2
<1> QED BY <1>0, <1>1, <1>2 DEF Mensajes

\* The same for one console.
LEMMA DichoAUno ==
    ASSUME Tipos, Mensajes, UNCHANGED <<pid_actual, consolaDe>>, NEW c \in Consolas,
           \A d \in Consolas \ {c} : consola'[d] = consola[d] /\ haciaKernel'[d] = haciaKernel[d]
                                     /\ haciaConsola'[d] = haciaConsola[d],
           \A p \in 1..pid_actual : consolaDe[p] # c =>
                /\ (Acabo(p)' <=> Acabo(p))
                /\ ~Acabo(p) => /\ (hilo'[p] = "contestar" <=> hilo[p] = "contestar")
                                /\ hilo[p] = "contestar" => pcbs'[p] = pcbs[p],
           c \notin Elems(consolaDe) => SinProceso(c)',
           \A p \in 1..pid_actual : consolaDe[p] = c => Trato(p)'
    PROVE  Mensajes'
<1> DEFINE C == {c}
<1>1. C \in SUBSET Consolas
  OBVIOUS
<1>2. \A d : d \in C <=> d = c
  OBVIOUS
<1> HIDE DEF C
<1> QED BY <1>1, <1>2, DichoA

-----------------------------------------------------------------------------
(* The consoles *)

\* Who waits to be accepted is a console.
LEMMA PendientesDe == ASSUME Tipos PROVE Elems(pendientes) \subseteq Consolas
<1>1. pendientes \in Seq(Consolas)
  BY DEF Tipos
<1> QED BY <1>1 DEF Elems

\* The connections when no descriptor changes and no console that died comes back.
LEMMA ConexionesQuietas ==
    ASSUME Tipos, Pcbs, Conexiones, UNCHANGED <<pid_actual, consolaDe, conexiones>>,
           \A p \in 1..pid_actual : Vive(p)' => Vive(p) /\ Socket(p)' = Socket(p),
           \A d \in Consolas :
              /\ consola[d] = "muerta" => consola'[d] = "muerta" /\ haciaKernel'[d] = haciaKernel[d]
              /\ consola[d] # "sin iniciar" => consola'[d] # "sin iniciar"
    PROVE  Conexiones'
<1>1. /\ pid_actual' = pid_actual /\ consolaDe' = consolaDe /\ pendientes' = pendientes
      /\ fds' = fds /\ aceptado' = aceptado
  BY DEF conexiones
<1>2. Elems(consolaDe)' = Elems(consolaDe)
  BY <1>1 DEF Elems
<1>3. ASSUME NEW p \in 1..pid_actual', Vive(p)' PROVE Conectado(p)'
  <2>1. Conectado(p) /\ Socket(p)' = Socket(p) /\ consolaDe[p] \in Consolas
    BY <1>1, <1>3, PidsAlcanzan DEF Conexiones, Conectados
  <2> QED BY <1>1, <2>1 DEF Conectado
<1>4. Elems(pendientes)' = Elems(pendientes) /\ Elems(pendientes) \subseteq Consolas
  BY <1>1, PendientesDe DEF Elems
<1>5. AceptadoSinProceso'
  BY <1>1, <1>2, <1>4 DEF Conexiones, AceptadoSinProceso
<1>6. PendientesSinProceso'
  BY <1>1, <1>2, <1>4 DEF Conexiones, PendientesSinProceso
<1> QED BY <1>1, <1>3, <1>5, <1>6 DEF Conexiones, Conectados

\* A console whose program was not received is not talking to a thread of the kernel.
LEMMA SinNadie ==
    ASSUME Tipos, Mensajes, NEW c \in Consolas
    PROVE  /\ consola[c] \in {"sin iniciar", "conectada"} => c \notin Elems(consolaDe)
           /\ c \notin Elems(consolaDe) => SinProceso(c)
<1>1. ASSUME consola[c] \in {"sin iniciar", "conectada"}, c \in Elems(consolaDe) PROVE FALSE
  <2>1. PICK p \in 1..pid_actual : consolaDe[p] = c
    BY <1>1, ProcesosDe
  <2>2. Trato(p)
    BY DEF Mensajes
  <2> QED BY <1>1, <2>1, <2>2 DEF Trato, Despedida, EnDialogo, EnSilencio
<1> QED BY <1>1 DEF Mensajes

\* Conectar keeps InvE.
LEMMA AlConectar == ASSUME InvE, NEW c \in Consolas, Conectar(c) PROVE InvE'
<1>1. Tipos /\ Colas /\ EnUnLugar /\ Pcbs /\ Conexiones /\ Mensajes /\ GradoExacto
  BY DEF InvE
<1>2. /\ consola[c] = "sin iniciar" /\ consola' = [consola EXCEPT ![c] = "conectada"]
      /\ pendientes' = Append(pendientes, c) /\ haciaKernel' = haciaKernel
      /\ haciaConsola' = haciaConsola /\ fds' = fds /\ aceptado' = aceptado
      /\ UNCHANGED <<deKernel, cpu, memoria, consolaDe>>
      /\ pid_actual' = pid_actual /\ pcbs' = pcbs /\ hilo' = hilo /\ consolaDe' = consolaDe
      /\ memoria' = memoria /\ multiprogramacion' = multiprogramacion
  BY DEF Conectar, deKernel, historia
<1>3. /\ Colas' /\ EnUnLugar' /\ Pcbs' /\ GradoExacto'
      /\ \A p : (Vive(p) <=> Vive(p)') /\ Socket(p)' = Socket(p) /\ (Acabo(p)' <=> Acabo(p))
      /\ Elems(consolaDe)' = Elems(consolaDe) /\ Elems(consolaDe') = Elems(consolaDe)
  BY <1>1, <1>2, KernelQuieto DEF Elems
<1>4. consola \in [Consolas -> Formas] /\ consola' \in [Consolas -> Formas]
  BY <1>1, <1>2 DEF Tipos, Formas
<1>5. c \notin Elems(consolaDe) /\ SinProceso(c)
  BY <1>1, <1>2, SinNadie
<1>6. c \notin Elems(pendientes)
  BY <1>1, <1>2 DEF Conexiones, PendientesSinProceso
<1>7. /\ pendientes' \in Seq(Consolas) /\ SinRepetir(pendientes')
      /\ Elems(pendientes') = Elems(pendientes) \cup {c}
  <2>1. pendientes \in Seq(Consolas) /\ SinRepetir(pendientes)
    BY <1>1 DEF Tipos
  <2>2. Append(pendientes, c) \in Seq(Consolas)
    BY <2>1
  <2> QED BY <1>2, <1>6, <2>1, <2>2, AlFinalDeCola
<1>8. Tipos'
  BY <1>1, <1>2, <1>4, <1>7 DEF Tipos, SinRepetir
<1>9. Conexiones'
  <2>0. Elems(pendientes)' = Elems(pendientes') /\ Elems(pendientes) \subseteq Consolas
    BY <1>1, PendientesDe DEF Elems
  <2>1. ASSUME NEW p \in 1..pid_actual', Vive(p)' PROVE Conectado(p)'
    <3>1. Conectado(p) /\ Socket(p)' = Socket(p) /\ consolaDe[p] \in Consolas
      BY <1>1, <1>2, <1>3, <2>1, PidsAlcanzan DEF Conexiones, Conectados
    <3>2. consolaDe[p] # c
      BY <1>1, <1>2, <1>5, <2>1, ProcesosDe
    <3> QED BY <1>2, <1>4, <3>1, <3>2 DEF Conectado
  <2>2. AceptadoSinProceso'
    BY <1>1, <1>2, <1>3, <1>4, <1>7, <2>0 DEF Conexiones, AceptadoSinProceso
  <2>3. PendientesSinProceso'
    BY <1>1, <1>2, <1>3, <1>4, <1>5, <1>7, <2>0 DEF Conexiones, PendientesSinProceso
  <2> QED BY <2>1, <2>2, <2>3 DEF Conexiones, Conectados
<1>10. Mensajes'
  <2>1. SinProceso(c)'
    BY <1>2, <1>4, <1>5 DEF SinProceso
  <2>2. \A p \in 1..pid_actual : consolaDe[p] # c
    BY <1>1, <1>5, ProcesosDe
  <2> QED BY <1>1, <1>2, <1>3, <1>4, <2>1, <2>2, DichoAUno
<1> QED BY <1>3, <1>8, <1>9, <1>10 DEF InvE

\* A step of a console that is connected and lives.
LEMMA ConsolaSola ==
    ASSUME InvE, UNCHANGED <<conexiones, deKernel, cpu, memoria, consolaDe>>,
           NEW c \in Consolas, NEW x \in Formas \ {"sin iniciar"}, NEW k, NEW m,
           consola' = [consola EXCEPT ![c] = x],
           haciaKernel' = [haciaKernel EXCEPT ![c] = k],
           haciaConsola' = [haciaConsola EXCEPT ![c] = m],
           consola[c] \notin {"muerta", "sin iniciar"},
           c \notin Elems(consolaDe) => SinProceso(c)',
           \A p \in 1..pid_actual : consolaDe[p] = c => Trato(p)'
    PROVE  InvE'
<1>1. Tipos /\ Colas /\ EnUnLugar /\ Pcbs /\ Conexiones /\ Mensajes /\ GradoExacto
  BY DEF InvE
<1>2. /\ pendientes' = pendientes /\ fds' = fds /\ aceptado' = aceptado
      /\ pid_actual' = pid_actual /\ pcbs' = pcbs /\ hilo' = hilo /\ consolaDe' = consolaDe
      /\ memoria' = memoria /\ multiprogramacion' = multiprogramacion
  BY DEF deKernel, conexiones
<1>3. /\ Colas' /\ EnUnLugar' /\ Pcbs' /\ GradoExacto'
      /\ \A p : (Vive(p) <=> Vive(p)') /\ Socket(p)' = Socket(p) /\ (Acabo(p)' <=> Acabo(p))
  BY <1>1, KernelQuieto
<1>4. /\ consola \in [Consolas -> Formas] /\ consola' \in [Consolas -> Formas]
      /\ DOMAIN haciaKernel = Consolas /\ DOMAIN haciaKernel' = Consolas
      /\ haciaKernel' = [d \in Consolas |-> haciaKernel'[d]]
      /\ DOMAIN haciaConsola = Consolas /\ DOMAIN haciaConsola' = Consolas
      /\ haciaConsola' = [d \in Consolas |-> haciaConsola'[d]]
  BY <1>1 DEF Tipos
<1>5. Tipos'
  <2>1. DOMAIN pcbs' \subseteq 1..pid_actual' /\ pcbs' = [p \in DOMAIN pcbs' |-> pcbs'[p]]
    BY <1>1, <1>2 DEF Tipos
  <2> QED BY <1>1, <1>2, <1>4, <2>1 DEF Tipos, SinRepetir
<1>6. /\ consola'[c] = x
      /\ \A d \in Consolas \ {c} : consola'[d] = consola[d] /\ haciaKernel'[d] = haciaKernel[d]
                                   /\ haciaConsola'[d] = haciaConsola[d]
  BY <1>4
<1>7. Mensajes'
  BY <1>1, <1>2, <1>3, <1>6, DichoAUno
<1>8. Conexiones'
  <2>1. ASSUME NEW d \in Consolas
        PROVE  /\ consola[d] = "muerta" =>
                     consola'[d] = "muerta" /\ haciaKernel'[d] = haciaKernel[d]
               /\ consola[d] # "sin iniciar" => consola'[d] # "sin iniciar"
    <3>1. CASE d = c
      BY <1>6, <3>1
    <3>2. CASE d # c
      <4>1. consola'[d] = consola[d] /\ haciaKernel'[d] = haciaKernel[d]
        BY <1>6, <3>2
      <4> QED BY <1>6, <4>1
    <3> QED BY <3>1, <3>2
  <2> QED BY <1>1, <1>2, <1>3, <2>1, ConexionesQuietas
<1> QED BY <1>3, <1>5, <1>7, <1>8 DEF InvE

\* What the messages of a console are, by the state of its process.
LEMMA SegunTrato ==
    ASSUME InvE, NEW c \in Consolas
    PROVE  /\ c \notin Elems(consolaDe) => SinProceso(c)
           /\ \A p \in 1..pid_actual : consolaDe[p] = c =>
                /\ Acabo(p) => Despedida(c)
                /\ ~Acabo(p) /\ hilo[p] = "contestar" =>
                      EnDialogo(c, obtener_ultima_instruccion(pcbs[p]).parametro1)
                /\ ~Acabo(p) /\ hilo[p] # "contestar" => EnSilencio(c)
           /\ DOMAIN haciaKernel = Consolas /\ DOMAIN haciaConsola = Consolas
           /\ haciaKernel = [haciaKernel EXCEPT ![c] = haciaKernel[c]]
           /\ haciaConsola = [haciaConsola EXCEPT ![c] = haciaConsola[c]]
<1>1. Mensajes /\ DOMAIN haciaKernel = Consolas /\ DOMAIN haciaConsola = Consolas
      /\ haciaKernel = [d \in Consolas |-> haciaKernel[d]]
      /\ haciaConsola = [d \in Consolas |-> haciaConsola[d]]
  BY DEF InvE, Tipos
<1>2. /\ haciaKernel = [haciaKernel EXCEPT ![c] = haciaKernel[c]]
      /\ haciaConsola = [haciaConsola EXCEPT ![c] = haciaConsola[c]]
  BY <1>1
<1> QED BY <1>1, <1>2 DEF Mensajes, Trato

\* EnviarPrograma keeps InvE: the program is the first thing the kernel has of a console.
LEMMA AlEnviar == ASSUME InvE, NEW c \in Consolas, EnviarPrograma(c) PROVE InvE'
<1>1. consola[c] = "conectada" /\ UNCHANGED <<haciaConsola, conexiones, deKernel, cpu, memoria, consolaDe>>
  BY DEF EnviarPrograma, historia
<1>2. Tipos /\ Mensajes /\ consola \in [Consolas -> Formas]
  BY DEF InvE, Tipos
<1>3. c \notin Elems(consolaDe) /\ SinProceso(c) /\ haciaKernel[c] = <<>>
  BY <1>1, <1>2, SinNadie DEF SinProceso
<1>4. \A p \in 1..pid_actual : consolaDe[p] # c
  BY <1>2, <1>3, ProcesosDe
<1>5. haciaConsola' = [haciaConsola EXCEPT ![c] = haciaConsola[c]]
      /\ DOMAIN haciaKernel = Consolas
  BY <1>1, SegunTrato
<1>6. PICK a \in Archivos(c) :
          IF SePuedeLeer(a)
          THEN /\ AlKernel(c, Paquete("PROCESO", empaquetar_proceso(
                      [instrucciones |-> obtener_pseudocodigo(a),
                       segmentos |-> Segmentos(c)])))
               /\ consola' = [consola EXCEPT ![c] = "atiende"]
          ELSE consola' = [consola EXCEPT ![c] = "fin"] /\ UNCHANGED haciaKernel
  BY DEF EnviarPrograma
<1>7. CASE SePuedeLeer(a)
  <2> DEFINE proceso == [instrucciones |-> obtener_pseudocodigo(a), segmentos |-> Segmentos(c)]
             k == Paquete("PROCESO", empaquetar_proceso(proceso))
  <2>1. EsFlujo(empaquetar_proceso(proceso))
    <3>1. EsPrograma(obtener_pseudocodigo(a))
      BY <1>7, ProgramaLeido
    <3>2. EsLista(Segmentos(c)) /\ \A i \in DOMAIN Segmentos(c) : EsTexto(Segmentos(c)[i])
      BY ArchivosAssumption
    <3>3. EsProceso(proceso)
      BY <3>1, <3>2, ListaEsFlujo DEF EsProceso, EsPrograma, EsI
    <3> HIDE DEF proceso
    <3> QED BY <3>3, ProcesoEntero
  <2>2. k # <<>> /\ <<>> \o k = k
    <3> HIDE DEF proceso
    <3> QED BY <2>1, PaqueteSolo
  <2>3. Programa(c, k)
    BY <1>7 DEF Programa
  <2>4. haciaKernel' = [haciaKernel EXCEPT ![c] = k] /\ consola' = [consola EXCEPT ![c] = "atiende"]
    <3> HIDE DEF k
    <3> QED BY <1>3, <1>6, <1>7, <2>2 DEF AlKernel, k
  <2> HIDE DEF k
  <2>5. SinProceso(c)'
    <3>1. haciaKernel'[c] = k /\ consola'[c] = "atiende" /\ haciaConsola'[c] = haciaConsola[c]
      BY <1>1, <1>2, <1>5, <2>4
    <3> QED BY <1>3, <2>3, <3>1 DEF SinProceso, Programa
  <2>6. "atiende" \in Formas \ {"sin iniciar"}
    BY DEF Formas
  <2> QED BY <1>1, <1>4, <1>5, <2>4, <2>5, <2>6, ConsolaSola
<1>8. CASE ~SePuedeLeer(a)
  <2>1. consola' = [consola EXCEPT ![c] = "fin"] /\ haciaKernel' = haciaKernel
    BY <1>6, <1>8
  <2>2. SinProceso(c)'
    <3>1. haciaKernel'[c] = <<>> /\ consola'[c] = "fin" /\ haciaConsola'[c] = haciaConsola[c]
      <4>1. consola'[c] = "fin"
        BY <1>2, <2>1
      <4>2. haciaKernel' = haciaKernel /\ haciaConsola' = haciaConsola
        BY <1>1, <2>1
      <4> QED BY <1>3, <4>1, <4>2
    <3>2. haciaConsola[c] = <<>>
      BY <1>3 DEF SinProceso
    <3> QED BY <3>1, <3>2 DEF SinProceso
  <2>3. "fin" \in Formas \ {"sin iniciar"}
    BY DEF Formas
  <2>4. consola' = [consola EXCEPT ![c] = "fin"]
        /\ haciaKernel' = [haciaKernel EXCEPT ![c] = haciaKernel[c]]
    BY <2>1, SegunTrato
  <2> QED BY <1>1, <1>4, <1>5, <2>2, <2>3, <2>4, ConsolaSola
<1> QED BY <1>7, <1>8

\* What is said to a console, when its process stays where it is.
LEMMA TratoCon ==
    ASSUME NEW p, NEW c, NEW t, consolaDe'[p] = c, pcbs' = pcbs, hilo' = hilo,
           Acabo(p)' <=> Acabo(p), t = obtener_ultima_instruccion(pcbs[p]).parametro1,
           Acabo(p) => Despedida(c)',
           ~Acabo(p) /\ hilo[p] = "contestar" => EnDialogo(c, t)',
           ~Acabo(p) /\ hilo[p] # "contestar" => EnSilencio(c)'
    PROVE  Trato(p)'
<1>1. CASE Acabo(p)
  BY <1>1 DEF Trato, Despedida
<1>2. CASE ~Acabo(p) /\ hilo[p] = "contestar"
  <2>1. EnDialogo(c, t)' /\ ~(Acabo(p)') /\ hilo'[p] = "contestar"
    BY <1>2
  <2>2. t = obtener_ultima_instruccion(pcbs'[p]).parametro1
    OBVIOUS
  <2> QED BY <2>1, <2>2 DEF Trato, EnDialogo
<1>3. CASE ~Acabo(p) /\ hilo[p] # "contestar"
  BY <1>3 DEF Trato, EnSilencio
<1> QED BY <1>1, <1>2, <1>3

\* A console with a process, whose messages change as its state allows.
LEMMA ConsolaConProceso ==
    ASSUME InvE, UNCHANGED <<conexiones, deKernel, cpu, memoria, consolaDe>>,
           NEW c \in Consolas, NEW x \in Formas \ {"sin iniciar"}, NEW k, NEW m,
           consola' = [consola EXCEPT ![c] = x],
           haciaKernel' = [haciaKernel EXCEPT ![c] = k],
           haciaConsola' = [haciaConsola EXCEPT ![c] = m],
           consola[c] \notin {"muerta", "sin iniciar"}, x # "muerta",
           NEW p \in 1..pid_actual, consolaDe[p] = c, NEW t,
           t = obtener_ultima_instruccion(pcbs[p]).parametro1,
           Acabo(p) => Despedida(c)',
           ~Acabo(p) /\ hilo[p] = "contestar" => EnDialogo(c, t)',
           ~Acabo(p) /\ hilo[p] # "contestar" => EnSilencio(c)'
    PROVE  InvE'
<1>1. Tipos /\ Colas /\ EnUnLugar /\ Pcbs /\ GradoExacto
  BY DEF InvE
<1>2. Acabo(p)' <=> Acabo(p)
  BY <1>1, KernelQuieto
<1>3. consolaDe' = consolaDe /\ pcbs' = pcbs /\ hilo' = hilo
  BY DEF deKernel
<1>4. Trato(p)'
  BY <1>2, <1>3, TratoCon
<1>5. \A q \in 1..pid_actual : consolaDe[q] = c => q = p
  BY <1>1, PidsAlcanzan
<1>6. c \in Elems(consolaDe)
  BY <1>1, ProcesosDe
<1> QED BY <1>4, <1>5, <1>6, ConsolaSola

\* Atender keeps InvE: what the console takes is what its process asked.
LEMMA AlAtender == ASSUME InvE, NEW c \in Consolas, Atender(c) PROVE InvE'
<1>1. /\ consola[c] = "atiende" /\ haciaConsola[c] # <<>>
      /\ UNCHANGED <<conexiones, deKernel, cpu, memoria, consolaDe>>
  BY DEF Atender, PuedeAtender
<1>2. Tipos /\ Mensajes /\ consola \in [Consolas -> Formas]
  BY DEF InvE, Tipos
<1>3. c \in Elems(consolaDe)
  BY <1>1, SegunTrato DEF SinProceso
<1>4. PICK p \in 1..pid_actual : consolaDe[p] = c
  BY <1>2, <1>3, ProcesosDe
<1>5. PICK t : t = obtener_ultima_instruccion(pcbs[p]).parametro1
  OBVIOUS
<1>6. /\ Acabo(p) => Despedida(c)
      /\ ~Acabo(p) /\ hilo[p] = "contestar" => EnDialogo(c, t)
      /\ Acabo(p) \/ hilo[p] = "contestar"
  BY <1>1, <1>4, <1>5, SegunTrato DEF EnSilencio
<1>7. DOMAIN haciaKernel = Consolas /\ DOMAIN haciaConsola = Consolas
  BY SegunTrato
<1>8. haciaKernel[c] = <<>>
  BY <1>1, <1>6 DEF Despedida, EnDialogo
<1>9. CASE Acabo(p)
  <2>1. haciaConsola[c] = Codigo("FINALIZAR")
    BY <1>1, <1>6, <1>9 DEF Despedida
  <2>2. Operacion(haciaConsola[c]) = "FINALIZAR" /\ TrasOperacion(haciaConsola[c]) = <<>>
    BY <2>1, CodigoSolo
  <2>3. /\ consola' = [consola EXCEPT ![c] = "fin"]
        /\ haciaConsola' = [haciaConsola EXCEPT ![c] = <<>>]
        /\ haciaKernel' = haciaKernel
    BY <2>2 DEF Atender
  <2>4. Despedida(c)'
    <3>1. consola'[c] = "fin" /\ haciaConsola'[c] = <<>> /\ haciaKernel'[c] = <<>>
      BY <1>2, <1>7, <1>8, <2>3
    <3> QED BY <3>1 DEF Despedida
  <2>5. haciaKernel' = [haciaKernel EXCEPT ![c] = haciaKernel[c]]
    BY <2>3, SegunTrato
  <2>6. consola' = [consola EXCEPT ![c] = "fin"]
        /\ haciaConsola' = [haciaConsola EXCEPT ![c] = <<>>]
    BY <2>3
  <2>7. "fin" \in Formas \ {"sin iniciar"}
    BY DEF Formas
  <2> QED BY <1>1, <1>4, <1>5, <1>9, <2>4, <2>5, <2>6, <2>7, ConsolaConProceso
<1>10. CASE ~Acabo(p) /\ t = "TECLADO"
  <2>1. haciaConsola[c] = Codigo("TECLADO") /\ EnDialogo(c, t) /\ hilo[p] = "contestar"
    BY <1>1, <1>6, <1>10 DEF EnDialogo, Pedido
  <2>2. Operacion(haciaConsola[c]) = "TECLADO" /\ TrasOperacion(haciaConsola[c]) = <<>>
    BY <2>1, CodigoSolo
  <2>3. PICK v \in Teclas : /\ AlKernel(c, ValorConCodigo(v, "OKI_TECLADO"))
                            /\ haciaConsola' = [haciaConsola EXCEPT ![c] = <<>>]
                            /\ consola' = consola
    BY <2>2 DEF Atender
  <2> DEFINE k == ValorConCodigo(v, "OKI_TECLADO")
  <2>4. v \in Int
    BY EjecucionAssumption DEF Enteros
  <2>5. <<>> \o k = k
    BY <2>4, ValorSolo
  <2>6. haciaKernel' = [haciaKernel EXCEPT ![c] = k]
    BY <1>8, <2>3, <2>5 DEF AlKernel
  <2>7. Respuesta(t, k)
    BY <1>10, <2>4 DEF Respuesta
  <2> HIDE DEF k
  <2>8. EnDialogo(c, t)'
    <3>1. consola'[c] = "atiende" /\ haciaConsola'[c] = <<>> /\ haciaKernel'[c] = k
      BY <1>1, <1>7, <2>3, <2>6
    <3> QED BY <2>7, <3>1 DEF EnDialogo
  <2>9. consola' = [consola EXCEPT ![c] = "atiende"] /\ "atiende" \in Formas \ {"sin iniciar"}
    BY <1>1, <1>2, <2>3 DEF Formas
  <2>10. haciaConsola' = [haciaConsola EXCEPT ![c] = <<>>]
    BY <2>3
  <2> QED BY <1>1, <1>4, <1>5, <1>10, <2>1, <2>6, <2>8, <2>9, <2>10, ConsolaConProceso
<1>11. CASE ~Acabo(p) /\ t # "TECLADO"
  <2>1. EnDialogo(c, t) /\ hilo[p] = "contestar" /\ Pedido(t, haciaConsola[c])
    BY <1>1, <1>6, <1>11 DEF EnDialogo
  <2>2. PICK v \in Int : haciaConsola[c] = ValorConCodigo(v, "PANTALLA")
    BY <1>11, <2>1 DEF Pedido
  <2>3. Operacion(haciaConsola[c]) = "PANTALLA" /\ TrasPaquete(haciaConsola[c]) = <<>>
    BY <2>2, ValorSolo
  <2>4. /\ consola' = [consola EXCEPT ![c] = "imprimio"]
        /\ haciaConsola' = [haciaConsola EXCEPT ![c] = <<>>]
        /\ haciaKernel' = haciaKernel
    BY <2>3 DEF Atender
  <2>5. EnDialogo(c, t)'
    <3>1. consola'[c] = "imprimio" /\ haciaConsola'[c] = <<>> /\ haciaKernel'[c] = <<>>
      BY <1>2, <1>7, <1>8, <2>4
    <3> QED BY <1>11, <3>1 DEF EnDialogo
  <2>6. haciaKernel' = [haciaKernel EXCEPT ![c] = haciaKernel[c]]
    BY <2>4, SegunTrato
  <2>7. consola' = [consola EXCEPT ![c] = "imprimio"]
        /\ haciaConsola' = [haciaConsola EXCEPT ![c] = <<>>]
    BY <2>4
  <2>8. "imprimio" \in Formas \ {"sin iniciar"}
    BY DEF Formas
  <2> QED BY <1>1, <1>4, <1>5, <1>11, <2>1, <2>5, <2>6, <2>7, <2>8, ConsolaConProceso
<1> QED BY <1>9, <1>10, <1>11

\* ContestarPantalla keeps InvE.
LEMMA AlContestarPantalla == ASSUME InvE, NEW c \in Consolas, ContestarPantalla(c) PROVE InvE'
<1>1. /\ consola[c] = "imprimio" /\ UNCHANGED <<conexiones, deKernel, cpu, memoria, consolaDe>>
      /\ haciaConsola' = haciaConsola /\ consola' = [consola EXCEPT ![c] = "atiende"]
      /\ AlKernel(c, Codigo("OKI_PANTALLA"))
  BY DEF ContestarPantalla, historia
<1>2. Tipos /\ Mensajes /\ consola \in [Consolas -> Formas]
  BY DEF InvE, Tipos
<1>3. c \in Elems(consolaDe)
  BY <1>1, SegunTrato DEF SinProceso
<1>4. PICK p \in 1..pid_actual : consolaDe[p] = c
  BY <1>2, <1>3, ProcesosDe
<1>5. PICK t : t = obtener_ultima_instruccion(pcbs[p]).parametro1
  OBVIOUS
<1>6. ~Acabo(p) /\ hilo[p] = "contestar" /\ EnDialogo(c, t)
  BY <1>1, <1>4, <1>5, SegunTrato DEF EnSilencio, Despedida
<1>7. DOMAIN haciaKernel = Consolas /\ DOMAIN haciaConsola = Consolas
  BY SegunTrato
<1>8. haciaKernel[c] = <<>> /\ haciaConsola[c] = <<>> /\ t # "TECLADO"
  BY <1>1, <1>6 DEF EnDialogo
<1> DEFINE k == Codigo("OKI_PANTALLA")
<1>9. <<>> \o k = k
  BY CodigoSolo
<1>10. haciaKernel' = [haciaKernel EXCEPT ![c] = k]
  BY <1>1, <1>8, <1>9 DEF AlKernel
<1>11. Respuesta(t, k)
  BY <1>8 DEF Respuesta
<1> HIDE DEF k
<1>12. EnDialogo(c, t)'
  <2>1. consola'[c] = "atiende" /\ haciaConsola'[c] = <<>> /\ haciaKernel'[c] = k
    BY <1>1, <1>2, <1>7, <1>8, <1>10
  <2> QED BY <1>11, <2>1 DEF EnDialogo
<1>13. haciaConsola' = [haciaConsola EXCEPT ![c] = haciaConsola[c]]
  BY <1>1, SegunTrato
<1>14. consola' = [consola EXCEPT ![c] = "atiende"] /\ "atiende" \in Formas \ {"sin iniciar"}
  BY <1>1 DEF Formas
<1>15. UNCHANGED <<conexiones, deKernel, cpu, memoria, consolaDe>> /\ consola[c] = "imprimio"
  BY <1>1
<1> QED BY <1>4, <1>5, <1>6, <1>10, <1>12, <1>13, <1>14, <1>15, ConsolaConProceso

\* Sigint keeps InvE: what was said to the console is lost.
LEMMA AlMorir == ASSUME InvE, NEW c \in Consolas, Sigint(c) PROVE InvE'
<1>1. /\ consola[c] \in {"conectada", "atiende", "imprimio"}
      /\ UNCHANGED <<conexiones, deKernel, cpu, memoria, consolaDe>>
      /\ haciaKernel' = haciaKernel /\ consola' = [consola EXCEPT ![c] = "muerta"]
      /\ haciaConsola' = [haciaConsola EXCEPT ![c] = <<>>]
  BY DEF Sigint, historia
<1>2. Tipos /\ Mensajes /\ consola \in [Consolas -> Formas] /\ Colas /\ EnUnLugar /\ Pcbs /\ GradoExacto
  BY DEF InvE, Tipos
<1>3. DOMAIN haciaKernel = Consolas /\ DOMAIN haciaConsola = Consolas
  BY SegunTrato
<1>4. consola'[c] = "muerta" /\ haciaConsola'[c] = <<>> /\ haciaKernel'[c] = haciaKernel[c]
  BY <1>1, <1>2, <1>3
<1>5. consolaDe' = consolaDe /\ pcbs' = pcbs /\ hilo' = hilo
  BY <1>1 DEF deKernel
<1>6. ASSUME c \notin Elems(consolaDe) PROVE SinProceso(c)'
  BY <1>4, <1>6, SegunTrato DEF SinProceso, Programa
<1>7. ASSUME NEW p \in 1..pid_actual, consolaDe[p] = c PROVE Trato(p)'
  <2>1. PICK t : t = obtener_ultima_instruccion(pcbs[p]).parametro1
    OBVIOUS
  <2>2. Acabo(p)' <=> Acabo(p)
    BY <1>1, <1>2, KernelQuieto
  <2>3. Acabo(p) => Despedida(c)'
    BY <1>4, <1>7, SegunTrato DEF Despedida
  <2>4. ~Acabo(p) /\ hilo[p] = "contestar" => EnDialogo(c, t)'
    BY <1>4, <1>7, <2>1, SegunTrato DEF EnDialogo
  <2>5. ~Acabo(p) /\ hilo[p] # "contestar" => EnSilencio(c)'
    BY <1>4, <1>7, SegunTrato DEF EnSilencio
  <2>6. consolaDe'[p] = c
    BY <1>5, <1>7
  <2> QED BY <1>5, <2>1, <2>2, <2>3, <2>4, <2>5, <2>6, TratoCon
<1>8. haciaKernel' = [haciaKernel EXCEPT ![c] = haciaKernel[c]]
  BY <1>1, SegunTrato
<1>9. "muerta" \in Formas \ {"sin iniciar"}
  BY DEF Formas
<1>10. /\ consola[c] \notin {"muerta", "sin iniciar"}
       /\ UNCHANGED <<conexiones, deKernel, cpu, memoria, consolaDe>>
       /\ consola' = [consola EXCEPT ![c] = "muerta"]
       /\ haciaConsola' = [haciaConsola EXCEPT ![c] = <<>>]
  BY <1>1
<1> QED BY <1>6, <1>7, <1>8, <1>9, <1>10, ConsolaSola

-----------------------------------------------------------------------------
(* A PCB changes places *)

\* A step that says nothing through a socket and takes no PCB to another console.
LEMMA SocketsQuietos ==
    ASSUME Tipos, Pcbs, Conexiones, Mensajes,
           UNCHANGED <<deConsolas, conexiones, consolaDe, pid_actual>>,
           \A p \in 1..pid_actual :
                /\ Vive(p)' => Vive(p) /\ Socket(p)' = Socket(p)
                /\ (Acabo(p)' <=> Acabo(p))
                /\ ~Acabo(p) => /\ (hilo'[p] = "contestar" <=> hilo[p] = "contestar")
                                /\ hilo[p] = "contestar" => pcbs'[p] = pcbs[p]
    PROVE  Conexiones' /\ Mensajes'
<1>1. consola' = consola /\ haciaKernel' = haciaKernel /\ haciaConsola' = haciaConsola
      /\ pid_actual' = pid_actual /\ consolaDe' = consolaDe
  BY DEF deConsolas
<1>2. Mensajes'
  <2> DEFINE C == {}
  <2>1. C \in SUBSET Consolas
    OBVIOUS
  <2>2. \A d : d \notin C
    OBVIOUS
  <2> HIDE DEF C
  <2> QED BY <1>1, <2>1, <2>2, DichoA
<1>3. Conexiones'
  BY <1>1, ConexionesQuietas
<1> QED BY <1>2, <1>3

\* The heap with the PCB of q.
LEMMA Guardado ==
    ASSUME Tipos, NEW n, NEW q, n.pid = q, Guardar(n)
    PROVE  /\ DOMAIN pcbs' = DOMAIN pcbs \cup {q} /\ pcbs'[q] = n
           /\ \A p \in DOMAIN pcbs \ {q} : pcbs'[p] = pcbs[p]
           /\ pcbs' = [p \in DOMAIN pcbs' |-> pcbs'[p]]
BY DEF Guardar

Sitios == {"ready", "dispositivo", "exit", "hilo"}

\* The PCB of q goes from where it is to a place that is not NEW nor the CPU.
Ubicado(q, n, lugar) ==
    /\ Guardar(n)
    /\ cola_new' \in Seq(Nat) /\ SinRepetir(cola_new')
    /\ Elems(cola_new') = Elems(cola_new) \ {q}
    /\ cola_ready' \in Seq(Nat) /\ SinRepetir(cola_ready')
    /\ Elems(cola_ready') = (Elems(cola_ready) \ {q}) \cup (IF lugar = "ready" THEN {q} ELSE {})
    /\ cola_dispositivo' \in Seq(Nat) /\ SinRepetir(cola_dispositivo')
    /\ Elems(cola_dispositivo') =
          (Elems(cola_dispositivo) \ {q}) \cup (IF lugar = "dispositivo" THEN {q} ELSE {})
    /\ cola_exit' \in Seq(Nat) /\ SinRepetir(cola_exit')
    /\ Elems(cola_exit') = Elems(cola_exit) \cup (IF lugar = "exit" THEN {q} ELSE {})
    /\ hilo' \in [Pids -> {"ninguno", "page fault", "pedir", "contestar"}]
    /\ \A p \in Pids \ {q} : hilo'[p] = hilo[p]
    /\ lugar # "hilo" => hilo'[q] = "ninguno"
    /\ \/ cpu' = cpu /\ ~EnCpuEsta(q)
       \/ cpu' = Libre /\ EnCpuEsta(q)

\* A PCB is taken from the CPU, a queue or a thread and goes to one place.
LEMMA Ubica ==
    ASSUME Tipos, Colas, EnUnLugar, Pcbs, NEW q \in Pids, NEW n, NEW lugar \in Sitios,
           BuenPcb(n, q), Ubicado(q, n, lugar), pid_actual' = pid_actual, q \in 1..pid_actual,
           q \notin Elems(cola_exit), lugar = "exit" => Terminado(n),
           hilo'[q] \in {"pedir", "contestar"} => UltimaEsDeConsola(n)
    PROVE  /\ Colas' /\ EnUnLugar' /\ Pcbs'
           /\ DOMAIN pcbs' \subseteq 1..pid_actual' /\ pcbs' = [p \in DOMAIN pcbs' |-> pcbs'[p]]
           /\ pcbs'[q] = n
           /\ \A p : (Vive(p)' <=> Vive(p) \/ p = q)
           /\ \A p : p # q => (Acabo(p)' <=> Acabo(p)) /\ (Vive(p) => PcbDe(p)' = PcbDe(p))
           /\ \A p : p # q /\ p \in DOMAIN pcbs => pcbs'[p] = pcbs[p]
           /\ Acabo(q)' <=> lugar = "exit"
           /\ PcbDe(q)' = n
<1>1. n.pid = q /\ Guardar(n)
  BY DEF BuenPcb, Ubicado
<1>2. /\ DOMAIN pcbs' = DOMAIN pcbs \cup {q} /\ pcbs'[q] = n
      /\ \A p \in DOMAIN pcbs \ {q} : pcbs'[p] = pcbs[p]
      /\ pcbs' = [p \in DOMAIN pcbs' |-> pcbs'[p]]
  BY <1>1, Guardado
<1>3. /\ Elems(cola_new)' = Elems(cola_new') /\ Elems(cola_ready)' = Elems(cola_ready')
      /\ Elems(cola_dispositivo)' = Elems(cola_dispositivo') /\ Elems(cola_exit)' = Elems(cola_exit')
  BY DEF Elems
<1>4. DOMAIN pcbs \subseteq 1..pid_actual /\ 1..pid_actual \subseteq Pids
      /\ hilo \in [Pids -> {"ninguno", "page fault", "pedir", "contestar"}]
  BY PidsAlcanzan DEF Tipos
<1>5. Colas'
  BY DEF Ubicado, Colas, SinRepetir
<1>6. Bloqueados' = (Bloqueados \ {q}) \cup (IF hilo'[q] # "ninguno" THEN {q} ELSE {})
      /\ (lugar # "hilo" => hilo'[q] = "ninguno")
  <2>1. /\ \A p \in Pids \ {q} : hilo'[p] = hilo[p]
        /\ (lugar # "hilo" => hilo'[q] = "ninguno")
    BY DEF Ubicado
  <2> QED BY <2>1 DEF Bloqueados
<1>7. EnUnLugar'
  <2> DEFINE N == Elems(cola_new)
             R == Elems(cola_ready)
             D == Elems(cola_dispositivo)
             X == Elems(cola_exit)
             B == Bloqueados
             N1 == Elems(cola_new')
             R1 == Elems(cola_ready')
             D1 == Elems(cola_dispositivo')
             X1 == Elems(cola_exit')
             B1 == Bloqueados'
  <2>1. /\ N1 = N \ {q} /\ R1 = (R \ {q}) \cup (IF lugar = "ready" THEN {q} ELSE {})
        /\ D1 = (D \ {q}) \cup (IF lugar = "dispositivo" THEN {q} ELSE {})
        /\ X1 = X \cup (IF lugar = "exit" THEN {q} ELSE {})
        /\ B1 = (B \ {q}) \cup (IF hilo'[q] # "ninguno" THEN {q} ELSE {})
        /\ (lugar # "hilo" => hilo'[q] = "ninguno")
    BY <1>6 DEF Ubicado
  <2>2. /\ N \cap R = {} /\ N \cap D = {} /\ N \cap X = {} /\ N \cap B = {} /\ R \cap D = {}
        /\ R \cap X = {} /\ R \cap B = {} /\ D \cap X = {} /\ D \cap B = {} /\ X \cap B = {}
        /\ N \subseteq DOMAIN pcbs /\ R \subseteq DOMAIN pcbs /\ D \subseteq DOMAIN pcbs
        /\ X \subseteq DOMAIN pcbs /\ B \subseteq DOMAIN pcbs /\ q \notin X
    BY DEF EnUnLugar
  <2> HIDE DEF N, R, D, X, B, N1, R1, D1, X1, B1
  <2>3. /\ N1 \cap R1 = {} /\ N1 \cap D1 = {} /\ N1 \cap X1 = {} /\ N1 \cap B1 = {}
        /\ R1 \cap D1 = {} /\ R1 \cap X1 = {} /\ R1 \cap B1 = {} /\ D1 \cap X1 = {}
        /\ D1 \cap B1 = {} /\ X1 \cap B1 = {}
    BY <2>1, <2>2
  <2>4. /\ N1 \subseteq DOMAIN pcbs' /\ R1 \subseteq DOMAIN pcbs' /\ D1 \subseteq DOMAIN pcbs'
        /\ X1 \subseteq DOMAIN pcbs' /\ B1 \subseteq DOMAIN pcbs'
    BY <1>2, <2>1, <2>2
  <2> QED BY <1>3, <2>3, <2>4 DEF EnUnLugar, N1, R1, D1, X1, B1
<1>8. \A p : (Vive(p)' <=> Vive(p) \/ p = q)
  BY <1>2 DEF Ubicado, Vive, EnCpuEsta
<1>9. ASSUME NEW p, p # q, Vive(p) PROVE PcbDe(p)' = PcbDe(p)
  <2>1. EnCpuEsta(p)' <=> EnCpuEsta(p)
    BY <1>9 DEF Ubicado, EnCpuEsta
  <2>2. CASE EnCpuEsta(p)
    <3>1. cpu' = cpu
      BY <1>9, <2>2 DEF Ubicado, EnCpuEsta
    <3> QED BY <2>1, <2>2, <3>1 DEF PcbDe
  <2>3. CASE ~EnCpuEsta(p)
    BY <1>2, <1>9, <2>1, <2>3 DEF PcbDe, Vive
  <2> QED BY <2>2, <2>3
<1>10. PcbDe(q)' = n
  BY <1>2 DEF Ubicado, PcbDe, EnCpuEsta
<1>11. \A p : p # q => (Acabo(p)' <=> Acabo(p))
  BY <1>3, <1>8 DEF Ubicado, Acabo
<1>12. Acabo(q)' <=> lugar = "exit"
  BY <1>3, <1>8 DEF Ubicado, Acabo
<1>13. Pcbs'
  <2>1. ASSUME NEW p \in DOMAIN pcbs' PROVE BuenPcb(pcbs'[p], p)
    BY <1>2 DEF Pcbs
  <2>2. ASSUME NEW p \in Elems(cola_exit)' PROVE Terminado(pcbs'[p])
    <3>1. p \in Elems(cola_exit')
      BY ONLY <1>3, <2>2
    <3>2. Elems(cola_exit') = Elems(cola_exit) \cup (IF lugar = "exit" THEN {q} ELSE {})
      BY DEF Ubicado
    <3>3. CASE p \in Elems(cola_exit)
      <4>1. Terminado(pcbs[p])
        BY <3>3 DEF Pcbs
      <4>2. p # q /\ p \in DOMAIN pcbs
        BY <3>3 DEF EnUnLugar
      <4>3. pcbs'[p] = pcbs[p]
        BY ONLY <1>2, <4>2
      <4> QED BY ONLY <4>1, <4>3
    <3>4. CASE p \notin Elems(cola_exit)
      <4>1. lugar = "exit" /\ p = q
        BY ONLY <3>1, <3>2, <3>4
      <4>2. Terminado(n)
        BY <4>1
      <4> QED BY ONLY <1>2, <4>1, <4>2
    <3> QED BY <3>3, <3>4
  <2>3. ASSUME NEW p \in Elems(cola_new)'
        PROVE  pcbs'[p] = pcbs[p] /\ p \in Elems(cola_new)
    BY <1>2, <1>3 DEF EnUnLugar, Ubicado
  <2>4. ASSUME NEW p \in Pids, hilo'[p] \in {"pedir", "contestar"}
        PROVE  UltimaEsDeConsola(pcbs'[p])
    <3>1. CASE p = q
      BY <1>2, <2>4, <3>1
    <3>2. CASE p # q
      <4>1. hilo'[p] = hilo[p]
        BY <3>2 DEF Ubicado
      <4>2. p \in Bloqueados
        BY <2>4, <4>1 DEF Bloqueados
      <4>3. p \in DOMAIN pcbs
        BY <4>2 DEF EnUnLugar
      <4> QED BY <1>2, <2>4, <3>2, <4>1, <4>3 DEF Pcbs
    <3> QED BY <3>1, <3>2
  <2>5. EnCpuBien'
    <3>1. CASE cpu' = Libre
      BY <3>1 DEF EnCpuBien
    <3>2. CASE cpu' = cpu /\ cpu # Libre /\ ~EnCpuEsta(q)
      <4>1. EnCpuBien /\ cpu.pcb.pid # q
        BY <3>2 DEF Pcbs, EnCpuEsta
      <4>2. cpu.pcb.pid \in (1..pid_actual') \ DOMAIN pcbs'
        BY <1>2, <3>2, <4>1 DEF EnCpuBien
      <4> QED BY <3>2, <4>1, <4>2 DEF EnCpuBien
    <3> QED BY <3>1, <3>2 DEF Ubicado
  <2>6. \A p \in Elems(cola_new)' : EsLista(pcbs'[p].tamanio_segmentos)
            /\ \A i \in DOMAIN pcbs'[p].tamanio_segmentos : EsTexto(pcbs'[p].tamanio_segmentos[i])
    BY <2>3 DEF Pcbs
  <2> QED BY <2>1, <2>2, <2>4, <2>5, <2>6 DEF Pcbs
<1>14. DOMAIN pcbs' \subseteq 1..pid_actual'
  BY <1>2, <1>4
<1> QED BY <1>2, <1>5, <1>7, <1>8, <1>9, <1>10, <1>11, <1>12, <1>13, <1>14

\* Admitted: alive and out of NEW.
LEMMA AdmitidoEs == \A p : Admitido(p) <=> Vive(p) /\ p \notin Elems(cola_new)
BY DEF Admitido, Elems

\* The slots, when at most q is admitted or goes away.
LEMMA CuentasCon ==
    ASSUME Tipos, GradoExacto, pid_actual' = pid_actual, NEW q \in 1..pid_actual,
           \A p \in 1..pid_actual \ {q} : Admitido(p)' <=> Admitido(p),
           \/ multiprogramacion' = multiprogramacion /\ (Admitido(q)' <=> Admitido(q))
           \/ multiprogramacion' = multiprogramacion - 1 /\ ~Admitido(q) /\ Admitido(q)'
           \/ multiprogramacion' = multiprogramacion + 1 /\ Admitido(q) /\ ~(Admitido(q)')
    PROVE  GradoExacto'
<1> DEFINE A == {p \in 1..pid_actual : Admitido(p)}
           B == {p \in 1..pid_actual : Admitido(p)'}
<1>1. pid_actual \in Nat /\ multiprogramacion \in Nat
  BY DEF Tipos
<1>2. IsFiniteSet(A) /\ IsFiniteSet(B) /\ Cardinality(A) \in Nat /\ Cardinality(B) \in Nat
  <2>1. IsFiniteSet(1..pid_actual)
    BY <1>1, FS_Interval
  <2>2. A \in SUBSET (1..pid_actual) /\ B \in SUBSET (1..pid_actual)
    OBVIOUS
  <2> HIDE DEF A, B
  <2>3. IsFiniteSet(A) /\ IsFiniteSet(B)
    BY <2>1, <2>2, FS_Subset
  <2> QED BY <2>3, FS_CardinalityType
<1>3. multiprogramacion + Cardinality(A) = Grado
  BY DEF GradoExacto
<1>4. multiprogramacion' + Cardinality(B) = Grado
  <2>1. CASE multiprogramacion' = multiprogramacion /\ (Admitido(q)' <=> Admitido(q))
    <3>1. A = B
      BY <2>1
    <3> HIDE DEF A, B
    <3> QED BY <1>3, <2>1, <3>1
  <2>2. CASE multiprogramacion' = multiprogramacion - 1 /\ ~Admitido(q) /\ Admitido(q)'
    <3>1. B = A \cup {q} /\ q \notin A
      BY <2>2
    <3> HIDE DEF A, B
    <3>2. Cardinality(B) = Cardinality(A) + 1
      BY <1>2, <3>1, FS_AddElement
    <3> QED BY <1>1, <1>2, <1>3, <2>2, <3>2
  <2>3. CASE multiprogramacion' = multiprogramacion + 1 /\ Admitido(q) /\ ~(Admitido(q)')
    <3>1. B = A \ {q} /\ q \in A
      BY <2>3
    <3> HIDE DEF A, B
    <3>2. Cardinality(B) = Cardinality(A) - 1
      BY <1>2, <3>1, FS_RemoveElement
    <3> QED BY <1>1, <1>2, <1>3, <2>3, <3>2
  <2> QED BY <2>1, <2>2, <2>3
<1>5. B = {p \in 1..pid_actual' : Admitido(p)'}
  OBVIOUS
<1> HIDE DEF B
<1> QED BY <1>4, <1>5 DEF GradoExacto

\* The types, in a step of the kernel that leaves sockets and connections alone.
LEMMA TiposSiguen ==
    ASSUME Tipos, UNCHANGED <<deConsolas, conexiones, consolaDe, pid_actual>>,
           multiprogramacion' \in Nat, EsMemoria(memoria'),
           hilo' \in [Pids -> {"ninguno", "page fault", "pedir", "contestar"}],
           DOMAIN pcbs' \subseteq 1..pid_actual', pcbs' = [p \in DOMAIN pcbs' |-> pcbs'[p]]
    PROVE  Tipos'
<1>1. /\ consola' = consola /\ haciaKernel' = haciaKernel /\ haciaConsola' = haciaConsola
      /\ pendientes' = pendientes /\ fds' = fds /\ aceptado' = aceptado
      /\ consolaDe' = consolaDe /\ pid_actual' = pid_actual
  BY DEF deConsolas, conexiones
<1>2. EsMemoria(memoria)'
  BY DEF EsMemoria
<1>3. /\ consola' \in [Consolas -> Formas]
      /\ DOMAIN haciaKernel' = Consolas /\ haciaKernel' = [c \in Consolas |-> haciaKernel'[c]]
      /\ DOMAIN haciaConsola' = Consolas /\ haciaConsola' = [c \in Consolas |-> haciaConsola'[c]]
      /\ fds' \in [Descriptores -> Consolas \cup {Cerrado}]
      /\ aceptado' \in Descriptores \cup {Ninguno} /\ pid_actual' \in Nat
      /\ consolaDe' \in Seq(Consolas) /\ Len(consolaDe') = pid_actual' /\ SinRepetir(consolaDe')
      /\ pendientes' \in Seq(Consolas) /\ SinRepetir(pendientes')
  BY <1>1 DEF Tipos
<1> QED BY <1>2, <1>3 DEF Tipos, SinRepetir

\* A PCB that goes on from a place to another, with nothing said and not ended.
LEMMA Movido ==
    ASSUME InvE, NEW q, NEW n, NEW lugar \in Sitios \ {"exit"}, BuenPcb(n, q),
           Ubicado(q, n, lugar), UNCHANGED <<deConsolas, conexiones, consolaDe, pid_actual>>,
           EsMemoria(memoria'), Vive(q), n.socket_consola = Socket(q),
           q \notin Elems(cola_exit), hilo[q] # "contestar", hilo'[q] # "contestar",
           hilo'[q] = "pedir" => UltimaEsDeConsola(n),
           \/ multiprogramacion' = multiprogramacion /\ q \notin Elems(cola_new)
           \/ multiprogramacion' = multiprogramacion - 1 /\ q \in Elems(cola_new)
              /\ multiprogramacion > 0
    PROVE  InvE'
<1>1. Tipos /\ Colas /\ EnUnLugar /\ Pcbs /\ Conexiones /\ Mensajes /\ GradoExacto
  BY DEF InvE
<1>2. q \in 1..pid_actual /\ q \in Pids
  BY <1>1, Vivos, PidsAlcanzan
<1>3. lugar \in Sitios /\ lugar # "exit" /\ pid_actual' = pid_actual
  OBVIOUS
<1>4. /\ Colas' /\ EnUnLugar' /\ Pcbs'
      /\ DOMAIN pcbs' \subseteq 1..pid_actual' /\ pcbs' = [p \in DOMAIN pcbs' |-> pcbs'[p]]
      /\ \A p : (Vive(p)' <=> Vive(p) \/ p = q)
      /\ \A p : p # q => (Acabo(p)' <=> Acabo(p)) /\ (Vive(p) => PcbDe(p)' = PcbDe(p))
      /\ \A p : p # q /\ p \in DOMAIN pcbs => pcbs'[p] = pcbs[p]
      /\ ~(Acabo(q)') /\ PcbDe(q)' = n
  <2>1. hilo'[q] \in {"pedir", "contestar"} => UltimaEsDeConsola(n)
    OBVIOUS
  <2> QED BY <1>1, <1>2, <1>3, <2>1, Ubica
<1>5. ~Acabo(q)
  BY DEF Acabo
<1>6. hilo' \in [Pids -> {"ninguno", "page fault", "pedir", "contestar"}]
      /\ \A p \in Pids \ {q} : hilo'[p] = hilo[p]
  BY DEF Ubicado
<1>7. multiprogramacion' \in Nat
  <2>1. multiprogramacion \in Nat
    BY <1>1 DEF Tipos
  <2> QED BY <2>1
<1>8. Tipos'
  BY <1>1, <1>4, <1>6, <1>7, TiposSiguen
<1>9. ASSUME NEW p \in 1..pid_actual
      PROVE  /\ Vive(p)' => Vive(p) /\ Socket(p)' = Socket(p)
             /\ (Acabo(p)' <=> Acabo(p))
             /\ ~Acabo(p) => /\ (hilo'[p] = "contestar" <=> hilo[p] = "contestar")
                             /\ hilo[p] = "contestar" => pcbs'[p] = pcbs[p]
  <2>1. CASE p = q
    BY <1>4, <1>5, <2>1 DEF Socket
  <2>2. CASE p # q
    <3>1. p \in Pids
      BY <1>1, PidsAlcanzan
    <3>2. hilo'[p] = hilo[p]
      BY <1>6, <2>2, <3>1
    <3>3. hilo[p] = "contestar" => p \in DOMAIN pcbs
      BY <1>1, <3>1 DEF EnUnLugar, Bloqueados
    <3> QED BY <1>4, <2>2, <3>2, <3>3 DEF Socket
  <2> QED BY <2>1, <2>2
<1>10. Conexiones' /\ Mensajes'
  BY <1>1, <1>9, SocketsQuietos
<1>11. GradoExacto'
  <2>1. Elems(cola_new)' = Elems(cola_new) \ {q}
    BY DEF Ubicado, Elems
  <2>2. \A p : Admitido(p)' <=> Vive(p)' /\ p \notin Elems(cola_new)'
    BY DEF Admitido, Elems
  <2>3. \A p \in 1..pid_actual \ {q} : Admitido(p)' <=> Admitido(p)
    BY <1>4, <2>1, <2>2, AdmitidoEs
  <2>4. Admitido(q)' /\ (Admitido(q) <=> q \notin Elems(cola_new))
    BY <1>4, <2>1, <2>2, AdmitidoEs
  <2> QED BY <1>1, <1>2, <1>3, <2>3, <2>4, CuentasCon
<1> QED BY <1>4, <1>8, <1>10, <1>11 DEF InvE

-----------------------------------------------------------------------------
(* Admission, devices and page faults *)

\* pasar_a_ready puts at the end of READY a PCB that was not there.
LEMMA AReady ==
    ASSUME NEW q \in Nat, NEW pcb, BuenPcb(pcb, q), cola_ready \in Seq(Nat),
           SinRepetir(cola_ready), q \notin Elems(cola_ready), PasarAReady(pcb)
    PROVE  \E n : /\ BuenPcb(n, q) /\ Igual(n, pcb) /\ Guardar(n)
                  /\ cola_ready' \in Seq(Nat) /\ SinRepetir(cola_ready')
                  /\ Elems(cola_ready') = (Elems(cola_ready) \ {q}) \cup {q}
<1> DEFINE n == [pcb EXCEPT !.estado = "READY", !.con_desalojo = TRUE, !.interrupcion = FALSE,
                           !.page_fault = FALSE, !.segmentation_fault = FALSE]
<1>1. Guardar(n) /\ cola_ready' = Append(cola_ready, pcb.pid)
  BY DEF PasarAReady
<1>2. BuenPcb(n, q) /\ Igual(n, pcb)
  BY VuelveAReady
<1>3. pcb.pid = q
  BY DEF BuenPcb
<1>4. Append(cola_ready, q) \in Seq(Nat)
  OBVIOUS
<1>5. SinRepetir(Append(cola_ready, q)) /\ Elems(Append(cola_ready, q)) = Elems(cola_ready) \cup {q}
  BY AlFinalDeCola
<1>6. Elems(cola_ready) \cup {q} = (Elems(cola_ready) \ {q}) \cup {q}
  OBVIOUS
<1> HIDE DEF n
<1> QED BY <1>1, <1>2, <1>3, <1>4, <1>5, <1>6

\* What is where a PCB is.
LEMMA EnSuLugar ==
    ASSUME InvE, NEW q
    PROVE  /\ q \in DOMAIN pcbs => /\ BuenPcb(pcbs[q], q) /\ Vive(q) /\ ~EnCpuEsta(q)
                                   /\ Socket(q) = pcbs[q].socket_consola
                                   /\ q \in 1..pid_actual /\ q \in Pids /\ q \in Nat
           /\ q \in Elems(cola_new) =>
                 q \in DOMAIN pcbs /\ q \notin Elems(cola_ready) /\ q \notin Elems(cola_dispositivo)
                 /\ q \notin Elems(cola_exit) /\ hilo[q] = "ninguno"
           /\ q \in Elems(cola_ready) =>
                 q \in DOMAIN pcbs /\ q \notin Elems(cola_new) /\ q \notin Elems(cola_dispositivo)
                 /\ q \notin Elems(cola_exit) /\ hilo[q] = "ninguno"
           /\ q \in Elems(cola_dispositivo) =>
                 q \in DOMAIN pcbs /\ q \notin Elems(cola_new) /\ q \notin Elems(cola_ready)
                 /\ q \notin Elems(cola_exit) /\ hilo[q] = "ninguno"
           /\ q \in Elems(cola_exit) =>
                 q \in DOMAIN pcbs /\ q \notin Elems(cola_new) /\ q \notin Elems(cola_ready)
                 /\ q \notin Elems(cola_dispositivo) /\ hilo[q] = "ninguno"
           /\ q \in Pids /\ hilo[q] # "ninguno" =>
                 q \in DOMAIN pcbs /\ q \notin Elems(cola_new) /\ q \notin Elems(cola_ready)
                 /\ q \notin Elems(cola_dispositivo) /\ q \notin Elems(cola_exit)
           /\ cpu # Libre /\ q = cpu.pcb.pid =>
                 /\ q \notin DOMAIN pcbs /\ q \notin Elems(cola_new) /\ q \notin Elems(cola_ready)
                 /\ q \notin Elems(cola_dispositivo) /\ q \notin Elems(cola_exit)
                 /\ hilo[q] = "ninguno" /\ BuenPcb(cpu.pcb, q) /\ Vive(q) /\ EnCpuEsta(q)
                 /\ q \in 1..pid_actual /\ q \in Pids /\ q \in Nat
                 /\ Socket(q) = cpu.pcb.socket_consola
<1>1. Tipos /\ EnUnLugar /\ Pcbs /\ EnCpuBien
  BY DEF InvE, Pcbs
<1>2. DOMAIN pcbs \subseteq 1..pid_actual /\ 1..pid_actual \subseteq Pids /\ Pids \subseteq Nat
  <2>1. Pids \subseteq Nat
    BY DEF Pids
  <2> QED BY <1>1, <2>1, PidsAlcanzan DEF Tipos
<1>3. ASSUME q \in DOMAIN pcbs
      PROVE  /\ BuenPcb(pcbs[q], q) /\ Vive(q) /\ ~EnCpuEsta(q)
             /\ Socket(q) = pcbs[q].socket_consola
             /\ q \in 1..pid_actual /\ q \in Pids /\ q \in Nat
  BY <1>1, <1>2, <1>3 DEF Pcbs, Vive, EnCpuEsta, EnCpuBien, Socket, PcbDe
<1>4. ASSUME cpu # Libre, q = cpu.pcb.pid
      PROVE  /\ q \notin DOMAIN pcbs /\ q \in 1..pid_actual /\ q \in Pids /\ q \in Nat
             /\ BuenPcb(cpu.pcb, q) /\ Vive(q) /\ EnCpuEsta(q)
             /\ Socket(q) = cpu.pcb.socket_consola
  BY <1>1, <1>2, <1>4 DEF Vive, EnCpuEsta, EnCpuBien, Socket, PcbDe
<1>5. /\ q \in Pids => (q \in Bloqueados <=> hilo[q] # "ninguno")
      /\ Bloqueados \subseteq DOMAIN pcbs
      /\ Elems(cola_new) \subseteq DOMAIN pcbs /\ Elems(cola_ready) \subseteq DOMAIN pcbs
      /\ Elems(cola_dispositivo) \subseteq DOMAIN pcbs /\ Elems(cola_exit) \subseteq DOMAIN pcbs
  BY <1>1 DEF Bloqueados, EnUnLugar
<1> QED BY <1>1, <1>2, <1>3, <1>4, <1>5 DEF EnUnLugar

\* What is not moved stays.
LEMMA NoSeMueve ==
    ASSUME InvE, NEW q
    PROVE  /\ cola_new \in Seq(Nat) /\ SinRepetir(cola_new)
           /\ cola_ready \in Seq(Nat) /\ SinRepetir(cola_ready)
           /\ cola_dispositivo \in Seq(Nat) /\ SinRepetir(cola_dispositivo)
           /\ cola_exit \in Seq(Nat) /\ SinRepetir(cola_exit)
           /\ q \notin Elems(cola_new) => Elems(cola_new) = Elems(cola_new) \ {q}
           /\ q \notin Elems(cola_ready) => Elems(cola_ready) = (Elems(cola_ready) \ {q}) \cup {}
           /\ q \notin Elems(cola_dispositivo) =>
                 Elems(cola_dispositivo) = (Elems(cola_dispositivo) \ {q}) \cup {}
           /\ Elems(cola_exit) = Elems(cola_exit) \cup {}
           /\ hilo \in [Pids -> {"ninguno", "page fault", "pedir", "contestar"}]
           /\ EsMemoria(memoria) /\ multiprogramacion \in Nat
BY DEF InvE, Colas, Tipos

\* CrearEstructuras keeps InvE: the place it takes is that of the process it admits.
LEMMA AlCrear == ASSUME InvE, CrearEstructuras PROVE InvE'
<1> DEFINE q == Head(cola_new)
           pcb == pcbs[q]
           L == pcb.tamanio_segmentos
           r == AtenderPedidoDeEstructuras(memoria, Buffer(Paquete("ESTRUCTURAS",
                 empaquetar_pcb_memoria([pid |-> pcb.pid, segmentos |-> L]))))
           indices == deserializar_strings(Buffer(r.respuesta), 0).valor
           t == crear_tabla_segmentos(indices, L)
           listo == [pcb EXCEPT !.tabla_de_segmentos = t]
<1>1. /\ cola_new # <<>> /\ multiprogramacion > 0 /\ multiprogramacion' = multiprogramacion - 1
      /\ cola_new' = Tail(cola_new) /\ memoria' = r.mem /\ PasarAReady(listo)
      /\ cola_dispositivo' = cola_dispositivo /\ cola_exit' = cola_exit /\ hilo' = hilo
      /\ cpu' = cpu /\ UNCHANGED <<deConsolas, conexiones, consolaDe, pid_actual>>
  BY DEF CrearEstructuras, PuedeAdmitir, TomarUnidad, historia
<1>2. cola_new \in Seq(Nat) /\ SinRepetir(cola_new)
  BY NoSeMueve
<1>3. /\ q \in Elems(cola_new) /\ Elems(cola_new') = Elems(cola_new) \ {q}
      /\ SinRepetir(cola_new') /\ cola_new' \in Seq(Nat)
  BY <1>1, <1>2, Cabeza
<1>4. /\ q \in DOMAIN pcbs /\ q \notin Elems(cola_ready) /\ q \notin Elems(cola_dispositivo)
      /\ q \notin Elems(cola_exit) /\ hilo[q] = "ninguno"
      /\ BuenPcb(pcb, q) /\ Vive(q) /\ ~EnCpuEsta(q) /\ Socket(q) = pcb.socket_consola
      /\ q \in Pids /\ q \in Nat
  BY <1>3, EnSuLugar
<1> HIDE DEF q
<1>5. EsLista(L) /\ \A i \in DOMAIN L : EsTexto(L[i])
  BY <1>3 DEF InvE, Pcbs
<1>6. EsMemoria(r.mem) /\ EsLista(t) /\ \A i \in DOMAIN t : EsSegmento(t[i])
  <2> HIDE DEF L
  <2> QED BY <1>5, NoSeMueve, CreacionForma
<1> HIDE DEF t, r, indices
<1>7. BuenPcb(listo, q) /\ Quieto(listo, pcb)
  BY <1>4, <1>6, ConSegmentos
<1>8. PICK n : /\ BuenPcb(n, q) /\ Igual(n, listo) /\ Guardar(n)
               /\ cola_ready' \in Seq(Nat) /\ SinRepetir(cola_ready')
               /\ Elems(cola_ready') = (Elems(cola_ready) \ {q}) \cup {q}
  <2> HIDE DEF listo
  <2> QED BY <1>1, <1>4, <1>7, NoSeMueve, AReady
<1>9. n.socket_consola = Socket(q)
  BY <1>4, <1>7, <1>8 DEF Quieto, Igual
<1>10. Ubicado(q, n, "ready")
  BY <1>1, <1>3, <1>4, <1>8, NoSeMueve DEF Ubicado
<1>11. "ready" \in Sitios \ {"exit"}
  BY DEF Sitios
<1> QED
  BY <1>1, <1>3, <1>4, <1>6, <1>8, <1>9, <1>10, <1>11, Movido

\* AtenderPageFault keeps InvE.
LEMMA AlDesbloquearPorMemoria ==
    ASSUME InvE, NEW q \in Pids, AtenderPageFault(q) PROVE InvE'
<1>1. /\ hilo[q] = "page fault" /\ memoria' \in MemoriasTrasPageFault(q)
      /\ PasarAReady(pcbs[q]) /\ hilo' = [hilo EXCEPT ![q] = "ninguno"]
      /\ cola_new' = cola_new /\ cola_dispositivo' = cola_dispositivo /\ cola_exit' = cola_exit
      /\ multiprogramacion' = multiprogramacion
      /\ cpu' = cpu /\ UNCHANGED <<deConsolas, conexiones, consolaDe, pid_actual>>
  BY DEF AtenderPageFault, TrasDesbloquear, historia
<1>2. /\ q \in DOMAIN pcbs /\ q \notin Elems(cola_new) /\ q \notin Elems(cola_ready)
      /\ q \notin Elems(cola_dispositivo) /\ q \notin Elems(cola_exit)
      /\ BuenPcb(pcbs[q], q) /\ Vive(q) /\ ~EnCpuEsta(q) /\ Socket(q) = pcbs[q].socket_consola
      /\ q \in Nat
  BY <1>1, EnSuLugar
<1>3. EsMemoria(memoria')
  BY <1>1, NoSeMueve, PageFaultForma DEF MemoriasTrasPageFault
<1>4. PICK n : /\ BuenPcb(n, q) /\ Igual(n, pcbs[q]) /\ Guardar(n)
               /\ cola_ready' \in Seq(Nat) /\ SinRepetir(cola_ready')
               /\ Elems(cola_ready') = (Elems(cola_ready) \ {q}) \cup {q}
  BY <1>1, <1>2, NoSeMueve, AReady
<1>5. n.socket_consola = Socket(q)
  BY <1>2, <1>4 DEF Igual
<1>6. /\ hilo' \in [Pids -> {"ninguno", "page fault", "pedir", "contestar"}]
      /\ \A p \in Pids \ {q} : hilo'[p] = hilo[p]
      /\ hilo'[q] = "ninguno"
  BY <1>1, NoSeMueve
<1>7. Ubicado(q, n, "ready")
  BY <1>1, <1>2, <1>4, <1>6, NoSeMueve DEF Ubicado
<1>8. "ready" \in Sitios \ {"exit"}
  BY DEF Sitios
<1> QED BY <1>1, <1>2, <1>3, <1>4, <1>5, <1>6, <1>7, <1>8, Movido

\* FinDispositivo keeps InvE.
LEMMA AlTerminarDispositivo == ASSUME InvE, FinDispositivo PROVE InvE'
<1> DEFINE q == Head(cola_dispositivo)
<1>1. /\ cola_dispositivo # <<>> /\ cola_dispositivo' = Tail(cola_dispositivo)
      /\ PasarAReady(pcbs[q]) /\ hilo' = hilo /\ memoria' = memoria
      /\ cola_new' = cola_new /\ cola_exit' = cola_exit
      /\ multiprogramacion' = multiprogramacion
      /\ cpu' = cpu /\ UNCHANGED <<deConsolas, conexiones, consolaDe, pid_actual>>
  BY DEF FinDispositivo, historia
<1>2. cola_dispositivo \in Seq(Nat) /\ SinRepetir(cola_dispositivo)
  BY NoSeMueve
<1>3. /\ q \in Elems(cola_dispositivo)
      /\ Elems(cola_dispositivo') = Elems(cola_dispositivo) \ {q}
      /\ SinRepetir(cola_dispositivo') /\ cola_dispositivo' \in Seq(Nat)
  BY <1>1, <1>2, Cabeza
<1> HIDE DEF q
<1>4. /\ q \in DOMAIN pcbs /\ q \notin Elems(cola_new) /\ q \notin Elems(cola_ready)
      /\ q \notin Elems(cola_exit) /\ hilo[q] = "ninguno"
      /\ BuenPcb(pcbs[q], q) /\ Vive(q) /\ ~EnCpuEsta(q) /\ Socket(q) = pcbs[q].socket_consola
      /\ q \in Nat
  BY <1>3, EnSuLugar
<1>5. PICK n : /\ BuenPcb(n, q) /\ Igual(n, pcbs[q]) /\ Guardar(n)
               /\ cola_ready' \in Seq(Nat) /\ SinRepetir(cola_ready')
               /\ Elems(cola_ready') = (Elems(cola_ready) \ {q}) \cup {q}
  BY <1>1, <1>4, NoSeMueve, AReady
<1>6. n.socket_consola = Socket(q)
  BY <1>4, <1>5 DEF Igual
<1>7. Ubicado(q, n, "ready")
  BY <1>1, <1>3, <1>4, <1>5, NoSeMueve DEF Ubicado
<1>8. "ready" \in Sitios \ {"exit"} /\ EsMemoria(memoria')
  BY <1>1, NoSeMueve DEF Sitios
<1> QED BY <1>1, <1>4, <1>5, <1>6, <1>7, <1>8, Movido

-----------------------------------------------------------------------------
(* The PCB comes back from the CPU *)

\* What a step after the CPU leaves alone, whatever becomes of the PCB.
TrasLaCpu ==
    /\ cpu' = Libre /\ cola_new' = cola_new /\ multiprogramacion' = multiprogramacion
    /\ consola' = consola /\ haciaKernel' = haciaKernel
    /\ UNCHANGED <<conexiones, consolaDe, pid_actual>>

\* A pid at the end of a queue where it is not.
LEMMA PidAlFinal ==
    ASSUME NEW s \in Seq(Nat), NEW q \in Nat, q \notin Elems(s), SinRepetir(s)
    PROVE  /\ Append(s, q) \in Seq(Nat) /\ SinRepetir(Append(s, q))
           /\ Elems(Append(s, q)) = Elems(s) \cup {q}
<1>1. Append(s, q) \in Seq(Nat)
  OBVIOUS
<1> QED BY <1>1, AlFinalDeCola

\* Devolver, when the process is blocked.
LEMMA AlBloquear ==
    ASSUME InvE, cpu # Libre, NEW q, q = cpu.pcb.pid, NEW pcb, BuenPcb(pcb, q),
           pcb.socket_consola = cpu.pcb.socket_consola, TrasLaCpu,
           NEW trabajo \in {"page fault", "pedir", "dispositivo"}, Bloquear(pcb, trabajo),
           trabajo = "pedir" => UltimaEsDeConsola(pcb)
    PROVE  InvE'
<1> DEFINE n == [pcb EXCEPT !.estado = "BLOCK"]
<1>1. /\ q \notin DOMAIN pcbs /\ q \notin Elems(cola_new) /\ q \notin Elems(cola_ready)
      /\ q \notin Elems(cola_dispositivo) /\ q \notin Elems(cola_exit)
      /\ hilo[q] = "ninguno" /\ Vive(q) /\ EnCpuEsta(q) /\ q \in Pids /\ q \in Nat
      /\ Socket(q) = cpu.pcb.socket_consola
  BY EnSuLugar
<1>2. BuenPcb(n, q) /\ Quieto(n, pcb) /\ pcb.pid = q
  <2>1. BuenPcb(n, q) /\ Quieto(n, pcb)
    BY CambiaEstado
  <2> QED BY <2>1 DEF BuenPcb
<1>3. /\ Guardar(n) /\ cola_ready' = cola_ready /\ cola_exit' = cola_exit
      /\ memoria' = memoria /\ haciaConsola' = haciaConsola
      /\ IF trabajo = "dispositivo"
         THEN cola_dispositivo' = Append(cola_dispositivo, q) /\ hilo' = hilo
         ELSE hilo' = [hilo EXCEPT ![q] = trabajo] /\ cola_dispositivo' = cola_dispositivo
  BY <1>2 DEF Bloquear
<1> HIDE DEF n
<1>4. UNCHANGED <<deConsolas, conexiones, consolaDe, pid_actual>> /\ EsMemoria(memoria')
      /\ multiprogramacion' = multiprogramacion
  BY <1>3, NoSeMueve DEF TrasLaCpu, deConsolas
<1>5. n.socket_consola = Socket(q)
  BY <1>1, <1>2 DEF Quieto, Igual
<1>6. trabajo = "pedir" => UltimaEsDeConsola(n)
  BY <1>2 DEF Quieto, Igual, UltimaEsDeConsola, obtener_ultima_instruccion
<1>7. CASE trabajo = "dispositivo"
  <2>1. cola_dispositivo' = Append(cola_dispositivo, q) /\ hilo' = hilo
    BY <1>3, <1>7
  <2>2. cola_dispositivo \in Seq(Nat) /\ SinRepetir(cola_dispositivo)
    BY NoSeMueve
  <2>3. q \in Nat /\ q \notin Elems(cola_dispositivo)
    BY <1>1
  <2>4. /\ cola_dispositivo' \in Seq(Nat) /\ SinRepetir(cola_dispositivo')
        /\ Elems(cola_dispositivo') = Elems(cola_dispositivo) \cup {q}
    BY <2>1, <2>2, <2>3, PidAlFinal
  <2>5. Elems(cola_dispositivo') = (Elems(cola_dispositivo) \ {q}) \cup {q}
    BY <2>4
  <2>6. Ubicado(q, n, "dispositivo")
    BY <1>1, <1>3, <2>1, <2>4, <2>5, NoSeMueve DEF Ubicado, TrasLaCpu
  <2>7. "dispositivo" \in Sitios \ {"exit"}
    BY DEF Sitios
  <2> QED BY <1>1, <1>2, <1>4, <1>5, <2>1, <2>6, <2>7, Movido
<1>8. CASE trabajo # "dispositivo"
  <2>1. hilo' = [hilo EXCEPT ![q] = trabajo] /\ cola_dispositivo' = cola_dispositivo
    BY <1>3, <1>8
  <2>2. /\ hilo' \in [Pids -> {"ninguno", "page fault", "pedir", "contestar"}]
        /\ \A p \in Pids \ {q} : hilo'[p] = hilo[p]
        /\ hilo'[q] = trabajo /\ trabajo # "contestar"
    BY <1>1, <1>8, <2>1, NoSeMueve
  <2>3. Ubicado(q, n, "hilo")
    BY <1>1, <1>3, <2>1, <2>2, NoSeMueve DEF Ubicado, TrasLaCpu
  <2>4. "hilo" \in Sitios \ {"exit"}
    BY DEF Sitios
  <2> QED BY <1>1, <1>2, <1>4, <1>5, <1>6, <2>2, <2>3, <2>4, Movido
<1> QED BY <1>7, <1>8

\* Devolver, when the process goes back to READY.
LEMMA AlVolverAReady ==
    ASSUME InvE, cpu # Libre, NEW q, q = cpu.pcb.pid, NEW pcb, BuenPcb(pcb, q),
           pcb.socket_consola = cpu.pcb.socket_consola, TrasLaCpu, PasarAReady(pcb),
           UNCHANGED <<cola_dispositivo, cola_exit, hilo, memoria, haciaConsola>>
    PROVE  InvE'
<1>1. /\ q \notin DOMAIN pcbs /\ q \notin Elems(cola_new) /\ q \notin Elems(cola_ready)
      /\ q \notin Elems(cola_dispositivo) /\ q \notin Elems(cola_exit)
      /\ hilo[q] = "ninguno" /\ Vive(q) /\ EnCpuEsta(q) /\ q \in Pids /\ q \in Nat
      /\ Socket(q) = cpu.pcb.socket_consola
  BY EnSuLugar
<1>2. PICK n : /\ BuenPcb(n, q) /\ Igual(n, pcb) /\ Guardar(n)
               /\ cola_ready' \in Seq(Nat) /\ SinRepetir(cola_ready')
               /\ Elems(cola_ready') = (Elems(cola_ready) \ {q}) \cup {q}
  BY <1>1, NoSeMueve, AReady
<1>3. UNCHANGED <<deConsolas, conexiones, consolaDe, pid_actual>> /\ EsMemoria(memoria')
      /\ multiprogramacion' = multiprogramacion
  BY NoSeMueve DEF TrasLaCpu, deConsolas
<1>4. n.socket_consola = Socket(q)
  BY <1>1, <1>2 DEF Igual
<1>5. Ubicado(q, n, "ready")
  BY <1>1, <1>2, NoSeMueve DEF Ubicado, TrasLaCpu
<1>6. "ready" \in Sitios \ {"exit"}
  BY DEF Sitios
<1> QED BY <1>1, <1>2, <1>3, <1>4, <1>5, <1>6, Movido

\* The types, when what is in the sockets, the descriptors or the PCBs change.
LEMMA TiposCon ==
    ASSUME Tipos, consola' = consola,
           DOMAIN haciaKernel' = Consolas, haciaKernel' = [c \in Consolas |-> haciaKernel'[c]],
           DOMAIN haciaConsola' = Consolas, haciaConsola' = [c \in Consolas |-> haciaConsola'[c]],
           fds' \in [Descriptores -> Consolas \cup {Cerrado}],
           aceptado' \in Descriptores \cup {Ninguno},
           pendientes' \in Seq(Consolas), SinRepetir(pendientes'),
           UNCHANGED <<consolaDe, pid_actual>>,
           multiprogramacion' \in Nat, EsMemoria(memoria'),
           hilo' \in [Pids -> {"ninguno", "page fault", "pedir", "contestar"}],
           DOMAIN pcbs' \subseteq 1..pid_actual', pcbs' = [p \in DOMAIN pcbs' |-> pcbs'[p]]
    PROVE  Tipos'
<1>1. EsMemoria(memoria)' /\ SinRepetir(pendientes)'
  BY DEF EsMemoria, SinRepetir
<1>2. consola' \in [Consolas -> Formas] /\ pid_actual' \in Nat
      /\ consolaDe' \in Seq(Consolas) /\ Len(consolaDe') = pid_actual' /\ SinRepetir(consolaDe)'
  BY DEF Tipos, SinRepetir
<1> QED BY <1>1, <1>2 DEF Tipos

\* What a console that has to end is told.
LEMMA AlDespedir ==
    ASSUME InvE, NEW q \in 1..pid_actual, Vive(q), q \notin Elems(cola_exit),
           hilo[q] # "contestar", NEW fd, fd = Socket(q), consola' = consola,
           haciaKernel' = haciaKernel, Enviar(fd, Codigo("FINALIZAR")),
           NEW c \in Consolas, c = consolaDe[q]
    PROVE  /\ Despedida(c)'
           /\ DOMAIN haciaConsola' = Consolas
           /\ haciaConsola' = [d \in Consolas |-> haciaConsola'[d]]
           /\ \A d \in Consolas \ {c} : haciaConsola'[d] = haciaConsola[d]
<1>1. Tipos /\ Pcbs /\ Mensajes /\ Conexiones
  BY DEF InvE
<1>3. DOMAIN haciaConsola = Consolas /\ haciaConsola = [d \in Consolas |-> haciaConsola[d]]
      /\ consola \in [Consolas -> Formas] /\ Cerrado \notin Consolas
  BY <1>1, EjecucionAssumption DEF Tipos
<1>4. EnSilencio(c)
  BY SegunTrato DEF Acabo
<1>5. fds[fd] = c \/ fds[fd] = Cerrado
  BY <1>1 DEF Conexiones, Conectados, Conectado
<1>6. CASE fds[fd] # Cerrado /\ ~Terminada(fds[fd])
  <2>1. fds[fd] = c /\ consola[c] = "atiende"
    BY <1>4, <1>5, <1>6 DEF EnSilencio, Terminada
  <2>2. haciaConsola' = [haciaConsola EXCEPT ![c] = Codigo("FINALIZAR")]
    <3>1. haciaConsola[c] = <<>> /\ <<>> \o Codigo("FINALIZAR") = Codigo("FINALIZAR")
      BY <1>4, CodigoSolo DEF EnSilencio
    <3> QED BY <1>6, <2>1, <3>1 DEF Enviar
  <2>3. haciaConsola'[c] = Codigo("FINALIZAR") /\ DOMAIN haciaConsola' = Consolas
        /\ haciaConsola' = [d \in Consolas |-> haciaConsola'[d]]
        /\ \A d \in Consolas \ {c} : haciaConsola'[d] = haciaConsola[d]
    BY <1>3, <2>2
  <2>4. haciaKernel'[c] = <<>> /\ consola'[c] = "atiende"
    BY <1>4, <2>1 DEF EnSilencio
  <2>5. Despedida(c)'
    BY <2>3, <2>4 DEF Despedida
  <2> QED BY <2>3, <2>5
<1>7. CASE fds[fd] = Cerrado \/ Terminada(fds[fd])
  <2>1. haciaConsola' = haciaConsola
    BY <1>7 DEF Enviar
  <2>2. haciaKernel'[c] = <<>> /\ consola'[c] \in {"atiende", "muerta"} /\ haciaConsola'[c] = <<>>
    BY <1>4, <2>1 DEF EnSilencio
  <2>3. Despedida(c)'
    BY <2>2 DEF Despedida
  <2>4. /\ DOMAIN haciaConsola' = Consolas
        /\ haciaConsola' = [d \in Consolas |-> haciaConsola'[d]]
        /\ \A d \in Consolas \ {c} : haciaConsola'[d] = haciaConsola[d]
    BY <1>3, <2>1
  <2> QED BY <2>3, <2>4
<1> QED BY <1>6, <1>7

\* Devolver, when the process ends: the console is told, and nothing else is in its socket.
LEMMA AlFinalizar ==
    ASSUME InvE, cpu # Libre, NEW q, q = cpu.pcb.pid, NEW pcb, BuenPcb(pcb, q),
           pcb.socket_consola = cpu.pcb.socket_consola, TrasLaCpu, Finalizar(pcb),
           Terminado(pcb)
    PROVE  InvE'
<1> DEFINE n == [pcb EXCEPT !.estado = "FINISH_EXIT"]
           r == AtenderLiberarEstructuras(memoria,
                    Buffer(ValorConCodigo(pcb.pid, "LIBERAR_ESTRUCTURAS")))
<1>1. /\ q \notin DOMAIN pcbs /\ q \notin Elems(cola_new) /\ q \notin Elems(cola_ready)
      /\ q \notin Elems(cola_dispositivo) /\ q \notin Elems(cola_exit) /\ q \in 1..pid_actual
      /\ hilo[q] = "ninguno" /\ Vive(q) /\ EnCpuEsta(q) /\ q \in Pids /\ q \in Nat
      /\ Socket(q) = cpu.pcb.socket_consola
  BY EnSuLugar
<1>2. BuenPcb(n, q) /\ Quieto(n, pcb) /\ pcb.pid = q
  <2>1. BuenPcb(n, q) /\ Quieto(n, pcb)
    BY CambiaEstado
  <2> QED BY <2>1 DEF BuenPcb
<1>3. EsMemoria(r.mem) /\ Operacion(r.respuesta) = "OKI_LIBERAR_ESTRUCTURAS"
  BY NoSeMueve, LiberarForma
<1>4. /\ Guardar(n) /\ cola_ready' = cola_ready /\ cola_exit' = Append(cola_exit, q)
      /\ memoria' = r.mem /\ cola_dispositivo' = cola_dispositivo /\ hilo' = hilo
      /\ Enviar(pcb.socket_consola, Codigo("FINALIZAR"))
  BY <1>2, <1>3 DEF Finalizar
<1> HIDE DEF n, r
<1>5. Tipos /\ Colas /\ EnUnLugar /\ Pcbs /\ Conexiones /\ Mensajes /\ GradoExacto
  BY DEF InvE
<1>6. n.socket_consola = Socket(q) /\ Terminado(n)
  BY <1>1, <1>2 DEF Quieto, Igual, Terminado
<1>7. /\ cola_exit' \in Seq(Nat) /\ SinRepetir(cola_exit')
      /\ Elems(cola_exit') = Elems(cola_exit) \cup {q}
  <2>1. cola_exit \in Seq(Nat) /\ SinRepetir(cola_exit) /\ q \in Nat /\ q \notin Elems(cola_exit)
    BY <1>1, NoSeMueve
  <2> QED BY <1>4, <2>1, PidAlFinal
<1>8. Ubicado(q, n, "exit")
  BY <1>1, <1>4, <1>7, NoSeMueve DEF Ubicado, TrasLaCpu
<1>9. "exit" \in Sitios /\ pid_actual' = pid_actual /\ consolaDe' = consolaDe
  BY DEF Sitios, TrasLaCpu
<1>10. /\ Colas' /\ EnUnLugar' /\ Pcbs'
       /\ DOMAIN pcbs' \subseteq 1..pid_actual' /\ pcbs' = [p \in DOMAIN pcbs' |-> pcbs'[p]]
       /\ \A p : (Vive(p)' <=> Vive(p) \/ p = q)
       /\ \A p : p # q => (Acabo(p)' <=> Acabo(p)) /\ (Vive(p) => PcbDe(p)' = PcbDe(p))
       /\ \A p : p # q /\ p \in DOMAIN pcbs => pcbs'[p] = pcbs[p]
       /\ Acabo(q)' /\ PcbDe(q)' = n
  <2>1. hilo'[q] \notin {"pedir", "contestar"}
    BY <1>1, <1>4
  <2> QED BY <1>1, <1>2, <1>5, <1>6, <1>8, <1>9, <2>1, Ubica
<1>11. PICK c \in Consolas : c = consolaDe[q]
  BY <1>1, <1>5, PidsAlcanzan
<1>12. consola' = consola /\ haciaKernel' = haciaKernel /\ UNCHANGED conexiones
       /\ multiprogramacion' = multiprogramacion /\ cola_new' = cola_new
  BY DEF TrasLaCpu
<1>13. /\ Despedida(c)' /\ DOMAIN haciaConsola' = Consolas
       /\ haciaConsola' = [d \in Consolas |-> haciaConsola'[d]]
       /\ \A d \in Consolas \ {c} : haciaConsola'[d] = haciaConsola[d]
  <2>1. PICK fd : fd = Socket(q)
    OBVIOUS
  <2>2. Enviar(fd, Codigo("FINALIZAR"))
    BY <1>1, <1>4, <2>1
  <2> QED BY <1>1, <1>11, <1>12, <2>1, <2>2, AlDespedir
<1>14. Tipos'
  <2>1. /\ fds' \in [Descriptores -> Consolas \cup {Cerrado}]
        /\ aceptado' \in Descriptores \cup {Ninguno}
        /\ pendientes' \in Seq(Consolas) /\ SinRepetir(pendientes')
        /\ multiprogramacion' \in Nat
        /\ hilo' \in [Pids -> {"ninguno", "page fault", "pedir", "contestar"}]
    BY <1>4, <1>5, <1>12 DEF Tipos, conexiones
  <2>2. DOMAIN haciaKernel' = Consolas /\ haciaKernel' = [d \in Consolas |-> haciaKernel'[d]]
    BY <1>5, <1>12 DEF Tipos
  <2>3. EsMemoria(memoria')
    BY <1>3, <1>4
  <2> QED BY <1>5, <1>9, <1>10, <1>12, <1>13, <2>1, <2>2, <2>3, TiposCon
<1>15. \A p \in 1..pid_actual : Socket(p)' = Socket(p) \/ ~Vive(p)'
  <2>1. ASSUME NEW p \in 1..pid_actual, Vive(p)' PROVE Socket(p)' = Socket(p)
    <3>1. CASE p = q
      BY <1>6, <1>10, <3>1 DEF Socket
    <3>2. CASE p # q
      BY <1>10, <2>1, <3>2 DEF Socket
    <3> QED BY <3>1, <3>2
  <2> QED BY <2>1
<1>16. Conexiones'
  <2>1. \A d \in Consolas :
              /\ consola[d] = "muerta" => consola'[d] = "muerta" /\ haciaKernel'[d] = haciaKernel[d]
              /\ consola[d] # "sin iniciar" => consola'[d] # "sin iniciar"
    BY <1>5, <1>12
  <2>2. \A p \in 1..pid_actual : Vive(p)' => Vive(p) /\ Socket(p)' = Socket(p)
    BY <1>1, <1>10, <1>15
  <2> QED BY <1>5, <1>9, <1>12, <2>1, <2>2, ConexionesQuietas
<1>17. Mensajes'
  <2>1. \A d \in Consolas \ {c} : consola'[d] = consola[d] /\ haciaKernel'[d] = haciaKernel[d]
                                     /\ haciaConsola'[d] = haciaConsola[d]
    BY <1>12, <1>13
  <2>2. ASSUME NEW p \in 1..pid_actual, consolaDe[p] # c
        PROVE  /\ (Acabo(p)' <=> Acabo(p))
               /\ ~Acabo(p) => /\ (hilo'[p] = "contestar" <=> hilo[p] = "contestar")
                               /\ hilo[p] = "contestar" => pcbs'[p] = pcbs[p]
    <3>1. p # q /\ p \in Pids
      BY <1>5, <1>11, <2>2, PidsAlcanzan
    <3>2. hilo[p] = "contestar" => p \in DOMAIN pcbs
      BY <3>1, EnSuLugar
    <3> QED BY <1>4, <1>10, <3>1, <3>2
  <2>3. c \in Elems(consolaDe)
    BY <1>1, <1>5, <1>11, ProcesosDe
  <2>4. ASSUME NEW p \in 1..pid_actual, consolaDe[p] = c PROVE Trato(p)'
    <3>1. p = q
      BY <1>1, <1>5, <1>11, <2>4, PidsAlcanzan
    <3>2. consolaDe'[p] = c /\ Acabo(p)'
      BY <1>9, <1>10, <2>4, <3>1
    <3> QED BY <1>13, <3>2 DEF Trato, Despedida
  <2> QED BY <1>5, <1>9, <2>1, <2>2, <2>3, <2>4, DichoAUno
<1>18. GradoExacto'
  <2>1. Elems(cola_new)' = Elems(cola_new)
    BY <1>12 DEF Elems
  <2>2. \A p : Admitido(p)' <=> Vive(p)' /\ p \notin Elems(cola_new)'
    BY DEF Admitido, Elems
  <2>3. \A p : Admitido(p)' <=> Admitido(p)
    BY <1>1, <1>10, <2>1, <2>2, AdmitidoEs
  <2> QED BY <1>1, <1>5, <1>9, <1>12, <2>3, CuentasCon
<1> QED BY <1>10, <1>14, <1>16, <1>17, <1>18 DEF InvE

\* Devolver keeps InvE: it is directed by the instruction the counter left behind.
LEMMA AlDevolver == ASSUME InvE, Devolver PROVE InvE'
<1> DEFINE recibido == PorDispatch(cpu.pcb)
<1>1. cpu.estado = "devuelve" /\ cpu # Libre
  <2>1. cpu.estado = "devuelve"
    BY DEF Devolver
  <2> QED BY <2>1 DEF Libre
<1>2. PICK q : q = cpu.pcb.pid
  OBVIOUS
<1>3. BuenPcb(cpu.pcb, q)
  BY <1>1, <1>2, EnSuLugar
<1>4. BuenPcb(recibido, q) /\ Quieto(recibido, cpu.pcb)
      /\ recibido.page_fault = cpu.pcb.page_fault
  BY <1>3, Viaja
<1>5. PICK pcb : pcb = IF recibido.interrupcion
               THEN [recibido EXCEPT !.interrupcion = FALSE, !.con_desalojo = FALSE] ELSE recibido
  OBVIOUS
<1>6. LET ultima == obtener_ultima_instruccion(pcb)
          fallo == pcb.segmentation_fault \/ pcb.page_fault
      IN CASE pcb.page_fault -> Bloquear(pcb, "page fault")
         [] pcb.segmentation_fault -> Finalizar(pcb)
         [] ~fallo /\ ultima.operacion = "EXIT" -> Finalizar(pcb)
         [] ~fallo /\ ultima.operacion = "IO" ->
              Bloquear(pcb, IF EsDeConsola(ultima) THEN "pedir" ELSE "dispositivo")
         [] OTHER -> /\ PasarAReady(pcb)
                     /\ UNCHANGED <<cola_dispositivo, cola_exit, hilo, memoria, haciaConsola>>
  BY <1>5 DEF Devolver
<1>7. TrasLaCpu
  BY DEF Devolver, TrasLaCpu, historia
<1> HIDE DEF recibido
<1>8. BuenPcb(pcb, q) /\ Quieto(pcb, cpu.pcb) /\ pcb.page_fault = cpu.pcb.page_fault
  <2>1. CASE recibido.interrupcion
    <3>1. pcb = [recibido EXCEPT !.interrupcion = FALSE, !.con_desalojo = FALSE]
      BY <1>5, <2>1
    <3>2. BuenPcb(pcb, q) /\ Quieto(pcb, recibido) /\ pcb.page_fault = recibido.page_fault
      BY <1>4, <3>1, InterrupcionAtendida
    <3> QED BY <1>4, <3>2 DEF Quieto, Igual
  <2>2. CASE ~recibido.interrupcion
    BY <1>4, <1>5, <2>2
  <2> QED BY <2>1, <2>2
<1>9. pcb.socket_consola = cpu.pcb.socket_consola
  BY <1>8 DEF Quieto, Igual
<1>10. pcb.page_fault \/ pcb.segmentation_fault \/ pcb.program_counter >= 1
  BY <1>1, <1>8 DEF InvE, Pcbs, EnCpuBien, Quieto, Igual
<1> DEFINE ultima == obtener_ultima_instruccion(pcb)
           fallo == pcb.segmentation_fault \/ pcb.page_fault
<1> HIDE DEF ultima
<1>11. \/ Bloquear(pcb, "page fault")
       \/ (pcb.segmentation_fault \/ (~fallo /\ ultima.operacion = "EXIT")) /\ Finalizar(pcb)
       \/ ~fallo /\ EsDeConsola(ultima) /\ Bloquear(pcb, "pedir")
       \/ Bloquear(pcb, "dispositivo")
       \/ PasarAReady(pcb) /\ UNCHANGED <<cola_dispositivo, cola_exit, hilo, memoria, haciaConsola>>
  BY <1>6 DEF ultima
<1>12. CASE Bloquear(pcb, "page fault")
  BY <1>1, <1>2, <1>7, <1>8, <1>9, <1>12, AlBloquear
<1>13. CASE (pcb.segmentation_fault \/ (~fallo /\ ultima.operacion = "EXIT")) /\ Finalizar(pcb)
  <2>1. Terminado(pcb)
    BY <1>8, <1>10, <1>13 DEF Terminado, BuenPcb, EsPrograma, ultima, obtener_ultima_instruccion
  <2> QED BY <1>1, <1>2, <1>7, <1>8, <1>9, <1>13, <2>1, AlFinalizar
<1>14. CASE ~fallo /\ EsDeConsola(ultima) /\ Bloquear(pcb, "pedir")
  <2>1. UltimaEsDeConsola(pcb)
    BY <1>10, <1>14 DEF UltimaEsDeConsola, ultima
  <2> QED BY <1>1, <1>2, <1>7, <1>8, <1>9, <1>14, <2>1, AlBloquear
<1>15. CASE Bloquear(pcb, "dispositivo")
  BY <1>1, <1>2, <1>7, <1>8, <1>9, <1>15, AlBloquear
<1>16. CASE PasarAReady(pcb)
            /\ UNCHANGED <<cola_dispositivo, cola_exit, hilo, memoria, haciaConsola>>
  BY <1>1, <1>2, <1>7, <1>8, <1>9, <1>16, AlVolverAReady
<1> QED BY <1>11, <1>12, <1>13, <1>14, <1>15, <1>16

-----------------------------------------------------------------------------
(* The PCB leaves the heap *)

\* The PCB of q leaves the heap, to the CPU or for good.
LEMMA Quita ==
    ASSUME InvE, NEW q \in DOMAIN pcbs, pcbs' = Restrict(pcbs, DOMAIN pcbs \ {q}),
           cola_new' = cola_new, cola_dispositivo' = cola_dispositivo, hilo' = hilo,
           hilo[q] = "ninguno", q \notin Elems(cola_new), q \notin Elems(cola_dispositivo),
           cola_ready' \in Seq(Nat), SinRepetir(cola_ready'),
           Elems(cola_ready') = Elems(cola_ready) \ {q},
           cola_exit' \in Seq(Nat), SinRepetir(cola_exit'),
           Elems(cola_exit') = Elems(cola_exit) \ {q}
    PROVE  /\ Colas' /\ EnUnLugar' /\ (EnCpuBien' => Pcbs')
           /\ DOMAIN pcbs' = DOMAIN pcbs \ {q} /\ \A p \in DOMAIN pcbs \ {q} : pcbs'[p] = pcbs[p]
           /\ pcbs' = [p \in DOMAIN pcbs' |-> pcbs'[p]]
<1>1. /\ DOMAIN pcbs' = DOMAIN pcbs \ {q} /\ \A p \in DOMAIN pcbs \ {q} : pcbs'[p] = pcbs[p]
      /\ pcbs' = [p \in DOMAIN pcbs' |-> pcbs'[p]]
  BY DEF Restrict
<1>2. Tipos /\ Colas /\ EnUnLugar /\ Pcbs
  BY DEF InvE
<1>3. /\ Elems(cola_new)' = Elems(cola_new) /\ Elems(cola_ready)' = Elems(cola_ready) \ {q}
      /\ Elems(cola_dispositivo)' = Elems(cola_dispositivo)
      /\ Elems(cola_exit)' = Elems(cola_exit) \ {q}
  BY DEF Elems
<1>4. Bloqueados' = Bloqueados /\ q \notin Bloqueados
  BY DEF Bloqueados
<1>5. Colas'
  BY <1>2 DEF Colas, SinRepetir
<1>6. EnUnLugar'
  <2> DEFINE N == Elems(cola_new)
             R == Elems(cola_ready)
             D == Elems(cola_dispositivo)
             X == Elems(cola_exit)
             B == Bloqueados
  <2>1. /\ N \cap R = {} /\ N \cap D = {} /\ N \cap X = {} /\ N \cap B = {} /\ R \cap D = {}
        /\ R \cap X = {} /\ R \cap B = {} /\ D \cap X = {} /\ D \cap B = {} /\ X \cap B = {}
        /\ N \subseteq DOMAIN pcbs /\ R \subseteq DOMAIN pcbs /\ D \subseteq DOMAIN pcbs
        /\ X \subseteq DOMAIN pcbs /\ B \subseteq DOMAIN pcbs
        /\ q \notin N /\ q \notin D /\ q \notin B
    BY <1>2, <1>4 DEF EnUnLugar
  <2>2. Elems(cola_new)' = N /\ Elems(cola_ready)' = R \ {q} /\ Elems(cola_dispositivo)' = D
        /\ Elems(cola_exit)' = X \ {q} /\ Bloqueados' = B
    BY <1>3, <1>4
  <2> HIDE DEF N, R, D, X, B
  <2> DEFINE N1 == Elems(cola_new)'
             R1 == Elems(cola_ready)'
             D1 == Elems(cola_dispositivo)'
             X1 == Elems(cola_exit)'
             B1 == Bloqueados'
  <2>3. N1 = N /\ R1 = R \ {q} /\ D1 = D /\ X1 = X \ {q} /\ B1 = B
    BY <2>2
  <2> HIDE DEF N1, R1, D1, X1, B1
  <2>4. /\ N1 \cap R1 = {} /\ N1 \cap D1 = {} /\ N1 \cap X1 = {} /\ N1 \cap B1 = {}
        /\ R1 \cap D1 = {} /\ R1 \cap X1 = {} /\ R1 \cap B1 = {} /\ D1 \cap X1 = {}
        /\ D1 \cap B1 = {} /\ X1 \cap B1 = {}
    BY ONLY <2>1, <2>3
  <2>5. /\ N1 \subseteq DOMAIN pcbs' /\ R1 \subseteq DOMAIN pcbs' /\ D1 \subseteq DOMAIN pcbs'
        /\ X1 \subseteq DOMAIN pcbs' /\ B1 \subseteq DOMAIN pcbs'
    BY <1>1, <2>1, <2>3
  <2> QED BY ONLY <2>4, <2>5 DEF EnUnLugar, N1, R1, D1, X1, B1
<1>7. ASSUME EnCpuBien' PROVE Pcbs'
  <2>1. ASSUME NEW p \in DOMAIN pcbs' PROVE BuenPcb(pcbs'[p], p)
    BY <1>1, <1>2 DEF Pcbs
  <2>2. ASSUME NEW p \in Elems(cola_exit)' PROVE Terminado(pcbs'[p])
    BY <1>1, <1>2, <1>3 DEF Pcbs, EnUnLugar
  <2>3. ASSUME NEW p \in Elems(cola_new)'
        PROVE  pcbs'[p] = pcbs[p] /\ p \in Elems(cola_new)
    BY <1>1, <1>2, <1>3 DEF EnUnLugar
  <2>4. ASSUME NEW p \in Pids, hilo'[p] \in {"pedir", "contestar"}
        PROVE  UltimaEsDeConsola(pcbs'[p])
    BY <1>1, <1>2, <2>4 DEF Pcbs, EnUnLugar, Bloqueados
  <2>5. \A p \in Elems(cola_new)' : EsLista(pcbs'[p].tamanio_segmentos)
            /\ \A i \in DOMAIN pcbs'[p].tamanio_segmentos : EsTexto(pcbs'[p].tamanio_segmentos[i])
    BY <1>2, <2>3 DEF Pcbs
  <2> QED BY <1>7, <2>1, <2>2, <2>4, <2>5 DEF Pcbs
<1> QED BY <1>1, <1>5, <1>6, <1>7

\* Rajar keeps InvE: the place it gives back is that of the process it destroys.
LEMMA AlRajar == ASSUME InvE, Rajar PROVE InvE'
<1> DEFINE q == Head(cola_exit)
<1>1. /\ cola_exit # <<>> /\ cola_exit' = Tail(cola_exit)
      /\ pcbs' = Restrict(pcbs, DOMAIN pcbs \ {q})
      /\ multiprogramacion' = multiprogramacion + 1 /\ hilo' = hilo /\ memoria' = memoria
      /\ cola_new' = cola_new /\ cola_ready' = cola_ready
      /\ cola_dispositivo' = cola_dispositivo /\ cpu' = cpu
      /\ UNCHANGED <<deConsolas, conexiones, consolaDe, pid_actual>>
  BY DEF Rajar, SoltarUnidad, historia
<1>2. cola_exit \in Seq(Nat) /\ SinRepetir(cola_exit)
  BY NoSeMueve
<1>3. /\ q \in Elems(cola_exit) /\ Elems(cola_exit') = Elems(cola_exit) \ {q}
      /\ SinRepetir(cola_exit') /\ cola_exit' \in Seq(Nat)
  BY <1>1, <1>2, Cabeza
<1> HIDE DEF q
<1>4. /\ q \in DOMAIN pcbs /\ q \notin Elems(cola_new) /\ q \notin Elems(cola_ready)
      /\ q \notin Elems(cola_dispositivo) /\ hilo[q] = "ninguno"
      /\ Vive(q) /\ ~EnCpuEsta(q) /\ q \in 1..pid_actual
  BY <1>3, EnSuLugar
<1>5. Tipos /\ Colas /\ EnUnLugar /\ Pcbs /\ Conexiones /\ Mensajes /\ GradoExacto
  BY DEF InvE
<1>6. /\ Colas' /\ EnUnLugar' /\ (EnCpuBien' => Pcbs')
      /\ DOMAIN pcbs' = DOMAIN pcbs \ {q} /\ \A p \in DOMAIN pcbs \ {q} : pcbs'[p] = pcbs[p]
      /\ pcbs' = [p \in DOMAIN pcbs' |-> pcbs'[p]]
  <2>1. /\ cola_ready' \in Seq(Nat) /\ SinRepetir(cola_ready')
        /\ Elems(cola_ready') = Elems(cola_ready) \ {q}
    BY <1>1, <1>4, NoSeMueve
  <2> QED BY <1>1, <1>3, <1>4, <2>1, Quita
<1>7. EnCpuBien'
  BY <1>1, <1>5, <1>6 DEF Pcbs, EnCpuBien
<1>8. Tipos'
  <2>1. /\ multiprogramacion' \in Nat /\ EsMemoria(memoria')
        /\ hilo' \in [Pids -> {"ninguno", "page fault", "pedir", "contestar"}]
    <3>1. multiprogramacion \in Nat
      BY <1>5 DEF Tipos
    <3>2. multiprogramacion + 1 \in Nat
      BY <3>1
    <3> QED BY <1>1, <3>2, NoSeMueve
  <2>2. DOMAIN pcbs' \subseteq 1..pid_actual'
    BY <1>1, <1>5, <1>6 DEF Tipos
  <2> QED BY <1>1, <1>5, <1>6, <2>1, <2>2, TiposSiguen
<1>9. /\ \A p : Vive(p)' <=> Vive(p) /\ p # q
      /\ \A p : Vive(p)' => PcbDe(p)' = PcbDe(p)
  BY <1>1, <1>4, <1>6 DEF Vive, EnCpuEsta, PcbDe
<1>10. \A p : Acabo(p)' <=> Acabo(p)
  <2>1. Elems(cola_exit)' = Elems(cola_exit) \ {q}
    BY <1>3 DEF Elems
  <2> QED BY <1>3, <1>9, <2>1 DEF Acabo
<1>11. Conexiones' /\ Mensajes'
  <2>1. ASSUME NEW p \in 1..pid_actual
        PROVE  /\ Vive(p)' => Vive(p) /\ Socket(p)' = Socket(p)
               /\ (Acabo(p)' <=> Acabo(p))
               /\ ~Acabo(p) => /\ (hilo'[p] = "contestar" <=> hilo[p] = "contestar")
                               /\ hilo[p] = "contestar" => pcbs'[p] = pcbs[p]
    <3>1. p \in Pids
      BY <1>5, PidsAlcanzan
    <3>2. hilo[p] = "contestar" => p \in DOMAIN pcbs /\ p # q
      BY <1>4, <3>1, EnSuLugar
    <3> QED BY <1>1, <1>6, <1>9, <1>10, <3>2 DEF Socket
  <2> QED BY <1>1, <1>5, <2>1, SocketsQuietos
<1>12. GradoExacto'
  <2>1. Elems(cola_new)' = Elems(cola_new)
    BY <1>1 DEF Elems
  <2>2. \A p : Admitido(p)' <=> Vive(p)' /\ p \notin Elems(cola_new)'
    BY DEF Admitido, Elems
  <2>3. \A p : Admitido(p)' <=> Admitido(p) /\ p # q
    BY <1>9, <2>1, <2>2, AdmitidoEs
  <2>4. Admitido(q)
    BY <1>4, AdmitidoEs
  <2> QED BY <1>1, <1>4, <1>5, <2>3, <2>4, CuentasCon
<1> QED BY <1>6, <1>7, <1>8, <1>11, <1>12 DEF InvE

\* A PCB the CPU may hold.
Ejecutable(x, q) ==
    /\ x = [estado |-> x.estado, pcb |-> x.pcb] /\ x.estado \in {"ejecuta", "devuelve"}
    /\ x # Libre /\ x.pcb.pid = q /\ BuenPcb(x.pcb, q)
    /\ x.estado = "ejecuta" => x.pcb.program_counter < Len(x.pcb.instrucciones)
    /\ \/ x.estado = "ejecuta" \/ x.pcb.page_fault \/ x.pcb.segmentation_fault
       \/ x.pcb.program_counter >= 1

\* The CPU holds any PCB that reaches it.
LEMMA EnCpuEs ==
    ASSUME NEW q, NEW pcb, BuenPcb(pcb, q)
    PROVE  Ejecutable(EnCpu(pcb), q) /\ EnCpu(pcb).pcb = pcb
<1> DEFINE x == EnCpu(pcb)
<1>1. /\ x.pcb = pcb /\ x = [estado |-> x.estado, pcb |-> x.pcb]
      /\ x.estado = IF pcb.program_counter < Len(pcb.instrucciones) THEN "ejecuta" ELSE "devuelve"
  BY DEF EnCpu
<1>2. x # Libre
  BY <1>1 DEF Libre
<1>3. pcb.pid = q /\ pcb.program_counter \in 0..Len(pcb.instrucciones)
      /\ Len(pcb.instrucciones) \in Nat /\ Len(pcb.instrucciones) >= 1
  <2>1. EsLista(pcb.instrucciones) /\ pcb.instrucciones # <<>>
    BY DEF BuenPcb, EsPrograma
  <2>2. pcb.instrucciones \in Seq({pcb.instrucciones[i] : i \in DOMAIN pcb.instrucciones})
    BY <2>1 DEF EsLista
  <2> QED BY <2>1, <2>2 DEF BuenPcb
<1> HIDE DEF x
<1>4. Ejecutable(x, q)
  BY <1>1, <1>2, <1>3 DEF Ejecutable
<1> QED BY <1>1, <1>4 DEF x

-----------------------------------------------------------------------------
(* The CPU *)

\* Despachar keeps InvE: what the CPU has is what the kernel sent.
LEMMA AlDespachar == ASSUME InvE, Despachar PROVE InvE'
<1>0. PICK q : q = Head(cola_ready)
  OBVIOUS
<1> DEFINE enviado == [pcbs[q] EXCEPT !.estado = "EXEC"]
           r == PorDispatch(enviado)
<1>1. /\ cpu = Libre /\ cola_ready # <<>> /\ cola_ready' = Tail(cola_ready)
      /\ cpu' = EnCpu(r) /\ pcbs' = Restrict(pcbs, DOMAIN pcbs \ {q})
      /\ multiprogramacion' = multiprogramacion /\ hilo' = hilo /\ memoria' = memoria
      /\ cola_new' = cola_new /\ cola_exit' = cola_exit
      /\ cola_dispositivo' = cola_dispositivo
      /\ UNCHANGED <<deConsolas, conexiones, consolaDe, pid_actual>>
  BY <1>0 DEF Despachar, PuedeDespachar, historia
<1>2. cola_ready \in Seq(Nat) /\ SinRepetir(cola_ready)
  BY NoSeMueve
<1>3. /\ q \in Elems(cola_ready) /\ Elems(cola_ready') = Elems(cola_ready) \ {q}
      /\ SinRepetir(cola_ready') /\ cola_ready' \in Seq(Nat)
  BY <1>0, <1>1, <1>2, Cabeza
<1>4. /\ q \in DOMAIN pcbs /\ q \notin Elems(cola_new) /\ q \notin Elems(cola_exit)
      /\ q \notin Elems(cola_dispositivo) /\ hilo[q] = "ninguno"
      /\ Vive(q) /\ ~EnCpuEsta(q) /\ q \in 1..pid_actual
      /\ BuenPcb(pcbs[q], q) /\ Socket(q) = pcbs[q].socket_consola
  BY <1>3, EnSuLugar
<1>5. Tipos /\ Colas /\ EnUnLugar /\ Pcbs /\ Conexiones /\ Mensajes /\ GradoExacto
  BY DEF InvE
<1>6. /\ Colas' /\ EnUnLugar' /\ (EnCpuBien' => Pcbs')
      /\ DOMAIN pcbs' = DOMAIN pcbs \ {q} /\ \A p \in DOMAIN pcbs \ {q} : pcbs'[p] = pcbs[p]
      /\ pcbs' = [p \in DOMAIN pcbs' |-> pcbs'[p]]
  <2>1. /\ cola_exit' \in Seq(Nat) /\ SinRepetir(cola_exit')
        /\ Elems(cola_exit') = Elems(cola_exit) \ {q}
    <3>1. Elems(cola_exit) = Elems(cola_exit) \ {q}
      BY <1>4
    <3> QED BY <1>1, <3>1, NoSeMueve
  <2> QED BY <1>1, <1>3, <1>4, <2>1, Quita
<1>7. BuenPcb(r, q) /\ r.socket_consola = Socket(q)
  <2>1. BuenPcb(enviado, q) /\ Quieto(enviado, pcbs[q])
    BY <1>4, CambiaEstado
  <2>2. BuenPcb(r, q) /\ Quieto(r, enviado)
    <3> HIDE DEF enviado
    <3> QED BY <2>1, Viaja
  <2> HIDE DEF r, enviado
  <2> QED BY <1>4, <2>1, <2>2 DEF Quieto, Igual
<1> HIDE DEF r, enviado
<1>8. Ejecutable(cpu', q) /\ cpu'.pcb = r
  BY <1>1, <1>7, EnCpuEs
<1>9. q \in (1..pid_actual') \ DOMAIN pcbs'
  BY <1>1, <1>4, <1>6
<1>10. EnCpuBien'
  BY <1>8, <1>9 DEF EnCpuBien, Ejecutable
<1>11. Tipos'
  <2>1. /\ multiprogramacion' \in Nat /\ EsMemoria(memoria')
        /\ hilo' \in [Pids -> {"ninguno", "page fault", "pedir", "contestar"}]
    BY <1>1, NoSeMueve
  <2>2. DOMAIN pcbs' \subseteq 1..pid_actual'
    BY <1>1, <1>5, <1>6 DEF Tipos
  <2> QED BY <1>1, <1>5, <1>6, <2>1, <2>2, TiposSiguen
<1>12. cpu' # Libre /\ cpu'.pcb.pid = q
  BY <1>8 DEF Ejecutable
<1>13. /\ \A p : EnCpuEsta(p)' <=> p = q
       /\ \A p : ~EnCpuEsta(p)
  BY <1>1, <1>12 DEF EnCpuEsta
<1>14. \A p : Vive(p)' <=> Vive(p)
  BY <1>4, <1>6, <1>13 DEF Vive
<1>15. \A p : Vive(p) => Socket(p)' = Socket(p)
  <2>1. Socket(q)' = Socket(q)
    BY <1>7, <1>8, <1>12 DEF Socket, PcbDe, EnCpuEsta
  <2>2. ASSUME NEW p, Vive(p), p # q PROVE Socket(p)' = Socket(p)
    BY <1>1, <1>6, <1>12, <2>2 DEF Socket, PcbDe, Vive, EnCpuEsta
  <2> QED BY <2>1, <2>2
<1>16. \A p : Acabo(p)' <=> Acabo(p)
  <2>1. Elems(cola_exit)' = Elems(cola_exit)
    BY <1>1 DEF Elems
  <2> QED BY <1>14, <2>1 DEF Acabo
<1>17. Conexiones' /\ Mensajes'
  <2>1. ASSUME NEW p \in 1..pid_actual
        PROVE  /\ Vive(p)' => Vive(p) /\ Socket(p)' = Socket(p)
               /\ (Acabo(p)' <=> Acabo(p))
               /\ ~Acabo(p) => /\ (hilo'[p] = "contestar" <=> hilo[p] = "contestar")
                               /\ hilo[p] = "contestar" => pcbs'[p] = pcbs[p]
    <3>1. p \in Pids
      BY <1>5, PidsAlcanzan
    <3>2. hilo[p] = "contestar" => p \in DOMAIN pcbs /\ p # q
      BY <1>4, <3>1, EnSuLugar
    <3> QED BY <1>1, <1>6, <1>14, <1>15, <1>16, <3>2
  <2> QED BY <1>1, <1>5, <2>1, SocketsQuietos
<1>18. GradoExacto'
  <2>1. Elems(cola_new)' = Elems(cola_new)
    BY <1>1 DEF Elems
  <2>2. \A p : Admitido(p)' <=> Vive(p)' /\ p \notin Elems(cola_new)'
    BY DEF Admitido, Elems
  <2>3. \A p : Admitido(p)' <=> Admitido(p)
    BY <1>14, <2>1, <2>2, AdmitidoEs
  <2> QED BY <1>1, <1>4, <1>5, <2>3, CuentasCon
<1> QED BY <1>6, <1>10, <1>11, <1>17, <1>18 DEF InvE

\* The CPU goes on with the same PCB.
LEMMA SigueEnCpu ==
    ASSUME InvE, cpu # Libre, NEW q, q = cpu.pcb.pid, Ejecutable(cpu', q),
           cpu'.pcb.socket_consola = cpu.pcb.socket_consola,
           EsMemoria(memoria'), UNCHANGED <<deConsolas, conexiones, deKernel, consolaDe>>
    PROVE  InvE'
<1>1. Tipos /\ Colas /\ EnUnLugar /\ Pcbs /\ Conexiones /\ Mensajes /\ GradoExacto
  BY DEF InvE
<1>2. /\ pid_actual' = pid_actual /\ pcbs' = pcbs /\ cola_new' = cola_new
      /\ cola_ready' = cola_ready /\ cola_dispositivo' = cola_dispositivo
      /\ cola_exit' = cola_exit /\ multiprogramacion' = multiprogramacion /\ hilo' = hilo
      /\ UNCHANGED <<deConsolas, conexiones, consolaDe, pid_actual>>
  BY DEF deKernel, colas
<1>3. q \in (1..pid_actual) \ DOMAIN pcbs /\ Socket(q) = cpu.pcb.socket_consola
  BY EnSuLugar
<1>4. cpu' # Libre /\ cpu'.pcb.pid = q
  BY DEF Ejecutable
<1>5. \A p : (EnCpuEsta(p)' <=> p = q) /\ (EnCpuEsta(p) <=> p = q)
  BY <1>4 DEF EnCpuEsta
<1>6. /\ \A p : Vive(p)' <=> Vive(p)
      /\ \A p : Socket(p)' = Socket(p)
  BY <1>2, <1>5 DEF Vive, Socket, PcbDe
<1>7. Colas'
  BY <1>1, <1>2 DEF Colas, SinRepetir
<1>8. EnUnLugar'
  BY <1>1, <1>2 DEF EnUnLugar, Elems, Bloqueados
<1>9. EnCpuBien'
  BY <1>2, <1>3, <1>4 DEF EnCpuBien, Ejecutable
<1>10. Pcbs'
  BY <1>1, <1>2, <1>9 DEF Pcbs, Elems
<1>11. Tipos'
  <2>1. /\ multiprogramacion' \in Nat
        /\ hilo' \in [Pids -> {"ninguno", "page fault", "pedir", "contestar"}]
        /\ DOMAIN pcbs' \subseteq 1..pid_actual' /\ pcbs' = [p \in DOMAIN pcbs' |-> pcbs'[p]]
    BY <1>1, <1>2 DEF Tipos
  <2> QED BY <1>1, <1>2, <2>1, TiposSiguen
<1>12. Conexiones' /\ Mensajes'
  <2>1. \A p : Acabo(p)' <=> Acabo(p)
    BY <1>2, <1>6 DEF Acabo, Elems
  <2> QED BY <1>1, <1>2, <1>6, <2>1, SocketsQuietos
<1>13. GradoExacto'
  <2>1. \A p : Admitido(p)' <=> Admitido(p)
    BY <1>2, <1>6 DEF Admitido
  <2> QED BY <1>1, <1>2, <1>3, <2>1, CuentasCon
<1> QED BY <1>7, <1>8, <1>10, <1>11, <1>12, <1>13 DEF InvE

\* EjecutarInstruccion keeps InvE.
LEMMA AlEjecutar == ASSUME InvE, EjecutarInstruccion PROVE InvE'
<1>1. cpu.estado = "ejecuta" /\ UNCHANGED <<deConsolas, conexiones, deKernel, consolaDe>>
  BY DEF EjecutarInstruccion
<1>2. cpu # Libre
  BY <1>1 DEF Libre
<1>3. PICK q : q = cpu.pcb.pid
  OBVIOUS
<1>4. PICK pcb : pcb = cpu.pcb
  OBVIOUS
<1>5. BuenPcb(pcb, q) /\ pcb.program_counter < Len(pcb.instrucciones)
  BY <1>1, <1>2, <1>3, <1>4, EnSuLugar DEF InvE, Pcbs, EnCpuBien
<1>6. PICK i : i = fetch(pcb)
  OBVIOUS
<1>7. PICK d : d = decode(pcb, i, memoria, tlb)
  OBVIOUS
<1>8. /\ BuenPcb(d.pcb, q) /\ Igual(d.pcb, pcb) /\ d.error \in BOOLEAN
      /\ d.error => d.pcb.page_fault \/ d.pcb.segmentation_fault
      /\ ~d.error => d.pcb = pcb
  BY <1>5, <1>7, Decodifica
<1>9. PICK e : e = ejecutar_instruccion(d.pcb, i, memoria, d)
  OBVIOUS
<1>10. PICK seguido : seguido = [e.pcb EXCEPT !.program_counter = @ + 1]
  OBVIOUS
<1>11. IF d.error
       THEN cpu' = [estado |-> "devuelve", pcb |-> d.pcb] /\ memoria' = memoria
       ELSE /\ memoria' = e.mem
            /\ \/ cpu' = [estado |-> "devuelve", pcb |-> seguido]
               \/ cpu' = EnCpu(seguido)
               \/ cpu' = [estado |-> "devuelve", pcb |-> [seguido EXCEPT !.interrupcion = TRUE]]
  BY <1>4, <1>6, <1>7, <1>9, <1>10 DEF EjecutarInstruccion
<1>12. EsMemoria(memoria)
  BY NoSeMueve
<1>13. CASE d.error
  <2>1. cpu' = [estado |-> "devuelve", pcb |-> d.pcb] /\ EsMemoria(memoria')
    BY <1>11, <1>12, <1>13
  <2>2. d.pcb.pid = q /\ d.pcb.socket_consola = pcb.socket_consola
    BY <1>5, <1>8 DEF Igual, BuenPcb
  <2>3. Ejecutable(cpu', q) /\ cpu'.pcb.socket_consola = pcb.socket_consola
    BY <1>8, <1>13, <2>1, <2>2 DEF Ejecutable, Libre
  <2> QED BY <1>1, <1>2, <1>3, <1>4, <2>1, <2>3, SigueEnCpu
<1>14. CASE ~d.error
  <2>1. BuenPcb(e.pcb, q) /\ Quieto(e.pcb, pcb) /\ EsMemoria(e.mem)
    <3>1. BuenPcb(d.pcb, q) /\ d.pcb = pcb
      BY <1>8, <1>14
    <3>2. BuenPcb(e.pcb, q) /\ Quieto(e.pcb, d.pcb) /\ EsMemoria(e.mem)
      BY <1>9, <1>12, <3>1, Ejecuta
    <3> QED BY <3>1, <3>2
  <2>2. e.pcb.program_counter < Len(e.pcb.instrucciones)
    BY <1>5, <2>1 DEF Quieto, Igual
  <2>3. BuenPcb(seguido, q) /\ Igual(seguido, e.pcb)
        /\ seguido.program_counter = e.pcb.program_counter + 1
    BY <1>10, <2>1, <2>2, Avanza
  <2>4. e.pcb.program_counter \in Nat /\ seguido.program_counter >= 1 /\ seguido.pid = q
        /\ seguido.socket_consola = pcb.socket_consola
    <3>1. Len(e.pcb.instrucciones) \in Nat /\ e.pcb.program_counter \in Nat
      BY <2>1, DeLista DEF BuenPcb, EsPrograma
    <3> QED BY <2>1, <2>3, <3>1 DEF Quieto, Igual, BuenPcb
  <2>5. EsMemoria(memoria')
    BY <1>11, <1>14, <2>1
  <2>6. CASE cpu' = [estado |-> "devuelve", pcb |-> seguido]
    <3>1. Ejecutable(cpu', q) /\ cpu'.pcb.socket_consola = pcb.socket_consola
      BY <2>3, <2>4, <2>6 DEF Ejecutable, Libre
    <3> QED BY <1>1, <1>2, <1>3, <1>4, <2>5, <3>1, SigueEnCpu
  <2>7. CASE cpu' = EnCpu(seguido)
    <3>1. Ejecutable(cpu', q) /\ cpu'.pcb.socket_consola = pcb.socket_consola
      BY <2>3, <2>4, <2>7, EnCpuEs
    <3> QED BY <1>1, <1>2, <1>3, <1>4, <2>5, <3>1, SigueEnCpu
  <2>8. CASE cpu' = [estado |-> "devuelve", pcb |-> [seguido EXCEPT !.interrupcion = TRUE]]
    <3>1. PICK n : n = [seguido EXCEPT !.interrupcion = TRUE]
      OBVIOUS
    <3>2. BuenPcb(n, q) /\ Quieto(n, seguido)
      BY <2>3, <3>1, Interrumpido
    <3>3. n.program_counter >= 1 /\ n.pid = q /\ n.socket_consola = pcb.socket_consola
      BY <2>4, <3>2 DEF Quieto, Igual
    <3>4. Ejecutable(cpu', q) /\ cpu'.pcb.socket_consola = pcb.socket_consola
      BY <2>8, <3>1, <3>2, <3>3 DEF Ejecutable, Libre
    <3> QED BY <1>1, <1>2, <1>3, <1>4, <2>5, <3>4, SigueEnCpu
  <2> QED BY <1>11, <1>14, <2>6, <2>7, <2>8
<1> QED BY <1>8, <1>13, <1>14

-----------------------------------------------------------------------------
(* The thread that accepts consoles *)

\* What the sockets hold, in a step of the kernel that reads and writes none.
LEMMA NadaDicho ==
    ASSUME Tipos, Mensajes, UNCHANGED <<deConsolas, pid_actual, consolaDe>>,
           \A p \in 1..pid_actual :
                /\ (Acabo(p)' <=> Acabo(p))
                /\ ~Acabo(p) => /\ (hilo'[p] = "contestar" <=> hilo[p] = "contestar")
                                /\ hilo[p] = "contestar" => pcbs'[p] = pcbs[p]
    PROVE  Mensajes'
<1> DEFINE C == {}
<1>1. C \in SUBSET Consolas
  OBVIOUS
<1>2. \A d : d \notin C
  OBVIOUS
<1>3. consola' = consola /\ haciaKernel' = haciaKernel /\ haciaConsola' = haciaConsola
  BY DEF deConsolas
<1> HIDE DEF C
<1> QED BY <1>1, <1>2, <1>3, DichoA

\* A step of the thread that accepts, that starts no process.
LEMMA AtiendeSinProceso ==
    ASSUME InvE, UNCHANGED <<deConsolas, deKernel, cpu, memoria, consolaDe>>,
           fds' \in [Descriptores -> Consolas \cup {Cerrado}],
           aceptado' \in Descriptores \cup {Ninguno},
           pendientes' \in Seq(Consolas), SinRepetir(pendientes'),
           Elems(pendientes') \subseteq Elems(pendientes),
           \A p \in 1..pid_actual :
              Vive(p) => Socket(p) # aceptado' /\ fds'[Socket(p)] = fds[Socket(p)],
           aceptado' # Ninguno => /\ fds'[aceptado'] \in Elems(pendientes)
                                  /\ fds'[aceptado'] \notin Elems(pendientes')
    PROVE  InvE'
<1>1. Tipos /\ Colas /\ EnUnLugar /\ Pcbs /\ Conexiones /\ Mensajes /\ GradoExacto
  BY DEF InvE
<1>2. /\ consola' = consola /\ haciaKernel' = haciaKernel /\ haciaConsola' = haciaConsola
      /\ pid_actual' = pid_actual /\ pcbs' = pcbs /\ hilo' = hilo /\ consolaDe' = consolaDe
      /\ memoria' = memoria /\ multiprogramacion' = multiprogramacion
  BY DEF deConsolas, deKernel
<1>3. /\ Colas' /\ EnUnLugar' /\ Pcbs' /\ GradoExacto'
      /\ \A p : (Vive(p) <=> Vive(p)') /\ Socket(p)' = Socket(p) /\ (Acabo(p)' <=> Acabo(p))
  BY <1>1, KernelQuieto
<1>4. Tipos'
  <2>1. /\ DOMAIN haciaKernel' = Consolas /\ haciaKernel' = [d \in Consolas |-> haciaKernel'[d]]
        /\ DOMAIN haciaConsola' = Consolas
        /\ haciaConsola' = [d \in Consolas |-> haciaConsola'[d]]
    BY <1>1, <1>2 DEF Tipos
  <2>2. /\ multiprogramacion' \in Nat /\ EsMemoria(memoria')
        /\ hilo' \in [Pids -> {"ninguno", "page fault", "pedir", "contestar"}]
        /\ DOMAIN pcbs' \subseteq 1..pid_actual' /\ pcbs' = [p \in DOMAIN pcbs' |-> pcbs'[p]]
    BY <1>1, <1>2 DEF Tipos
  <2> QED BY <1>1, <1>2, <2>1, <2>2, TiposCon
<1>5. Mensajes'
  BY <1>1, <1>2, <1>3, NadaDicho
<1>6. /\ Elems(consolaDe)' = Elems(consolaDe) /\ Elems(pendientes)' = Elems(pendientes')
      /\ Elems(pendientes) \subseteq Consolas
  BY <1>1, <1>2, PendientesDe DEF Elems
<1>7. ASSUME NEW p \in 1..pid_actual', Vive(p)' PROVE Conectado(p)'
  <2>1. Conectado(p) /\ Vive(p)
    BY <1>1, <1>2, <1>3, <1>7 DEF Conexiones, Conectados
  <2> QED BY <1>2, <1>3, <2>1 DEF Conectado
<1>8. AceptadoSinProceso'
  BY <1>1, <1>2, <1>6 DEF Conexiones, PendientesSinProceso, AceptadoSinProceso
<1>9. PendientesSinProceso'
  BY <1>1, <1>2, <1>6 DEF Conexiones, PendientesSinProceso
<1> QED BY <1>3, <1>4, <1>5, <1>7, <1>8, <1>9 DEF InvE, Conexiones, Conectados

\* AceptarConsola keeps InvE: the descriptor it takes is of no process that lives.
LEMMA AlAceptar == ASSUME ~Reuso, InvE, AceptarConsola PROVE InvE'
<1>1. PICK fd \in Descriptores : /\ ~EnUnPcb(fd)
                                 /\ fds' = [fds EXCEPT ![fd] = Head(pendientes)]
                                 /\ aceptado' = fd
  BY DEF AceptarConsola, Disponible
<1>2. /\ aceptado = Ninguno /\ pendientes # <<>> /\ pendientes' = Tail(pendientes)
      /\ UNCHANGED <<deConsolas, deKernel, cpu, memoria, consolaDe>>
  BY DEF AceptarConsola, PuedeAceptar, historia
<1>3. Tipos /\ Pcbs /\ Conexiones
  BY DEF InvE
<1>4. pendientes \in Seq(Consolas) /\ SinRepetir(pendientes)
      /\ fds \in [Descriptores -> Consolas \cup {Cerrado}] /\ Cerrado \notin Consolas
  BY <1>3, EjecucionAssumption DEF Tipos
<1>5. PICK c : c = Head(pendientes)
  OBVIOUS
<1>6. /\ c \in Elems(pendientes) /\ Elems(pendientes) \subseteq Consolas
      /\ Elems(pendientes') = Elems(pendientes) \ {c}
      /\ SinRepetir(pendientes') /\ pendientes' \in Seq(Consolas)
  BY <1>2, <1>4, <1>5, Cabeza
<1>7. fds' \in [Descriptores -> Consolas \cup {Cerrado}] /\ fds'[fd] = c
      /\ \A g \in Descriptores \ {fd} : fds'[g] = fds[g]
  BY <1>1, <1>4, <1>5, <1>6
<1>8. ASSUME NEW p \in 1..pid_actual, Vive(p)
      PROVE  Socket(p) # fd /\ fds'[Socket(p)] = fds[Socket(p)]
  <2>1. Socket(p) \in Descriptores
    BY <1>3, <1>8 DEF Conexiones, Conectados, Conectado
  <2>2. EnUnPcb(Socket(p))
    BY <1>8 DEF EnUnPcb, Socket, PcbDe, Vive, EnCpuEsta
  <2> QED BY <1>1, <1>7, <2>1, <2>2
<1> QED BY <1>1, <1>2, <1>6, <1>7, <1>8, AtiendeSinProceso

\* The console that was accepted goes away without a program.
LEMMA AlDesistir ==
    ASSUME InvE, aceptado # Ninguno, NEW fd, fd = aceptado, Cerrar(fd), aceptado' = Ninguno,
           pendientes' = pendientes, UNCHANGED <<deConsolas, deKernel, cpu, memoria, consolaDe>>
    PROVE  InvE'
<1>1. Tipos /\ Pcbs /\ Conexiones
  BY DEF InvE
<1>2. /\ pendientes \in Seq(Consolas) /\ SinRepetir(pendientes) /\ fd \in Descriptores
      /\ fds \in [Descriptores -> Consolas \cup {Cerrado}]
  BY <1>1 DEF Tipos
<1>3. fds' \in [Descriptores -> Consolas \cup {Cerrado}]
      /\ \A g \in Descriptores \ {fd} : fds'[g] = fds[g]
  BY <1>2 DEF Cerrar
<1>4. ASSUME NEW p \in 1..pid_actual, Vive(p)
      PROVE  Socket(p) # aceptado' /\ fds'[Socket(p)] = fds[Socket(p)]
  <2>1. Conectado(p)
    BY <1>1, <1>4 DEF Conexiones, Conectados
  <2>2. Socket(p) \in Descriptores \ {fd}
    BY <2>1 DEF Conectado
  <2> QED BY <1>3, <2>2 DEF Descriptores, Ninguno
<1> QED BY <1>2, <1>3, <1>4, AtiendeSinProceso

\* The kernel reads the program that the console sent, and leaves nothing of it.
LEMMA ProgramaRecibido ==
    ASSUME NEW c \in Consolas, NEW k, Programa(c, k)
    PROVE  LET proceso == deserializar_proceso(Buffer(k)) IN
           /\ k # <<>> /\ Operacion(k) = "PROCESO" /\ TrasPaquete(k) = <<>>
           /\ EsPrograma(proceso.instrucciones) /\ EsLista(proceso.segmentos)
           /\ \A i \in DOMAIN proceso.segmentos : EsTexto(proceso.segmentos[i])
<1>1. PICK a \in Archivos(c) : SePuedeLeer(a) /\ k = Paquete("PROCESO", empaquetar_proceso(
        [instrucciones |-> obtener_pseudocodigo(a), segmentos |-> Segmentos(c)]))
  BY DEF Programa
<1>2. PICK proceso : proceso = [instrucciones |-> obtener_pseudocodigo(a),
                                segmentos |-> Segmentos(c)]
  OBVIOUS
<1>3. EsPrograma(obtener_pseudocodigo(a))
  BY <1>1, ProgramaLeido
<1>4. EsLista(Segmentos(c)) /\ \A i \in DOMAIN Segmentos(c) : EsTexto(Segmentos(c)[i])
  BY ArchivosAssumption
<1>5. EsProceso(proceso) /\ EsPrograma(proceso.instrucciones) /\ EsLista(proceso.segmentos)
      /\ \A i \in DOMAIN proceso.segmentos : EsTexto(proceso.segmentos[i])
  BY <1>2, <1>3, <1>4, ListaEsFlujo DEF EsProceso, EsPrograma, EsI
<1>6. EsFlujo(empaquetar_proceso(proceso))
      /\ deserializar_proceso(empaquetar_proceso(proceso)) = proceso
  BY <1>5, ProcesoEntero
<1>7. k = Paquete("PROCESO", empaquetar_proceso(proceso))
  BY <1>1, <1>2
<1>8. k # <<>> /\ Operacion(k) = "PROCESO" /\ TrasPaquete(k) = <<>>
      /\ Buffer(k) = empaquetar_proceso(proceso)
  BY <1>6, <1>7, PaqueteSolo
<1> QED BY <1>5, <1>6, <1>8

\* No console has two processes: a list without repetitions is not longer than the set.
LEMMA SinRepetirCorta ==
    ASSUME NEW s \in Seq(Consolas), SinRepetir(s)
    PROVE  Len(s) \in {0} \cup Pids
<1>1. IsFiniteSet(Consolas) /\ Cardinality(Consolas) \in Nat
  BY EjecucionAssumption, FS_CardinalityType
<1>2. s \in Injection(1..Len(s), Consolas)
  <2>1. s \in [1..Len(s) -> Consolas] /\ DOMAIN s = 1..Len(s)
    OBVIOUS
  <2> QED BY <2>1 DEF Injection, IsInjective, SinRepetir
<1>3. Cardinality(1..Len(s)) <= Cardinality(Consolas)
  BY <1>1, <1>2, FS_Injection
<1>4. Cardinality(1..Len(s)) = Len(s) /\ Len(s) \in Nat
  BY FS_Interval
<1> QED BY <1>1, <1>3, <1>4 DEF Pids

\* The console has a process, the last one, with its descriptor.
LEMMA AlNacer ==
    ASSUME InvE, NEW c \in Consolas, NEW fd \in Descriptores, fd = aceptado, fds[fd] = c,
           NEW n, NEW pid, pid = pid_actual + 1, BuenPcb(n, pid), n.socket_consola = fd,
           EsLista(n.tamanio_segmentos),
           \A i \in DOMAIN n.tamanio_segmentos : EsTexto(n.tamanio_segmentos[i]),
           Guardar(n), cola_new' = Append(cola_new, pid), pid_actual' = pid,
           consolaDe' = Append(consolaDe, c), haciaKernel' = [haciaKernel EXCEPT ![c] = <<>>],
           consola[c] \in {"atiende", "muerta"}, aceptado' = Ninguno,
           UNCHANGED <<consola, haciaConsola, pendientes, fds, cola_ready, cola_dispositivo,
                       cola_exit, multiprogramacion, hilo, cpu, memoria>>
    PROVE  InvE'
<1>1. Tipos /\ Colas /\ EnUnLugar /\ Pcbs /\ Conexiones /\ Mensajes /\ GradoExacto
  BY DEF InvE
<1>2. /\ DOMAIN pcbs \subseteq 1..pid_actual /\ pid_actual \in Nat
      /\ pid \in Nat /\ pid = pid_actual' /\ pid \notin DOMAIN pcbs
      /\ DOMAIN haciaKernel = Consolas
  <2>1. DOMAIN pcbs \subseteq 1..pid_actual /\ pid_actual \in Nat /\ DOMAIN haciaKernel = Consolas
    BY <1>1 DEF Tipos
  <2>2. pid \in Nat /\ pid = pid_actual' /\ pid \notin 1..pid_actual
    BY <2>1
  <2> QED BY <2>1, <2>2
<1>3. /\ DOMAIN pcbs' = DOMAIN pcbs \cup {pid} /\ pcbs'[pid] = n
      /\ \A p \in DOMAIN pcbs : pcbs'[p] = pcbs[p]
      /\ pcbs' = [p \in DOMAIN pcbs' |-> pcbs'[p]]
  <2>1. n.pid = pid
    BY DEF BuenPcb
  <2>2. /\ DOMAIN pcbs' = DOMAIN pcbs \cup {pid} /\ pcbs'[pid] = n
        /\ \A p \in DOMAIN pcbs \ {pid} : pcbs'[p] = pcbs[p]
        /\ pcbs' = [p \in DOMAIN pcbs' |-> pcbs'[p]]
    BY <1>1, <2>1, Guardado
  <2>3. DOMAIN pcbs \ {pid} = DOMAIN pcbs
    BY <1>2
  <2> QED BY <2>2, <2>3
<1>4. c \notin Elems(consolaDe) /\ c \notin Elems(pendientes)
  <2>1. aceptado # Ninguno
    BY DEF Descriptores, Ninguno
  <2> QED BY <1>1, <2>1 DEF Conexiones, AceptadoSinProceso
<1>5. consolaDe \in Seq(Consolas) /\ SinRepetir(consolaDe) /\ Len(consolaDe) = pid_actual
  BY <1>1 DEF Tipos
<1>6. /\ consolaDe' \in Seq(Consolas) /\ SinRepetir(consolaDe') /\ Len(consolaDe') = pid
      /\ Elems(consolaDe') = Elems(consolaDe) \cup {c} /\ consolaDe'[pid] = c
      /\ \A p \in 1..pid_actual : consolaDe'[p] = consolaDe[p]
  <2>1. Append(consolaDe, c) \in Seq(Consolas)
    BY <1>5
  <2>2. SinRepetir(Append(consolaDe, c))
        /\ Elems(Append(consolaDe, c)) = Elems(consolaDe) \cup {c}
    BY <1>4, <1>5, AlFinalDeCola
  <2>3. Len(consolaDe') = pid /\ consolaDe'[pid] = c
        /\ \A p \in 1..pid_actual : consolaDe'[p] = consolaDe[p]
    BY <1>2, <1>5
  <2> QED BY <2>1, <2>2, <2>3
<1>7. pid \in Pids
  <2>1. PICK s \in Seq(Consolas) : s = consolaDe'
    BY <1>6
  <2>2. Len(s) \in {0} \cup Pids
    BY <1>6, <2>1, SinRepetirCorta
  <2> QED BY <1>2, <1>6, <2>1, <2>2
<1>8. /\ haciaKernel'[c] = <<>> /\ DOMAIN haciaKernel' = Consolas
      /\ haciaKernel' = [d \in Consolas |-> haciaKernel'[d]]
      /\ \A d \in Consolas \ {c} : haciaKernel'[d] = haciaKernel[d]
  BY <1>2
<1>9. Tipos'
  <2>1. DOMAIN pcbs' \subseteq 1..pid_actual'
    BY <1>2, <1>3
  <2>2. SinRepetir(consolaDe)' /\ SinRepetir(pendientes)'
    BY <1>1, <1>6 DEF SinRepetir, Tipos
  <2>3. EsMemoria(memoria)'
    BY <1>1 DEF Tipos, EsMemoria
  <2>4. /\ consola' \in [Consolas -> Formas]
        /\ DOMAIN haciaConsola' = Consolas
        /\ haciaConsola' = [d \in Consolas |-> haciaConsola'[d]]
        /\ fds' \in [Descriptores -> Consolas \cup {Cerrado}]
        /\ aceptado' \in Descriptores \cup {Ninguno}
        /\ pendientes' \in Seq(Consolas) /\ multiprogramacion' \in Nat
        /\ hilo' \in [Pids -> {"ninguno", "page fault", "pedir", "contestar"}]
    BY <1>1 DEF Tipos
  <2> QED BY <1>2, <1>3, <1>6, <1>8, <2>1, <2>2, <2>3, <2>4 DEF Tipos
<1>10. /\ cola_new' \in Seq(Nat) /\ SinRepetir(cola_new')
       /\ Elems(cola_new') = Elems(cola_new) \cup {pid}
  <2>1. cola_new \in Seq(Nat) /\ SinRepetir(cola_new) /\ pid \notin Elems(cola_new)
    BY <1>1, <1>2 DEF Colas, EnUnLugar
  <2> QED BY <1>2, <2>1, PidAlFinal
<1>11. Colas'
  BY <1>1, <1>10 DEF Colas, SinRepetir
<1>12. /\ Elems(cola_new)' = Elems(cola_new) \cup {pid} /\ Elems(cola_ready)' = Elems(cola_ready)
       /\ Elems(cola_dispositivo)' = Elems(cola_dispositivo)
       /\ Elems(cola_exit)' = Elems(cola_exit) /\ Bloqueados' = Bloqueados
  BY <1>10 DEF Elems, Bloqueados
<1>13. EnUnLugar'
  BY <1>1, <1>2, <1>3, <1>12 DEF EnUnLugar
<1>14. Pcbs'
  <2>1. ASSUME NEW p \in DOMAIN pcbs' PROVE BuenPcb(pcbs'[p], p)
    BY <1>1, <1>2, <1>3 DEF Pcbs
  <2>2. ASSUME NEW p \in Elems(cola_exit)' PROVE Terminado(pcbs'[p])
    BY <1>1, <1>3, <1>12 DEF Pcbs, EnUnLugar
  <2>3. ASSUME NEW p \in Elems(cola_new)'
        PROVE  EsLista(pcbs'[p].tamanio_segmentos)
            /\ \A i \in DOMAIN pcbs'[p].tamanio_segmentos : EsTexto(pcbs'[p].tamanio_segmentos[i])
    <3>1. CASE p = pid
      BY <1>3, <3>1
    <3>2. CASE p # pid
      <4>1. p \in Elems(cola_new) /\ pcbs'[p] = pcbs[p]
        BY <1>1, <1>3, <1>12, <3>2 DEF EnUnLugar
      <4> QED BY <1>1, <4>1 DEF Pcbs
    <3> QED BY <3>1, <3>2
  <2>4. ASSUME NEW p \in Pids, hilo'[p] \in {"pedir", "contestar"}
        PROVE  UltimaEsDeConsola(pcbs'[p])
    BY <1>1, <1>3, <2>4 DEF Pcbs, EnUnLugar, Bloqueados
  <2>5. EnCpuBien'
    BY <1>1, <1>2, <1>3 DEF Pcbs, EnCpuBien
  <2> QED BY <2>1, <2>2, <2>3, <2>4, <2>5 DEF Pcbs
<1>15. /\ \A p : Vive(p)' <=> Vive(p) \/ p = pid
       /\ \A p \in 1..pid_actual : Vive(p) => Socket(p)' = Socket(p)
       /\ PcbDe(pid)' = n
  <2>1. \A p : EnCpuEsta(p)' <=> EnCpuEsta(p)
    BY DEF EnCpuEsta
  <2>2. ~EnCpuEsta(pid)
    BY <1>1, <1>2 DEF Pcbs, EnCpuBien, EnCpuEsta
  <2> QED BY <1>3, <2>2 DEF Vive, Socket, PcbDe, EnCpuEsta
<1>16. /\ \A p \in 1..pid_actual : Acabo(p)' <=> Acabo(p)
       /\ ~(Acabo(pid)') /\ hilo[pid] = "ninguno" /\ pid \notin 1..pid_actual
       /\ 1..pid_actual' = (1..pid_actual) \cup {pid}
  <2>1. pid \notin Elems(cola_exit) /\ pid \notin Bloqueados
    BY <1>1, <1>2 DEF EnUnLugar
  <2>2. hilo[pid] = "ninguno"
    BY <1>7, <2>1 DEF Bloqueados
  <2>3. pid \notin 1..pid_actual /\ 1..pid_actual' = (1..pid_actual) \cup {pid}
    BY <1>2
  <2> QED BY <1>12, <1>15, <2>1, <2>2, <2>3 DEF Acabo
<1>17. /\ \A p \in 1..pid_actual : consolaDe[p] \in Consolas \ {c}
       /\ Elems(consolaDe)' = Elems(consolaDe) \cup {c}
  <2>1. \A p \in 1..pid_actual : consolaDe[p] \in Consolas \ {c}
    BY <1>1, <1>4, PidsAlcanzan, ProcesosDe
  <2> QED BY <1>6, <2>1 DEF Elems
<1>18. Conexiones'
  <2>1. ASSUME NEW p \in 1..pid_actual', Vive(p)' PROVE Conectado(p)'
    <3>1. CASE p = pid
      <4>1. Socket(pid)' = fd
        BY <1>15 DEF Socket
      <4> QED BY <1>6, <3>1, <4>1 DEF Conectado, Descriptores, Ninguno
    <3>2. CASE p # pid
      <4>1. p \in 1..pid_actual /\ Vive(p) /\ Conectado(p)
        BY <1>1, <1>15, <1>16, <2>1, <3>2 DEF Conexiones, Conectados
      <4>2. Socket(p)' = Socket(p) /\ consolaDe'[p] = consolaDe[p]
            /\ consolaDe[p] \in Consolas \ {c}
        BY <1>6, <1>15, <1>17, <4>1
      <4> QED BY <1>8, <4>1, <4>2 DEF Conectado, Descriptores, Ninguno
    <3> QED BY <3>1, <3>2
  <2>2. AceptadoSinProceso'
    BY DEF AceptadoSinProceso
  <2>3. PendientesSinProceso'
    <3>1. Elems(pendientes)' = Elems(pendientes)
      BY DEF Elems
    <3> QED BY <1>1, <1>4, <1>17, <3>1 DEF Conexiones, PendientesSinProceso
  <2> QED BY <2>1, <2>2, <2>3 DEF Conexiones, Conectados
<1>19. Mensajes'
  <2>1. ASSUME NEW d \in Consolas, d \notin Elems(consolaDe)' PROVE SinProceso(d)'
    <3>1. d # c /\ SinProceso(d)
      BY <1>1, <1>17, <2>1 DEF Mensajes
    <3>2. haciaKernel'[d] = haciaKernel[d]
      BY <1>8, <3>1
    <3> QED BY <3>1, <3>2 DEF SinProceso, Programa
  <2>2. ASSUME NEW p \in 1..pid_actual PROVE Trato(p)'
    <3>1. PICK d \in Consolas \ {c} : d = consolaDe[p]
      BY <1>17
    <3>2. haciaKernel'[d] = haciaKernel[d] /\ consolaDe'[p] = d /\ haciaConsola'[d] = haciaConsola[d]
      BY <1>6, <1>8, <3>1
    <3>3. /\ Acabo(p) => Despedida(d)
          /\ ~Acabo(p) /\ hilo[p] = "contestar" =>
                EnDialogo(d, obtener_ultima_instruccion(pcbs[p]).parametro1)
          /\ ~Acabo(p) /\ hilo[p] # "contestar" => EnSilencio(d)
      BY <3>1, SegunTrato
    <3>4. hilo[p] = "contestar" => pcbs'[p] = pcbs[p]
      <4>1. p \in Pids
        BY <1>1, PidsAlcanzan
      <4>2. hilo[p] = "contestar" => p \in DOMAIN pcbs
        BY <4>1, EnSuLugar
      <4> QED BY <1>3, <4>2
    <3>5. Acabo(p)' <=> Acabo(p)
      BY <1>16
    <3>6. CASE Acabo(p)
      BY <3>2, <3>3, <3>5, <3>6 DEF Trato, Despedida
    <3>7. CASE ~Acabo(p) /\ hilo[p] = "contestar"
      BY <3>2, <3>3, <3>4, <3>5, <3>7 DEF Trato, EnDialogo
    <3>8. CASE ~Acabo(p) /\ hilo[p] # "contestar"
      BY <3>2, <3>3, <3>5, <3>8 DEF Trato, EnSilencio
    <3> QED BY <3>6, <3>7, <3>8
  <2>3. Trato(pid)'
    <3>1. haciaConsola[c] = <<>>
      BY <1>4, SegunTrato DEF SinProceso
    <3>2. EnSilencio(c)'
      BY <1>8, <3>1 DEF EnSilencio
    <3> QED BY <1>6, <1>16, <3>2 DEF Trato, EnSilencio
  <2> QED BY <1>16, <2>1, <2>2, <2>3 DEF Mensajes
<1>20. GradoExacto'
  <2>1. \A p : Admitido(p)' <=> Vive(p)' /\ p \notin Elems(cola_new)'
    BY DEF Admitido, Elems
  <2>2. \A p \in 1..pid_actual : Admitido(p)' <=> Admitido(p)
    BY <1>12, <1>15, <1>16, <2>1, AdmitidoEs
  <2>3. ~(Admitido(pid)')
    BY <1>12, <2>1
  <2>4. {p \in 1..pid_actual' : Admitido(p)'} = {p \in 1..pid_actual : Admitido(p)}
    BY <1>16, <2>2, <2>3
  <2> QED BY <1>1, <2>4 DEF GradoExacto
<1> QED BY <1>9, <1>11, <1>13, <1>14, <1>18, <1>19, <1>20 DEF InvE

\* RecibirProceso keeps InvE, with a program or without.
LEMMA AlRecibir == ASSUME InvE, RecibirProceso PROVE InvE'
<1>1. PICK fd : fd = aceptado
  OBVIOUS
<1>2. /\ aceptado # Ninguno /\ aceptado' = Ninguno
      /\ UNCHANGED <<consola, haciaConsola, pendientes, cola_ready, cola_dispositivo, cola_exit,
                     multiprogramacion, hilo, cpu, memoria>>
      /\ \/ /\ HayDatos(fd)
            /\ Leido(fd, TrasPaquete(Flujo(fd)))
            /\ IF Operacion(Flujo(fd)) = "PROCESO"
               THEN /\ Guardar(pcb_create(deserializar_proceso(Buffer(Flujo(fd))),
                                          pid_actual + 1, fd))
                    /\ cola_new' = Append(cola_new, pid_actual + 1)
                    /\ pid_actual' = pid_actual + 1
                    /\ consolaDe' = Append(consolaDe, fds[fd])
               ELSE UNCHANGED <<pcbs, cola_new, pid_actual, consolaDe>>
            /\ UNCHANGED fds
         \/ /\ RecvFalla(fd) /\ Cerrar(fd)
            /\ UNCHANGED <<haciaKernel, pcbs, cola_new, pid_actual, consolaDe>>
  BY <1>1 DEF RecibirProceso, PuedeRecibir
<1>3. PICK c \in Consolas : c = fds[fd] /\ c \notin Elems(consolaDe)
  BY <1>1, <1>2 DEF InvE, Conexiones, AceptadoSinProceso
<1>4. fd \in Descriptores
  BY <1>1, <1>2 DEF InvE, Tipos
<1>5. CASE /\ HayDatos(fd)
           /\ Leido(fd, TrasPaquete(Flujo(fd)))
           /\ IF Operacion(Flujo(fd)) = "PROCESO"
              THEN /\ Guardar(pcb_create(deserializar_proceso(Buffer(Flujo(fd))),
                                         pid_actual + 1, fd))
                   /\ cola_new' = Append(cola_new, pid_actual + 1)
                   /\ pid_actual' = pid_actual + 1
                   /\ consolaDe' = Append(consolaDe, fds[fd])
              ELSE UNCHANGED <<pcbs, cola_new, pid_actual, consolaDe>>
           /\ UNCHANGED fds
  <2>1. PICK k : k = haciaKernel[c]
    OBVIOUS
  <2>2. Flujo(fd) = k /\ k # <<>>
    BY <1>3, <1>5, <2>1 DEF Flujo, HayDatos
  <2>3. consola[c] \in {"atiende", "muerta"} /\ Programa(c, k)
    BY <1>3, <2>1, <2>2, SegunTrato DEF SinProceso
  <2>4. PICK proceso : proceso = deserializar_proceso(Buffer(k))
    OBVIOUS
  <2>5. /\ Operacion(k) = "PROCESO" /\ TrasPaquete(k) = <<>>
        /\ EsPrograma(proceso.instrucciones) /\ EsLista(proceso.segmentos)
        /\ \A i \in DOMAIN proceso.segmentos : EsTexto(proceso.segmentos[i])
    BY <2>3, <2>4, ProgramaRecibido
  <2>6. PICK pid : pid = pid_actual + 1
    OBVIOUS
  <2>7. PICK n : n = pcb_create(proceso, pid, fd)
    OBVIOUS
  <2>8. BuenPcb(n, pid) /\ n.socket_consola = fd /\ n.tamanio_segmentos = proceso.segmentos
    BY <1>4, <2>5, <2>7, Creado
  <2>9. /\ Guardar(n) /\ cola_new' = Append(cola_new, pid) /\ pid_actual' = pid
        /\ consolaDe' = Append(consolaDe, c)
        /\ haciaKernel' = [haciaKernel EXCEPT ![c] = <<>>] /\ fds' = fds
    BY <1>3, <1>5, <2>2, <2>4, <2>5, <2>6, <2>7 DEF Leido
  <2>10. /\ aceptado' = Ninguno
         /\ UNCHANGED <<consola, haciaConsola, pendientes, fds, cola_ready, cola_dispositivo,
                       cola_exit, multiprogramacion, hilo, cpu, memoria>>
    BY <1>2, <2>9
  <2> QED BY <1>1, <1>3, <1>4, <2>3, <2>5, <2>6, <2>8, <2>9, <2>10, AlNacer
<1>6. CASE /\ RecvFalla(fd) /\ Cerrar(fd)
           /\ UNCHANGED <<haciaKernel, pcbs, cola_new, pid_actual, consolaDe>>
  <2>1. UNCHANGED <<deConsolas, deKernel, cpu, memoria, consolaDe>>
    BY <1>2, <1>6 DEF deConsolas, deKernel, colas
  <2> QED BY <1>1, <1>2, <1>6, <2>1, AlDesistir
<1> QED BY <1>2, <1>5, <1>6

-----------------------------------------------------------------------------
(* The threads of console I/O *)

\* What the thread of q asks its console.
LEMMA LoPedido ==
    ASSUME NEW q, NEW pcb, BuenPcb(pcb, q), UltimaEsDeConsola(pcb)
    PROVE  LET i == obtener_ultima_instruccion(pcb)
               m == IF i.parametro1 = "TECLADO" THEN Codigo("TECLADO")
                    ELSE ValorConCodigo(obtener_valor_del_registro(pcb, i.parametro2), "PANTALLA")
           IN /\ i.parametro1 \in {"TECLADO", "PANTALLA"}
              /\ Pedido(i.parametro1, m) /\ m # <<>> /\ <<>> \o m = m
<1>1. PICK i : i = obtener_ultima_instruccion(pcb)
  OBVIOUS
<1>2. pcb.program_counter \in DOMAIN pcb.instrucciones
  <2>1. EsLista(pcb.instrucciones) /\ pcb.program_counter \in 0..Len(pcb.instrucciones)
        /\ pcb.program_counter >= 1
    BY DEF BuenPcb, EsPrograma, UltimaEsDeConsola
  <2>2. Len(pcb.instrucciones) \in Nat /\ DOMAIN pcb.instrucciones = 1..Len(pcb.instrucciones)
    BY <2>1, DeLista
  <2> QED BY <2>1, <2>2
<1>3. EsI(i) /\ EsDeConsola(i)
  BY <1>1, <1>2 DEF BuenPcb, EsPrograma, UltimaEsDeConsola, obtener_ultima_instruccion
<1>4. i.parametro1 \in {"TECLADO", "PANTALLA"}
      /\ (i.parametro1 = "PANTALLA" => i.parametro2 \in NombresRegistros)
  BY <1>3 DEF EsI, EsDeConsola
<1>5. CASE i.parametro1 = "TECLADO"
  BY <1>1, <1>5, CodigoSolo DEF Pedido
<1>6. CASE i.parametro1 = "PANTALLA"
  <2>1. PICK v : v = obtener_valor_del_registro(pcb, i.parametro2)
    OBVIOUS
  <2>2. v \in Int
    <3>1. pcb.registros \in [NombresRegistros -> 0..(Modulo - 1)] /\ Modulo \in Nat
      BY ModuloAssumption DEF BuenPcb
    <3> QED BY <1>4, <1>6, <2>1, <3>1 DEF obtener_valor_del_registro
  <2>3. PICK m : m = ValorConCodigo(v, "PANTALLA")
    OBVIOUS
  <2>4. Pedido("PANTALLA", m) /\ m # <<>> /\ <<>> \o m = m
    BY <2>2, <2>3, ValorSolo DEF Pedido
  <2> QED BY <1>1, <1>6, <2>1, <2>3, <2>4
<1> QED BY <1>4, <1>5, <1>6

\* Pedir keeps InvE: the socket of the console was empty.
LEMMA AlPedir == ASSUME InvE, NEW q \in Pids, Pedir(q) PROVE InvE'
<1>1. PICK fd : fd = pcbs[q].socket_consola
  OBVIOUS
<1>2. PICK t : t = obtener_ultima_instruccion(pcbs[q]).parametro1
  OBVIOUS
<1>3. PICK m : m = IF t = "TECLADO" THEN Codigo("TECLADO")
                   ELSE ValorConCodigo(obtener_valor_del_registro(pcbs[q],
                            obtener_ultima_instruccion(pcbs[q]).parametro2), "PANTALLA")
  OBVIOUS
<1>4. /\ hilo[q] = "pedir" /\ hilo' = [hilo EXCEPT ![q] = "contestar"] /\ Enviar(fd, m)
      /\ consola' = consola /\ haciaKernel' = haciaKernel /\ UNCHANGED conexiones
      /\ pid_actual' = pid_actual /\ pcbs' = pcbs /\ UNCHANGED colas
      /\ multiprogramacion' = multiprogramacion /\ cpu' = cpu /\ memoria' = memoria
      /\ consolaDe' = consolaDe
  BY <1>1, <1>2, <1>3 DEF Pedir, historia
<1>5. Tipos /\ Colas /\ EnUnLugar /\ Pcbs /\ Conexiones /\ Mensajes /\ GradoExacto
  BY DEF InvE
<1>6. /\ q \in DOMAIN pcbs /\ q \notin Elems(cola_exit) /\ q \in 1..pid_actual
      /\ BuenPcb(pcbs[q], q) /\ Vive(q) /\ Socket(q) = fd
  BY <1>1, <1>4, EnSuLugar
<1>7. UltimaEsDeConsola(pcbs[q])
  BY <1>4, <1>5 DEF Pcbs
<1>8. t \in {"TECLADO", "PANTALLA"} /\ Pedido(t, m) /\ m # <<>> /\ <<>> \o m = m
  BY <1>2, <1>3, <1>6, <1>7, LoPedido
<1>9. PICK c \in Consolas : c = consolaDe[q]
  BY <1>5, <1>6, PidsAlcanzan
<1>10. EnSilencio(c) /\ ~Acabo(q)
  BY <1>4, <1>6, <1>9, SegunTrato DEF Acabo
<1>11. DOMAIN haciaConsola = Consolas /\ haciaConsola = [d \in Consolas |-> haciaConsola[d]]
       /\ consola \in [Consolas -> Formas] /\ Cerrado \notin Consolas
       /\ hilo \in [Pids -> {"ninguno", "page fault", "pedir", "contestar"}]
  BY <1>5, EjecucionAssumption DEF Tipos
<1>12. fds[fd] = c \/ fds[fd] = Cerrado
  BY <1>5, <1>6, <1>9 DEF Conexiones, Conectados, Conectado
<1>13. /\ EnDialogo(c, t)' /\ DOMAIN haciaConsola' = Consolas
       /\ haciaConsola' = [d \in Consolas |-> haciaConsola'[d]]
       /\ \A d \in Consolas \ {c} : haciaConsola'[d] = haciaConsola[d]
  <2>1. haciaKernel'[c] = <<>> /\ consola'[c] \in {"atiende", "muerta"} /\ haciaConsola[c] = <<>>
    BY <1>4, <1>10 DEF EnSilencio
  <2>2. CASE fds[fd] # Cerrado /\ ~Terminada(fds[fd])
    <3>1. fds[fd] = c /\ consola'[c] = "atiende"
      BY <1>4, <1>12, <2>1, <2>2 DEF Terminada
    <3>2. haciaConsola' = [haciaConsola EXCEPT ![c] = m]
      BY <1>4, <1>8, <2>1, <2>2, <3>1 DEF Enviar
    <3>3. haciaConsola'[c] = m /\ DOMAIN haciaConsola' = Consolas
          /\ haciaConsola' = [d \in Consolas |-> haciaConsola'[d]]
          /\ \A d \in Consolas \ {c} : haciaConsola'[d] = haciaConsola[d]
      BY <1>11, <3>2
    <3>4. EnDialogo(c, t)'
      BY <1>8, <2>1, <3>1, <3>3 DEF EnDialogo
    <3> QED BY <3>3, <3>4
  <2>3. CASE fds[fd] = Cerrado \/ Terminada(fds[fd])
    <3>1. haciaConsola' = haciaConsola
      BY <1>4, <2>3 DEF Enviar
    <3>2. EnDialogo(c, t)'
      BY <2>1, <3>1 DEF EnDialogo
    <3> QED BY <1>11, <3>1, <3>2
  <2> QED BY <2>2, <2>3
<1>14. /\ hilo' \in [Pids -> {"ninguno", "page fault", "pedir", "contestar"}]
       /\ \A p \in Pids \ {q} : hilo'[p] = hilo[p]
       /\ hilo'[q] = "contestar"
  BY <1>4, <1>11
<1>15. Bloqueados' = Bloqueados
  BY <1>4, <1>14 DEF Bloqueados
<1>16. /\ cola_new' = cola_new /\ cola_ready' = cola_ready /\ cola_exit' = cola_exit
       /\ cola_dispositivo' = cola_dispositivo
  BY <1>4 DEF colas
<1>17. Colas'
  BY <1>5, <1>16 DEF Colas, SinRepetir
<1>18. EnUnLugar'
  BY <1>4, <1>5, <1>15, <1>16 DEF EnUnLugar, Elems
<1>19. Pcbs'
  <2>1. \A p \in Pids : hilo'[p] \in {"pedir", "contestar"} => UltimaEsDeConsola(pcbs[p])
    BY <1>5, <1>7, <1>14 DEF Pcbs
  <2>2. EnCpuBien'
    BY <1>4, <1>5 DEF Pcbs, EnCpuBien
  <2> QED BY <1>4, <1>5, <1>16, <2>1, <2>2 DEF Pcbs, Elems
<1>20. \A p : (Vive(p)' <=> Vive(p)) /\ Socket(p)' = Socket(p)
  BY <1>4 DEF Vive, Socket, PcbDe, EnCpuEsta
<1>21. \A p : Acabo(p)' <=> Acabo(p)
  BY <1>16, <1>20 DEF Acabo, Elems
<1>22. Tipos'
  <2>1. /\ fds' \in [Descriptores -> Consolas \cup {Cerrado}]
        /\ aceptado' \in Descriptores \cup {Ninguno}
        /\ pendientes' \in Seq(Consolas) /\ SinRepetir(pendientes')
        /\ multiprogramacion' \in Nat
        /\ DOMAIN pcbs' \subseteq 1..pid_actual' /\ pcbs' = [p \in DOMAIN pcbs' |-> pcbs'[p]]
    BY <1>4, <1>5 DEF Tipos, conexiones
  <2>2. DOMAIN haciaKernel' = Consolas /\ haciaKernel' = [d \in Consolas |-> haciaKernel'[d]]
    BY <1>4, <1>5 DEF Tipos
  <2>3. EsMemoria(memoria')
    BY <1>4, <1>5 DEF Tipos
  <2> QED BY <1>4, <1>5, <1>13, <1>14, <2>1, <2>2, <2>3, TiposCon
<1>23. Conexiones'
  <2>1. \A d \in Consolas :
              /\ consola[d] = "muerta" => consola'[d] = "muerta" /\ haciaKernel'[d] = haciaKernel[d]
              /\ consola[d] # "sin iniciar" => consola'[d] # "sin iniciar"
    BY <1>4, <1>5
  <2> QED BY <1>4, <1>5, <1>20, <2>1, ConexionesQuietas
<1>24. Mensajes'
  <2>1. \A d \in Consolas \ {c} : consola'[d] = consola[d] /\ haciaKernel'[d] = haciaKernel[d]
                                     /\ haciaConsola'[d] = haciaConsola[d]
    BY <1>4, <1>13
  <2>2. ASSUME NEW p \in 1..pid_actual, consolaDe[p] # c
        PROVE  /\ (Acabo(p)' <=> Acabo(p))
               /\ ~Acabo(p) => /\ (hilo'[p] = "contestar" <=> hilo[p] = "contestar")
                               /\ hilo[p] = "contestar" => pcbs'[p] = pcbs[p]
    <3>1. p # q /\ p \in Pids
      BY <1>5, <1>9, <2>2, PidsAlcanzan
    <3> QED BY <1>4, <1>14, <1>21, <3>1
  <2>3. c \in Elems(consolaDe)
    BY <1>5, <1>6, <1>9, ProcesosDe
  <2>4. ASSUME NEW p \in 1..pid_actual, consolaDe[p] = c PROVE Trato(p)'
    <3>1. p = q
      BY <1>5, <1>6, <1>9, <2>4, PidsAlcanzan
    <3>2. consolaDe'[p] = c /\ ~(Acabo(p)') /\ hilo'[p] = "contestar"
          /\ t = obtener_ultima_instruccion(pcbs'[p]).parametro1
      BY <1>2, <1>4, <1>10, <1>14, <1>21, <2>4, <3>1
    <3> QED BY <1>13, <3>2 DEF Trato, EnDialogo
  <2> QED BY <1>4, <1>5, <2>1, <2>2, <2>3, <2>4, DichoAUno
<1>25. GradoExacto'
  <2>1. \A p : Admitido(p)' <=> Admitido(p)
    BY <1>16, <1>20 DEF Admitido
  <2> QED BY <1>4, <1>5, <1>6, <2>1, CuentasCon
<1> QED BY <1>17, <1>18, <1>19, <1>22, <1>23, <1>24, <1>25 DEF InvE

\* The thread of q has its answer, or knows that there will be none.
LEMMA AlSeguir ==
    ASSUME InvE, NEW q \in Pids, hilo[q] = "contestar", NEW c \in Consolas, c = consolaDe[q],
           NEW fd, fd = pcbs[q].socket_consola, NEW pcb, BuenPcb(pcb, q), Igual(pcb, pcbs[q]),
           PasarAReady(pcb), hilo' = [hilo EXCEPT ![q] = "ninguno"],
           haciaKernel' = [haciaKernel EXCEPT ![c] = <<>>],
           consola[c] \in {"atiende", "muerta"}, haciaConsola[c] = <<>>,
           fds' = fds \/ (fds' = [fds EXCEPT ![fd] = Cerrado] /\ consola[c] = "muerta"),
           UNCHANGED <<consola, haciaConsola, pendientes, aceptado, pid_actual, cola_new,
                       cola_dispositivo, cola_exit, multiprogramacion, cpu, memoria, consolaDe>>
    PROVE  InvE'
<1>1. Tipos /\ Colas /\ EnUnLugar /\ Pcbs /\ Conexiones /\ Mensajes /\ GradoExacto
  BY DEF InvE
<1>2. /\ q \in DOMAIN pcbs /\ q \notin Elems(cola_new) /\ q \notin Elems(cola_ready)
      /\ q \notin Elems(cola_dispositivo) /\ q \notin Elems(cola_exit)
      /\ Vive(q) /\ ~EnCpuEsta(q) /\ Socket(q) = fd /\ q \in Nat /\ q \in 1..pid_actual
  BY EnSuLugar
<1>3. PICK n : /\ BuenPcb(n, q) /\ Igual(n, pcb) /\ Guardar(n)
               /\ cola_ready' \in Seq(Nat) /\ SinRepetir(cola_ready')
               /\ Elems(cola_ready') = (Elems(cola_ready) \ {q}) \cup {q}
  BY <1>2, NoSeMueve, AReady
<1>4. n.socket_consola = fd
  BY <1>3 DEF Igual
<1>5. /\ hilo' \in [Pids -> {"ninguno", "page fault", "pedir", "contestar"}]
      /\ \A p \in Pids \ {q} : hilo'[p] = hilo[p]
      /\ hilo'[q] = "ninguno"
  BY NoSeMueve
<1>6. Ubicado(q, n, "ready")
  BY <1>2, <1>3, <1>5, NoSeMueve DEF Ubicado
<1>7. /\ Colas' /\ EnUnLugar' /\ Pcbs'
      /\ DOMAIN pcbs' \subseteq 1..pid_actual' /\ pcbs' = [p \in DOMAIN pcbs' |-> pcbs'[p]]
      /\ \A p : (Vive(p)' <=> Vive(p) \/ p = q)
      /\ \A p : p # q => (Acabo(p)' <=> Acabo(p)) /\ (Vive(p) => PcbDe(p)' = PcbDe(p))
      /\ \A p : p # q /\ p \in DOMAIN pcbs => pcbs'[p] = pcbs[p]
      /\ ~(Acabo(q)') /\ PcbDe(q)' = n
  <2>1. "ready" \in Sitios /\ hilo'[q] \notin {"pedir", "contestar"}
    BY <1>5 DEF Sitios
  <2> QED BY <1>1, <1>2, <1>3, <1>6, <2>1, Ubica
<1>8. \A p : Vive(p)' => Vive(p) /\ Socket(p)' = Socket(p)
  <2>1. Socket(q)' = Socket(q)
    BY <1>2, <1>4, <1>7 DEF Socket
  <2>2. ASSUME NEW p, Vive(p)', p # q PROVE Vive(p) /\ Socket(p)' = Socket(p)
    BY <1>7, <2>2 DEF Socket
  <2> QED BY <1>2, <2>1, <2>2
<1>9. /\ DOMAIN haciaKernel = Consolas
      /\ fds \in [Descriptores -> Consolas \cup {Cerrado}] /\ Cerrado \notin Consolas
  BY <1>1, EjecucionAssumption DEF Tipos
<1>10. /\ haciaKernel'[c] = <<>> /\ DOMAIN haciaKernel' = Consolas
       /\ haciaKernel' = [d \in Consolas |-> haciaKernel'[d]]
       /\ \A d \in Consolas \ {c} : haciaKernel'[d] = haciaKernel[d]
  BY <1>9
<1>11. fds' \in [Descriptores -> Consolas \cup {Cerrado}]
  BY <1>9
<1>12. Tipos'
  <2>1. /\ aceptado' \in Descriptores \cup {Ninguno}
        /\ pendientes' \in Seq(Consolas) /\ SinRepetir(pendientes')
        /\ multiprogramacion' \in Nat /\ EsMemoria(memoria')
        /\ DOMAIN haciaConsola' = Consolas
        /\ haciaConsola' = [d \in Consolas |-> haciaConsola'[d]]
    BY <1>1 DEF Tipos
  <2> QED BY <1>1, <1>5, <1>7, <1>10, <1>11, <2>1, TiposCon
<1>13. Conectado(q) /\ \A p \in 1..pid_actual : Vive(p) => Conectado(p)
  BY <1>1, <1>2 DEF Conexiones, Conectados
<1>14. ASSUME NEW p \in 1..pid_actual', Vive(p)' PROVE Conectado(p)'
  <2>1. p \in 1..pid_actual /\ Vive(p) /\ Conectado(p) /\ Socket(p)' = Socket(p)
    BY <1>8, <1>13, <1>14
  <2>2. PICK s : s = Socket(p)
    OBVIOUS
  <2>3. PICK d \in Consolas : d = consolaDe[p]
    BY <1>1, <2>1, PidsAlcanzan
  <2>4. /\ s \in Descriptores /\ s # aceptado
        /\ \/ fds[s] = d
           \/ fds[s] = Cerrado /\ consola[d] = "muerta" /\ haciaKernel[d] = <<>>
    BY <2>1, <2>2, <2>3 DEF Conectado
  <2>5. d = c <=> p = q
    BY <1>1, <1>2, <2>1, <2>3, PidsAlcanzan
  <2>6. haciaKernel[d] = <<>> => haciaKernel'[d] = <<>>
    BY <1>10
  <2>7. \/ fds'[s] = d
        \/ fds'[s] = Cerrado /\ consola[d] = "muerta" /\ haciaKernel'[d] = <<>>
    <3>1. CASE fds' = fds
      BY <2>4, <2>6, <3>1
    <3>2. CASE fds' = [fds EXCEPT ![fd] = Cerrado] /\ consola[c] = "muerta" /\ s # fd
      BY <1>9, <2>4, <2>6, <3>2
    <3>3. CASE fds' = [fds EXCEPT ![fd] = Cerrado] /\ consola[c] = "muerta" /\ s = fd
      <4>1. fds'[s] = Cerrado
        BY <1>9, <2>4, <3>3
      <4>2. CASE d = c
        BY <1>10, <3>3, <4>1, <4>2
      <4>3. CASE d # c
        <5>1. fds[s] = c \/ fds[s] = Cerrado
          BY <1>2, <1>13, <3>3 DEF Conectado
        <5>2. fds[s] = Cerrado /\ consola[d] = "muerta" /\ haciaKernel[d] = <<>>
          BY <1>9, <2>4, <4>3, <5>1
        <5> QED BY <2>6, <4>1, <5>2
      <4> QED BY <4>2, <4>3
    <3> QED BY <3>1, <3>2, <3>3
  <2> QED BY <2>1, <2>2, <2>3, <2>4, <2>7 DEF Conectado
<1>15. Conexiones'
  <2>1. Elems(pendientes)' = Elems(pendientes) /\ Elems(consolaDe)' = Elems(consolaDe)
    BY DEF Elems
  <2>2. aceptado # fd
    BY <1>2, <1>13 DEF Conectado
  <2>3. AceptadoSinProceso'
    <3>1. ASSUME aceptado # Ninguno PROVE fds'[aceptado] = fds[aceptado]
      <4>1. aceptado \in Descriptores
        BY <1>1, <3>1 DEF Tipos
      <4> QED BY <1>9, <2>2, <4>1
    <3> QED BY <1>1, <2>1, <3>1 DEF Conexiones, AceptadoSinProceso
  <2>4. PendientesSinProceso'
    BY <1>1, <2>1 DEF Conexiones, PendientesSinProceso
  <2> QED BY <1>14, <2>3, <2>4 DEF Conexiones, Conectados
<1>16. Mensajes'
  <2>1. \A d \in Consolas \ {c} : consola'[d] = consola[d] /\ haciaKernel'[d] = haciaKernel[d]
                                     /\ haciaConsola'[d] = haciaConsola[d]
    BY <1>10
  <2>2. ASSUME NEW p \in 1..pid_actual, consolaDe[p] # c
        PROVE  /\ (Acabo(p)' <=> Acabo(p))
               /\ ~Acabo(p) => /\ (hilo'[p] = "contestar" <=> hilo[p] = "contestar")
                               /\ hilo[p] = "contestar" => pcbs'[p] = pcbs[p]
    <3>1. p # q /\ p \in Pids
      BY <1>1, <2>2, PidsAlcanzan
    <3>2. hilo[p] = "contestar" => p \in DOMAIN pcbs
      BY <3>1, EnSuLugar
    <3> QED BY <1>5, <1>7, <3>1, <3>2
  <2>3. c \in Elems(consolaDe)
    BY <1>1, <1>2, ProcesosDe
  <2>4. ASSUME NEW p \in 1..pid_actual, consolaDe[p] = c PROVE Trato(p)'
    <3>1. p = q
      BY <1>1, <1>2, <2>4, PidsAlcanzan
    <3>2. consolaDe'[p] = c /\ ~(Acabo(p)') /\ hilo'[p] # "contestar"
      BY <1>5, <1>7, <2>4, <3>1
    <3>3. EnSilencio(c)'
      BY <1>10 DEF EnSilencio
    <3> QED BY <3>2, <3>3 DEF Trato, EnSilencio
  <2>5. UNCHANGED <<pid_actual, consolaDe>>
    OBVIOUS
  <2> QED BY <1>1, <2>1, <2>2, <2>3, <2>4, <2>5, DichoAUno
<1>17. GradoExacto'
  <2>1. Elems(cola_new)' = Elems(cola_new)
    BY DEF Elems
  <2>2. \A p : Admitido(p)' <=> Vive(p)' /\ p \notin Elems(cola_new)'
    BY DEF Admitido, Elems
  <2>3. \A p : Admitido(p)' <=> Admitido(p)
    BY <1>2, <1>7, <2>1, <2>2, AdmitidoEs
  <2> QED BY <1>1, <1>2, <2>3, CuentasCon
<1> QED BY <1>7, <1>12, <1>15, <1>16, <1>17 DEF InvE

\* Contestar keeps InvE: what it reads is the answer to what it asked, whole.
LEMMA AlContestar == ASSUME InvE, NEW q \in Pids, Contestar(q) PROVE InvE'
<1>1. PICK fd : fd = pcbs[q].socket_consola
  OBVIOUS
<1>2. PICK pcb : pcb = pcbs[q]
  OBVIOUS
<1>3. PICK i : i = obtener_ultima_instruccion(pcb)
  OBVIOUS
<1>4. /\ hilo[q] = "contestar" /\ hilo' = [hilo EXCEPT ![q] = "ninguno"]
      /\ UNCHANGED <<consola, haciaConsola, pendientes, aceptado, pid_actual, cola_new,
                     cola_dispositivo, cola_exit, multiprogramacion, cpu, memoria, consolaDe>>
      /\ \/ /\ HayDatos(fd)
            /\ IF i.parametro1 = "TECLADO" /\ Operacion(Flujo(fd)) = "OKI_TECLADO"
               THEN /\ Leido(fd, TrasPaquete(Flujo(fd)))
                    /\ PasarAReady(set_valor_registro(pcb, i.parametro2,
                                                      ValorString(Buffer(Flujo(fd)))))
               ELSE Leido(fd, TrasOperacion(Flujo(fd))) /\ PasarAReady(pcb)
            /\ fds' = fds
         \/ RecvFalla(fd) /\ Cerrar(fd) /\ PasarAReady(pcb) /\ haciaKernel' = haciaKernel
  BY <1>1, <1>2, <1>3 DEF Contestar, PuedeContestar, TrasDesbloquear
<1>5. Tipos /\ Conexiones /\ Pcbs
  BY DEF InvE
<1>6. /\ q \in DOMAIN pcbs /\ q \notin Elems(cola_exit) /\ q \in 1..pid_actual
      /\ BuenPcb(pcb, q) /\ Vive(q) /\ Socket(q) = fd
  BY <1>1, <1>2, <1>4, EnSuLugar
<1>7. PICK c \in Consolas : c = consolaDe[q]
  BY <1>5, <1>6, PidsAlcanzan
<1>8. EnDialogo(c, i.parametro1)
  <2>1. ~Acabo(q)
    BY <1>6 DEF Acabo
  <2> QED BY <1>2, <1>3, <1>4, <1>6, <1>7, <2>1, SegunTrato
<1>9. /\ Cerrado \notin Consolas
      /\ \/ fds[fd] = c
         \/ fds[fd] = Cerrado /\ consola[c] = "muerta" /\ haciaKernel[c] = <<>>
  BY <1>5, <1>6, <1>7, EjecucionAssumption DEF Conexiones, Conectados, Conectado
<1>10. Igual(pcb, pcbs[q])
  BY <1>2 DEF Igual
<1>11. CASE /\ HayDatos(fd)
            /\ IF i.parametro1 = "TECLADO" /\ Operacion(Flujo(fd)) = "OKI_TECLADO"
               THEN /\ Leido(fd, TrasPaquete(Flujo(fd)))
                    /\ PasarAReady(set_valor_registro(pcb, i.parametro2,
                                                      ValorString(Buffer(Flujo(fd)))))
               ELSE Leido(fd, TrasOperacion(Flujo(fd))) /\ PasarAReady(pcb)
            /\ fds' = fds
  <2>1. PICK k : k = haciaKernel[c]
    OBVIOUS
  <2>2. fds[fd] = c /\ Flujo(fd) = k /\ k # <<>>
    BY <1>9, <1>11, <2>1 DEF HayDatos, Flujo
  <2>3. haciaConsola[c] = <<>> /\ consola[c] \in {"atiende", "muerta"}
        /\ Respuesta(i.parametro1, k)
    BY <1>8, <2>1, <2>2 DEF EnDialogo
  <2>4. CASE i.parametro1 = "TECLADO"
    <3>1. PICK v \in Int : k = ValorConCodigo(v, "OKI_TECLADO")
      BY <2>3, <2>4 DEF Respuesta
    <3>2. Operacion(k) = "OKI_TECLADO" /\ TrasPaquete(k) = <<>>
      BY <3>1, ValorSolo
    <3>3. PICK nuevo : nuevo = set_valor_registro(pcb, i.parametro2, ValorString(Buffer(k)))
      OBVIOUS
    <3>4. haciaKernel' = [haciaKernel EXCEPT ![c] = <<>>] /\ PasarAReady(nuevo)
      BY <1>11, <2>2, <2>4, <3>2, <3>3 DEF Leido
    <3>5. PICK valor : valor = atoi(ValorString(Buffer(k)))
      OBVIOUS
    <3>6. nuevo = set_valor_en_registro(pcb, i.parametro2, valor) /\ valor \in Int
      BY <3>3, <3>5, NumeroTexto DEF set_valor_registro
    <3>7. BuenPcb(nuevo, q) /\ Igual(nuevo, pcbs[q])
      BY <1>2, <1>6, <3>6, Asigna DEF Quieto
    <3>8. fds' = fds
      BY <1>11
    <3> QED BY <1>1, <1>4, <1>7, <2>3, <3>4, <3>7, <3>8, AlSeguir
  <2>5. CASE i.parametro1 # "TECLADO"
    <3>1. TrasOperacion(k) = <<>>
      BY <2>3, <2>5, CodigoSolo DEF Respuesta
    <3>2. haciaKernel' = [haciaKernel EXCEPT ![c] = <<>>] /\ PasarAReady(pcb)
      BY <1>11, <2>2, <2>5, <3>1 DEF Leido
    <3>3. fds' = fds
      BY <1>11
    <3> QED BY <1>1, <1>4, <1>6, <1>7, <1>10, <2>3, <3>2, <3>3, AlSeguir
  <2> QED BY <2>4, <2>5
<1>12. CASE RecvFalla(fd) /\ Cerrar(fd) /\ PasarAReady(pcb) /\ haciaKernel' = haciaKernel
  <2>1. consola[c] = "muerta" /\ haciaKernel[c] = <<>>
    BY <1>8, <1>9, <1>12 DEF RecvFalla, Terminada, EnDialogo
  <2>2. haciaConsola[c] = <<>>
    BY <1>8, <2>1 DEF EnDialogo
  <2>3. haciaKernel' = [haciaKernel EXCEPT ![c] = <<>>]
    <3>1. haciaKernel = [haciaKernel EXCEPT ![c] = haciaKernel[c]]
      BY SegunTrato
    <3>2. haciaKernel = [haciaKernel EXCEPT ![c] = <<>>]
      BY <2>1, <3>1
    <3> QED BY <1>12, <3>2
  <2>4. fds' = [fds EXCEPT ![fd] = Cerrado]
    BY <1>12 DEF Cerrar
  <2>5. PasarAReady(pcb)
    BY <1>12
  <2> QED BY <1>1, <1>4, <1>6, <1>7, <1>10, <2>1, <2>2, <2>3, <2>4, <2>5, AlSeguir
<1> QED BY <1>4, <1>11, <1>12

-----------------------------------------------------------------------------
(* The invariant *)

\* At the start there is no process and no connection.
LEMMA AlEmpezar == ASSUME Init PROVE InvE
<1>s. pcbs = <<>> /\ consolaDe = <<>> /\ pendientes = <<>> /\ pid_actual = 0 BY Zenon DEF Init
<1>v. /\ DOMAIN <<>> = {} /\ Len(<<>>) = 0 /\ \A S : <<>> \in Seq(S)
      /\ <<>> = [i \in {} |-> <<>>[i]] OBVIOUS
<1>0. DOMAIN pcbs = {} /\ pcbs = [p \in DOMAIN pcbs |-> pcbs[p]] BY <1>s, <1>v
<1>1. Grado \in Nat BY EjecucionAssumption
<1>2. consolaDe \in Seq(Consolas) /\ Len(consolaDe) = 0 /\ DOMAIN consolaDe = {} /\ pid_actual = 0
  BY <1>s, <1>v
<1>3. pendientes \in Seq(Consolas) /\ DOMAIN pendientes = {} /\ pendientes = <<>>
  BY <1>s, <1>v
<1>4. EsMemoria(memoria)
  <2>1. EsLista(<<>>) BY DEF EsLista
  <2>2. memoria = MemoriaVacia BY Zenon DEF Init
  <2>3. /\ DOMAIN MemoriaVacia = CamposMemoria /\ MemoriaVacia.tablas = <<>>
        /\ MemoriaVacia = [x \in CamposMemoria |-> MemoriaVacia[x]]
    BY DEF MemoriaVacia, CamposMemoria
  <2> QED BY <2>1, <2>2, <2>3 DEF EsMemoria
<1>5. Tipos
  <2>1. multiprogramacion \in Nat BY <1>1 DEF Init
  <2>2. consola \in [Consolas -> Formas] BY DEF Init, Formas
  <2>3. /\ DOMAIN haciaKernel = Consolas /\ haciaKernel = [c \in Consolas |-> haciaKernel[c]]
        /\ DOMAIN haciaConsola = Consolas /\ haciaConsola = [c \in Consolas |-> haciaConsola[c]]
    BY DEF Init
  <2>4. fds \in [Descriptores -> Consolas \cup {Cerrado}] /\ aceptado \in Descriptores \cup {Ninguno}
    BY DEF Init
  <2>5. hilo \in [Pids -> {"ninguno", "page fault", "pedir", "contestar"}] BY DEF Init
  <2> QED BY <1>0, <1>2, <1>3, <1>4, <2>1, <2>2, <2>3, <2>4, <2>5 DEF Tipos, SinRepetir
<1>6. cola_new = <<>> /\ cola_ready = <<>> /\ cola_dispositivo = <<>> /\ cola_exit = <<>>
  BY DEF Init
<1>7. Colas BY <1>6 DEF Colas, SinRepetir
<1>8. Bloqueados = {} BY DEF Init, Bloqueados
<1>9. Elems(<<>>) = {} BY DEF Elems
<1>10. EnUnLugar BY <1>6, <1>8, <1>9 DEF EnUnLugar
<1>11. cpu = Libre BY DEF Init
<1>12. EnCpuBien BY <1>11 DEF EnCpuBien
<1>13. Pcbs
  <2>1. \A p \in Pids : hilo[p] = "ninguno" BY DEF Init
  <2> QED BY <1>0, <1>6, <1>9, <1>12, <2>1 DEF Pcbs
<1>14. 1..pid_actual = {} BY <1>2
<1>15. Conexiones
  <2>1. aceptado = Ninguno /\ \A c \in Consolas : consola[c] = "sin iniciar" BY DEF Init
  <2>2. Elems(pendientes) = {} BY <1>3, <1>9
  <2>3. Conectados BY <1>14 DEF Conectados
  <2>4. AceptadoSinProceso BY <2>1 DEF AceptadoSinProceso
  <2>5. PendientesSinProceso BY <2>2 DEF PendientesSinProceso
  <2> QED BY <2>3, <2>4, <2>5 DEF Conexiones
<1>16. Mensajes
  <2>1. \A c \in Consolas : SinProceso(c) BY DEF Init, SinProceso
  <2> QED BY <1>14, <2>1 DEF Mensajes
<1>17. GradoExacto
  <2>1. {p \in 1..pid_actual : Admitido(p)} = {} BY <1>14
  <2>2. Cardinality({}) = 0 BY FS_EmptySet
  <2>3. multiprogramacion = Grado BY DEF Init
  <2> QED BY <1>1, <2>1, <2>2, <2>3 DEF GradoExacto
<1> QED BY <1>5, <1>7, <1>10, <1>13, <1>15, <1>16, <1>17 DEF InvE

\* A step that changes no variable.
LEMMA AlSeguirIgual == ASSUME InvE, UNCHANGED vars PROVE InvE'
<1>1. /\ Tipos /\ Colas /\ EnUnLugar /\ Pcbs /\ Conexiones /\ Mensajes /\ GradoExacto BY DEF InvE
<1>2. UNCHANGED <<deConsolas, conexiones, deKernel, cpu, memoria, consolaDe>> BY DEF vars, historia
<1>3. UNCHANGED <<deKernel, cpu, memoria, consolaDe>> BY <1>2
<1>4. /\ Colas' /\ EnUnLugar' /\ Pcbs' /\ GradoExacto'
      /\ \A p : (Vive(p) <=> Vive(p)') /\ Socket(p)' = Socket(p) /\ (Acabo(p)' <=> Acabo(p))
  BY <1>1, <1>3, KernelQuieto
<1>5. Tipos' BY <1>1, <1>2 DEF Tipos, deConsolas, conexiones, deKernel
<1>6. Conexiones' /\ Mensajes'
  <2>1. UNCHANGED <<deConsolas, conexiones, consolaDe, pid_actual>> /\ hilo' = hilo /\ pcbs' = pcbs
    BY <1>2 DEF deKernel
  <2> QED BY <1>1, <1>4, <2>1, SocketsQuietos
<1> QED BY <1>4, <1>5, <1>6 DEF InvE

\* InvE is inductive: one step for each action of the system.
LEMMA AlPaso == ASSUME ~Reuso, InvE, [Next]_vars PROVE InvE'
<1>1. CASE UNCHANGED vars BY <1>1, AlSeguirIgual
<1>2. ASSUME NEW c \in Consolas, Conectar(c) PROVE InvE' BY <1>2, AlConectar
<1>3. ASSUME NEW c \in Consolas, EnviarPrograma(c) PROVE InvE' BY <1>3, AlEnviar
<1>4. ASSUME NEW c \in Consolas, Atender(c) PROVE InvE' BY <1>4, AlAtender
<1>5. ASSUME NEW c \in Consolas, ContestarPantalla(c) PROVE InvE' BY <1>5, AlContestarPantalla
<1>6. ASSUME NEW c \in Consolas, Sigint(c) PROVE InvE' BY <1>6, AlMorir
<1>7. CASE AceptarConsola BY <1>7, AlAceptar
<1>8. CASE RecibirProceso BY <1>8, AlRecibir
<1>9. CASE CrearEstructuras BY <1>9, AlCrear
<1>10. CASE Despachar BY <1>10, AlDespachar
<1>11. CASE EjecutarInstruccion BY <1>11, AlEjecutar
<1>12. CASE Devolver BY <1>12, AlDevolver
<1>13. CASE Rajar BY <1>13, AlRajar
<1>14. CASE FinDispositivo BY <1>14, AlTerminarDispositivo
<1>15. ASSUME NEW p \in Pids, AtenderPageFault(p) PROVE InvE' BY <1>15, AlDesbloquearPorMemoria
<1>16. ASSUME NEW p \in Pids, Pedir(p) PROVE InvE' BY <1>16, AlPedir
<1>17. ASSUME NEW p \in Pids, Contestar(p) PROVE InvE' BY <1>17, AlContestar
<1> QED BY <1>1, <1>2, <1>3, <1>4, <1>5, <1>6, <1>7, <1>8, <1>9, <1>10, <1>11, <1>12, <1>13,
           <1>14, <1>15, <1>16, <1>17 DEF Next, DeConsola, Hilo

-----------------------------------------------------------------------------
(* What the invariant says *)

\* What the types and places of InvE say of the queues, of the CPU and of the free places.
LEMMA TiposDeInvE == ASSUME InvE PROVE TypeOK
<1>1. Tipos /\ EnUnLugar /\ GradoExacto /\ EnCpuBien BY DEF InvE, Pcbs
<1>2. pid_actual \in {0} \cup Pids /\ DOMAIN consolaDe = 1..pid_actual BY <1>1, PidsAlcanzan
<1>3. multiprogramacion \in 0..Grado
  <2> DEFINE S == {p \in 1..pid_actual : Admitido(p)}
  <2>1. IsFiniteSet(S)
    <3>1. pid_actual \in Nat BY <1>1 DEF Tipos
    <3>2. pid_actual \in Int BY <3>1
    <3>3. 1 \in Int OBVIOUS
    <3>4. IsFiniteSet(1..pid_actual) BY <3>2, <3>3, FS_Interval
    <3> QED BY <3>4, FS_Subset
  <2>2. Cardinality(S) \in Nat BY <2>1, FS_CardinalityType
  <2>3. multiprogramacion + Cardinality(S) = Grado BY <1>1 DEF GradoExacto
  <2>4. multiprogramacion \in Nat BY <1>1 DEF Tipos
  <2>5. Grado \in Nat BY EjecucionAssumption
  <2> HIDE DEF S
  <2> QED BY <2>2, <2>3, <2>4, <2>5
<1>4. \A cola \in {cola_new, cola_ready, cola_dispositivo, cola_exit} :
         \A i \in DOMAIN cola : cola[i] \in DOMAIN pcbs
  BY <1>1 DEF EnUnLugar, Elems
<1>5. cpu = Libre \/ cpu.pcb.pid \in (1..pid_actual) \ DOMAIN pcbs BY <1>1 DEF EnCpuBien
<1> QED BY <1>1, <1>2, <1>3, <1>4, <1>5 DEF TypeOK, Tipos

\* The PCB of a process that ended: in EXIT, past its last instruction or out of its segments.
LEMMA AcabadoEs ==
    ASSUME InvE, NEW p, Acabo(p) PROVE Acabado(p)
<1>1. Tipos /\ EnCpuBien /\ EnUnLugar /\ Pcbs BY DEF InvE, Pcbs
<1>2. CASE ~Vive(p) BY <1>2 DEF Acabado
<1>3. CASE p \in Elems(cola_exit)
  <2>1. p \in DOMAIN pcbs /\ Terminado(pcbs[p]) BY <1>1, <1>3 DEF EnUnLugar, Pcbs
  <2>2. PcbDe(p) = pcbs[p] BY <1>1, <2>1, DelCpu
  <2> QED BY <2>1, <2>2 DEF Acabado, Terminado
<1> QED BY <1>2, <1>3 DEF Acabo

\* Who waits for the answer of its console asked for TECLADO or PANTALLA.
LEMMA PideAlgo ==
    ASSUME InvE, NEW p \in Pids, hilo[p] = "contestar"
    PROVE  obtener_ultima_instruccion(pcbs[p]).parametro1 \in {"TECLADO", "PANTALLA"}
<1>1. Pcbs BY DEF InvE
<1>2. UltimaEsDeConsola(pcbs[p]) BY <1>1 DEF Pcbs
<1> QED BY <1>2 DEF UltimaEsDeConsola, EsDeConsola

\* What is in the sockets of a console, by what its process is doing.
LEMMA PedidoDeInvE == ASSUME InvE PROVE PedidoYRespuesta
<1> DEFINE pide(c) == {obtener_ultima_instruccion(pcbs[p]).parametro1 :
                          p \in {q \in Procesos(c) : hilo[q] = "contestar"}}
           Sano(c, k, m) ==
              /\ k = <<>> \/ m = <<>>
              /\ k # <<>> =>
                    \/ Operacion(k) = "PROCESO" /\ TrasPaquete(k) = <<>> /\ Procesos(c) = {}
                    \/ Operacion(k) = "OKI_TECLADO" /\ TrasPaquete(k) = <<>> /\ "TECLADO" \in pide(c)
                    \/ k = Codigo("OKI_PANTALLA") /\ "PANTALLA" \in pide(c)
              /\ m # <<>> =>
                    \/ m = Codigo("FINALIZAR") /\ \A p \in Procesos(c) : Acabado(p)
                    \/ m = Codigo("TECLADO") /\ "TECLADO" \in pide(c)
                    \/ Operacion(m) = "PANTALLA" /\ TrasPaquete(m) = <<>> /\ "PANTALLA" \in pide(c)
<1>1. Tipos BY DEF InvE
<1>2. ASSUME NEW c \in Consolas PROVE Sano(c, haciaKernel[c], haciaConsola[c])
  <2>1. PICK k, m : k = haciaKernel[c] /\ m = haciaConsola[c] OBVIOUS
  <2>2. CASE c \notin Elems(consolaDe)
    <3>1. SinProceso(c) BY <1>2, <2>2, SegunTrato
    <3>2. m = <<>> BY <2>1, <3>1 DEF SinProceso
    <3>3. Procesos(c) = {} BY <1>1, <1>2, <2>2, ProcesosDe
    <3>4. k # <<>> => Programa(c, k) BY <2>1, <3>1 DEF SinProceso
    <3>5. k # <<>> => Operacion(k) = "PROCESO" /\ TrasPaquete(k) = <<>>
      BY <1>2, <3>4, ProgramaRecibido
    <3> HIDE DEF pide
    <3> QED BY <2>1, <3>2, <3>3, <3>5
  <2>3. CASE c \in Elems(consolaDe)
    <3>1. PICK p \in 1..pid_actual : consolaDe[p] = c BY <1>1, <1>2, <2>3, ProcesosDe
    <3>2. Procesos(c) = {p} BY <1>1, <1>2, <3>1, ProcesosDe
    <3>3. p \in Pids BY <1>1, <3>1, PidsAlcanzan
    <3>4. CASE Acabo(p)
      <4>1. Despedida(c) BY <1>2, <3>1, <3>4, SegunTrato
      <4>2. k = <<>> /\ (m # <<>> => m = Codigo("FINALIZAR")) BY <2>1, <4>1 DEF Despedida
      <4>3. \A q \in Procesos(c) : Acabado(q) BY <3>2, <3>4, AcabadoEs
      <4> HIDE DEF pide
      <4> QED BY <2>1, <4>2, <4>3
    <3>5. CASE ~Acabo(p) /\ hilo[p] = "contestar"
      <4>1. PICK t : t = obtener_ultima_instruccion(pcbs[p]).parametro1 OBVIOUS
      <4>2. t \in {"TECLADO", "PANTALLA"} BY <3>3, <3>5, <4>1, PideAlgo
      <4>3. t \in pide(c) BY <3>2, <3>5, <4>1
      <4>4. EnDialogo(c, t) BY <1>2, <3>1, <3>5, <4>1, SegunTrato
      <4> HIDE DEF pide
      <4>5. /\ k = <<>> \/ m = <<>>
            /\ m # <<>> => Pedido(t, m)
            /\ k # <<>> => Respuesta(t, k)
        BY <2>1, <4>4 DEF EnDialogo
      <4>6. m # <<>> => \/ m = Codigo("TECLADO") /\ "TECLADO" \in pide(c)
                        \/ Operacion(m) = "PANTALLA" /\ TrasPaquete(m) = <<>> /\ "PANTALLA" \in pide(c)
        BY <4>2, <4>3, <4>5, ValorSolo DEF Pedido
      <4>7. k # <<>> => \/ Operacion(k) = "OKI_TECLADO" /\ TrasPaquete(k) = <<>> /\ "TECLADO" \in pide(c)
                        \/ k = Codigo("OKI_PANTALLA") /\ "PANTALLA" \in pide(c)
        BY <4>2, <4>3, <4>5, ValorSolo DEF Respuesta
      <4> QED BY <2>1, <4>5, <4>6, <4>7
    <3>6. CASE ~Acabo(p) /\ hilo[p] # "contestar"
      <4>1. EnSilencio(c) BY <1>2, <3>1, <3>6, SegunTrato
      <4>2. k = <<>> /\ m = <<>> BY <2>1, <4>1 DEF EnSilencio
      <4> HIDE DEF pide
      <4> QED BY <2>1, <4>2
    <3> HIDE DEF Sano, pide
    <3> QED BY <3>4, <3>5, <3>6
  <2> HIDE DEF Sano, pide
  <2> QED BY <2>2, <2>3
<1> QED BY <1>2 DEF PedidoYRespuesta

\* The PCBs that are about to cross the socket are such that their trip loses nothing.
LEMMA ViajeDeInvE == ASSUME InvE PROVE IdaYVuelta
<1>1. Pcbs /\ EnCpuBien /\ EnUnLugar BY DEF InvE, Pcbs
<1>2. ASSUME NEW pcb \in PorViajar PROVE \E p : BuenPcb(pcb, p)
  <2>1. CASE \E i \in DOMAIN cola_ready : pcb = pcbs[cola_ready[i]]
    <3>1. PICK i \in DOMAIN cola_ready : pcb = pcbs[cola_ready[i]] BY <2>1
    <3>2. cola_ready[i] \in DOMAIN pcbs BY <1>1, <3>1 DEF EnUnLugar, Elems
    <3> QED BY <1>1, <3>1, <3>2 DEF Pcbs
  <2>2. CASE pcb = cpu.pcb /\ cpu.estado = "devuelve"
    <3>1. cpu # Libre BY <2>2 DEF Libre
    <3> QED BY <1>1, <2>2, <3>1 DEF EnCpuBien
  <2> QED BY <1>2, <2>1, <2>2 DEF PorViajar
<1> QED BY <1>2, ViajaEntero DEF IdaYVuelta

\* InvE is an invariant of the system.
THEOREM InvarianteEjecucion == ASSUME ~Reuso PROVE Spec => []InvE
<1>1. Init => InvE BY AlEmpezar
<1>2. InvE /\ [Next]_vars => InvE' BY AlPaso
<1> QED BY <1>1, <1>2, PTL DEF Spec

\* TypeOK of the whole system, for any consoles, programs, segments and memory.
THEOREM TypeOKSiempre == ASSUME ~Reuso PROVE Spec => []TypeOK
<1>1. InvE => TypeOK BY TiposDeInvE
<1> QED BY <1>1, InvarianteEjecucion, PTL

\* A socket never has more than one message, whole, and of the kind its reader is about to
\* take, whatever the programs, the interruptions and the deaths of the consoles.
THEOREM PedidoYRespuestaSiempre == ASSUME ~Reuso PROVE Spec => []PedidoYRespuesta
<1>1. InvE => PedidoYRespuesta BY PedidoDeInvE
<1> QED BY <1>1, InvarianteEjecucion, PTL

\* The PCB goes to the CPU and back without a change, at every dispatch and every return.
THEOREM IdaYVueltaSiempre == ASSUME ~Reuso PROVE Spec => []IdaYVuelta
<1>1. InvE => IdaYVuelta BY ViajeDeInvE
<1> QED BY <1>1, InvarianteEjecucion, PTL

\* No place of multiprogramacion is lost or given twice.
THEOREM GradoExactoSiempre == ASSUME ~Reuso PROVE Spec => []GradoExacto
<1>1. InvE => GradoExacto BY DEF InvE
<1> QED BY <1>1, InvarianteEjecucion, PTL

-----------------------------------------------------------------------------
(* The address arithmetic of decode (module Mmu), for any page size and any    *)
(* number of entries: the translation loses no address and mixes up no two.    *)

\* The C division of natural numbers.
LEMMA Division ==
    ASSUME NEW a \in Nat, NEW b \in Nat \ {0}
    PROVE  /\ a = b * (a \div b) + (a % b)
           /\ a % b \in 0..(b - 1)
           /\ a \div b \in Nat
OBVIOUS

\* And its inverse.
LEMMA Cociente ==
    ASSUME NEW b \in Nat \ {0}, NEW q \in Nat, NEW r \in 0..(b - 1)
    PROVE  /\ (b * q + r) \div b = q
           /\ (b * q + r) % b = r
OBVIOUS

\* A product of positive numbers is positive.
LEMMA Producto ==
    ASSUME NEW a \in Nat \ {0}, NEW b \in Nat \ {0}
    PROVE  a * b \in Nat \ {0}
OBVIOUS

\* The quotient of what is below e * t is below e.
LEMMA CocienteAcotado ==
    ASSUME NEW e \in Nat \ {0}, NEW t \in Nat \ {0}, NEW a \in 0..(e * t - 1)
    PROVE  a \div t \in 0..(e - 1)
<1> DEFINE q == a \div t
<1>0. a \in Nat
  BY Producto
<1>1. q \in Nat /\ a = t * q + (a % t) /\ a % t \in 0..(t - 1)
  BY ONLY <1>0, t \in Nat \ {0}, Division
<1> HIDE DEF q
<1>2. t * q <= a
  BY <1>1
<1>3. ASSUME q >= e PROVE FALSE
  <2>1. t * q >= t * e
    BY <1>1, <1>3
  <2>2. QED
    BY <1>1, <1>2, <2>1
<1>4. QED
  BY <1>1, <1>3 DEF q

\* The segment, page and offset decode takes from an address are in range, and the
\* address can be rebuilt from them: nothing of it is lost.
THEOREM DireccionCompleta ==
    ASSUME NEW entradas \in Nat \ {0}, NEW tamanio_pagina \in Nat \ {0}, NEW dir \in Nat
    PROVE  LET tam == TamMaxSegmento(entradas, tamanio_pagina)
               s == obtener_nro_segmento(dir, tam)
               p == obtener_nro_pagina(dir, tam, tamanio_pagina)
               d == obtener_desplazamiento_pagina(dir, tam, tamanio_pagina)
           IN /\ s \in Nat /\ p \in 0..(entradas - 1) /\ d \in 0..(tamanio_pagina - 1)
              /\ dir = tam * s + (tamanio_pagina * p + d)
<1> DEFINE tam == entradas * tamanio_pagina
           resto == dir % tam
<1>1. tam \in Nat \ {0}
  BY Producto
<1>2. /\ dir = tam * (dir \div tam) + resto
      /\ resto \in 0..(tam - 1) /\ dir \div tam \in Nat
  BY <1>1, Division
<1>3. /\ resto = tamanio_pagina * (resto \div tamanio_pagina) + (resto % tamanio_pagina)
      /\ resto % tamanio_pagina \in 0..(tamanio_pagina - 1)
  <2>1. resto \in Nat
    BY <1>1, <1>2
  <2> HIDE DEF resto
  <2>2. QED
    BY <2>1, Division
<1>4. resto \div tamanio_pagina \in 0..(entradas - 1)
  BY <1>2, CocienteAcotado
<1>5. QED
  BY <1>2, <1>3, <1>4 DEF TamMaxSegmento, obtener_nro_segmento, obtener_nro_pagina,
       obtener_desplazamiento_pagina, obtener_desplazamiento_segmento

\* Every segment, page and offset in range is that of one address: two pages of a
\* process never share one.
THEOREM DireccionUnica ==
    ASSUME NEW entradas \in Nat \ {0}, NEW tamanio_pagina \in Nat \ {0},
           NEW s \in Nat, NEW p \in 0..(entradas - 1), NEW d \in 0..(tamanio_pagina - 1)
    PROVE  LET tam == TamMaxSegmento(entradas, tamanio_pagina)
               dir == tam * s + (tamanio_pagina * p + d)
           IN /\ obtener_nro_segmento(dir, tam) = s
              /\ obtener_nro_pagina(dir, tam, tamanio_pagina) = p
              /\ obtener_desplazamiento_pagina(dir, tam, tamanio_pagina) = d
<1> DEFINE tam == entradas * tamanio_pagina
           resto == tamanio_pagina * p + d
<1>1. tam \in Nat \ {0}
  BY Producto
<1>2. resto \in 0..(tam - 1)
  <2>1. tamanio_pagina * p \in Nat /\ tamanio_pagina * p <= tamanio_pagina * (entradas - 1)
    OBVIOUS
  <2>2. tamanio_pagina * (entradas - 1) = tam - tamanio_pagina
    OBVIOUS
  <2>3. QED
    BY <1>1, <2>1, <2>2
<1>3. resto \div tamanio_pagina = p /\ resto % tamanio_pagina = d
  BY Cociente
<1>4. (tam * s + resto) \div tam = s /\ (tam * s + resto) % tam = resto
  <2> HIDE DEF tam, resto
  <2>1. QED
    BY <1>1, <1>2, Cociente
<1>5. QED
  BY <1>3, <1>4 DEF TamMaxSegmento, obtener_nro_segmento, obtener_nro_pagina,
       obtener_desplazamiento_pagina, obtener_desplazamiento_segmento

\* The physical addresses of a frame are its own: two accesses reach the same byte only
\* if they name the same frame and offset, and none is beyond the memory.
THEOREM DireccionFisicaPropia ==
    ASSUME NEW t \in Nat \ {0}, NEW marcos \in Nat \ {0},
           NEW m1 \in 0..(marcos - 1), NEW d1 \in 0..(t - 1),
           NEW m2 \in 0..(marcos - 1), NEW d2 \in 0..(t - 1)
    PROVE  /\ DireccionFisica(m1, t, d1) \in 0..(marcos * t - 1)
           /\ DireccionFisica(m1, t, d1) = DireccionFisica(m2, t, d2) => m1 = m2 /\ d1 = d2
<1>1. DireccionFisica(m1, t, d1) = t * m1 + d1 /\ DireccionFisica(m2, t, d2) = t * m2 + d2
  BY DEF DireccionFisica
<1>2. t * m1 + d1 = t * m2 + d2 => m1 = m2 /\ d1 = d2
  <2>1. (t * m1 + d1) \div t = m1 /\ (t * m1 + d1) % t = d1
    BY Cociente
  <2>2. (t * m2 + d2) \div t = m2 /\ (t * m2 + d2) % t = d2
    BY Cociente
  <2>3. QED
    BY <2>1, <2>2
<1>3. t * m1 + d1 \in 0..(marcos * t - 1)
  <2>1. t * m1 \in Nat /\ t * m1 <= t * (marcos - 1)
    OBVIOUS
  <2>2. t * (marcos - 1) = marcos * t - t /\ marcos * t \in Nat
    OBVIOUS
  <2>3. QED
    BY <2>1, <2>2
<1>4. QED
  BY <1>1, <1>2, <1>3
\* string_itoa and atoi: an int comes back as it was, and any other number as the int that
\* has its bits.
LEMMA NumeroEntero ==
    /\ \A n \in Int : atoi(string_itoa(n)) = ConSigno(n)
    /\ \A n \in Enteros : n \in Int /\ ConSigno(n) = n
<1> DEFINE h == Modulo \div 2
<1>1. Modulo \in Nat \ {0} /\ h \in Nat /\ Modulo = 2 * h /\ h > 0
  BY ModuloAssumption
<1>2. Enteros = (-h)..(h - 1)
  BY DEF Enteros
<1>3. ASSUME NEW n \in Enteros PROVE n \in Int /\ ConSigno(n) = n
  <2>1. n \in Int /\ -h <= n /\ n <= h - 1
    BY <1>1, <1>2
  <2>0. ConSigno(n) = IF n % Modulo < h THEN n % Modulo ELSE (n % Modulo) - Modulo
    BY DEF ConSigno, SinSigno
  <2> HIDE DEF h
  <2>2. CASE n >= 0
    <3>1. n % Modulo = n
      BY <1>1, <2>1, <2>2
    <3> QED BY <1>1, <2>0, <2>1, <3>1
  <2>3. CASE n < 0
    <3>1. n % Modulo = n + Modulo
      <4>1. n + Modulo \in 0..(Modulo - 1)
        BY <1>1, <2>1, <2>3
      <4> DEFINE k == n + Modulo
      <4>2. n = Modulo * (-1) + k
        BY <1>1, <2>1
      <4>3. n \div Modulo = -1 /\ n % Modulo = k
        <5>1. n = Modulo * (n \div Modulo) + (n % Modulo) /\ n % Modulo \in 0..(Modulo - 1)
              /\ n \div Modulo \in Int
          BY <1>1, <2>1
        <5> DEFINE c == n \div Modulo
        <5>2. Modulo * (c + 1) = k - (n % Modulo)
          BY <1>1, <2>1, <5>1
        <5>4. c \in Int /\ k - (n % Modulo) < Modulo /\ k - (n % Modulo) > -Modulo
          BY <1>1, <2>1, <4>1, <5>1
        <5> DEFINE d == k - (n % Modulo)
        <5> HIDE DEF c, k, d
        <5>5. ASSUME c + 1 >= 1 PROVE Modulo * (c + 1) >= Modulo
          BY ONLY <1>1, <5>4, <5>5
        <5>6. ASSUME c + 1 <= -1 PROVE Modulo * (c + 1) <= -Modulo
          BY ONLY <1>1, <5>4, <5>6
        <5>3. c + 1 = 0
          BY <1>1, <5>2, <5>4, <5>5, <5>6 DEF d
        <5> QED BY <1>1, <2>1, <5>1, <5>3 DEF c, k
      <4> QED BY <4>3
    <3>2. n + Modulo >= h
      BY <1>1, <2>1
    <3> QED BY <2>0, <2>1, <3>1, <3>2, <1>1
  <2> QED BY <2>1, <2>2, <2>3
<1>4. ASSUME NEW n \in Int PROVE atoi(string_itoa(n)) = ConSigno(n)
  <2> DEFINE c == ConSigno(n)
             t == Numeral[c]
  <2>1. c \in Enteros
    BY NumeroTexto
  <2> HIDE DEF c
  <2>2. t \in {Numeral[m] : m \in Enteros} /\ string_itoa(n) = t
    BY <2>1 DEF string_itoa, c
  <2>3. Numerado[t] = CHOOSE m \in Enteros : Numeral[m] = t
    BY <2>2 DEF Numerado
  <2>4. ASSUME NEW m \in Enteros, Numeral[m] = t PROVE m = c
    <3>1. ToString(m) = ToString(c)
      BY <2>1, <2>4 DEF Numeral
    <3> QED BY <2>1, <3>1, NumeralAssumption
  <2>5. (CHOOSE m \in Enteros : Numeral[m] = t) = c
    BY <2>1, <2>4
  <2>6. t \in DOMAIN Numerado
    BY <2>2 DEF Numerado
  <2> HIDE DEF t
  <2> QED BY <2>2, <2>3, <2>5, <2>6 DEF atoi, c
<1> QED BY <1>3, <1>4

\* A number sent with a code (enviar_valor_con_codigo) is the one recibir_valor returns, cut
\* to an int.
LEMMA ValorLeido ==
    ASSUME NEW v \in Int, NEW x
    PROVE  Valor(Buffer(ValorConCodigo(v, x))) = ConSigno(v)
<1> DEFINE t == string_itoa(v)
           b == Texto(t)
<1>1. EsTexto(t) /\ atoi(t) = ConSigno(v)
  BY NumeroTexto, NumeroEntero
<1>2. Buffer(ValorConCodigo(v, x)) = b
  BY ValorSolo
<1> HIDE DEF t
<1>3. EsFlujo(b) /\ Len(b) = AnchoTexto(t)
  BY <1>1, TextoFlujo
<1>4. Leer(b, 0, "texto", AnchoTexto(t), "") = t
  BY <1>1, <1>3, TieneTodo, TextoLeido
<1>5. ValorString(b) = t
  BY <1>3, <1>4 DEF ValorString
<1> HIDE DEF b
<1> QED BY <1>1, <1>2, <1>5 DEF Valor

\* A page on its own in a message.
LEMMA PaginaSola ==
    ASSUME NEW a, NEW b
    PROVE  /\ <<a, b>> # Nulo /\ EsFlujo(empaquetar_pagina(<<a, b>>))
           /\ deserializar_pagina(empaquetar_pagina(<<a, b>>), 0) = <<a, b>>
           /\ \A x : deserializar_pagina(Buffer(Paquete(x, empaquetar_pagina(<<a, b>>))), 0) = <<a, b>>
<1> DEFINE s == empaquetar_pagina(<<a, b>>)
<1>1. EsFlujo(s)
  BY PaginaFlujo
<1>2. /\ <<a, b>> # Nulo
      /\ deserializar_pagina((<<>> \o empaquetar_pagina(<<a, b>>)) \o <<>>, Len(<<>>)) = <<a, b>>
  BY Vacio, PaginaEntera
<1>3. (<<>> \o s) \o <<>> = s /\ Len(<<>>) = 0
  <2> HIDE DEF s
  <2> QED BY <1>1, Vacio
<1>4. deserializar_pagina(s, 0) = <<a, b>>
  BY <1>2, <1>3
<1>5. \A x : Buffer(Paquete(x, s)) = s
  <2> HIDE DEF s
  <2> QED BY <1>1, PaqueteSolo
<1> QED BY <1>1, <1>2, <1>4, <1>5

-----------------------------------------------------------------------------
(* What makes SinFugas inductive: the memory, the TLB and the PCBs together    *)

\* The places of the entries there are.
LasPaginas(mem) == (0..(Len(mem.tablas) - 1)) \X (0..(EntradasPorTabla - 1))

EsEntrada(e) ==
    "marco" \in DOMAIN e /\ "presencia" \in DOMAIN e /\ (e.presencia => e.marco \in Marcos)

\* The memory, for SinFugas: an entry that is present has a frame, and a frame that has an
\* owner is that of a present entry of a table of the owner.
BuenaMemoria(mem) ==
    /\ \A k \in DOMAIN mem.tablas : /\ DOMAIN mem.tablas[k] = {"pid", "entradas"}
                                    /\ DOMAIN mem.tablas[k].entradas = 0..(EntradasPorTabla - 1)
    /\ \A x \in LasPaginas(mem) : EsEntrada(Entrada(mem, x))
    /\ DOMAIN mem.marcos = Marcos
    /\ \A m \in Marcos : mem.marcos[m] # PidLibre =>
          \E x \in Cargadas(mem, mem.marcos[m]) : Entrada(mem, x).marco = m

\* The PCB of an admitted process: its segments are its tables, its addresses are in them,
\* and the page it waits for is one of its own that is not in memory.
PcbConMemoria(pcb, p, mem) ==
    /\ \A i \in DOMAIN pcb.tabla_de_segmentos :
          LET k == pcb.tabla_de_segmentos[i].indice_tabla_paginas IN
          k \in 0..(Len(mem.tablas) - 1) /\ mem.tablas[k + 1].pid = p
    /\ Direccionable(pcb.instrucciones, Len(pcb.tabla_de_segmentos))
    /\ pcb.page_fault => /\ pcb.pagina_fault \in PaginasDe(mem, p)
                         /\ ~Entrada(mem, pcb.pagina_fault).presencia

\* The PCB of one that waits in NEW: it will have the tables its addresses need, and an int
\* their indices.
PorAdmitir(pcb) ==
    /\ ~pcb.page_fault /\ Direccionable(pcb.instrucciones, Len(pcb.tamanio_segmentos))
    /\ Len(pcb.tamanio_segmentos) * Cardinality(Consolas) \in Enteros

\* Tables are of admitted processes, and so many that an int holds their indices.
TablasDeAdmitidos ==
    /\ \A k \in DOMAIN memoria.tablas : memoria.tablas[k].pid \in (1..pid_actual) \ Elems(cola_new)
    /\ Len(memoria.tablas) * Cardinality(Consolas)
           <= ((Modulo \div 2) - 1) * (pid_actual - Len(cola_new))

\* The TLB has frames.
BuenaTlb(t) == \A c \in Claves(t) : t.marco[c] # NoEsta

\* What makes SinFugas inductive, given InvE.
InvM ==
    /\ SinFugas /\ BuenaMemoria(memoria) /\ TablasDeAdmitidos
    /\ \A p \in Elems(cola_new) : PorAdmitir(pcbs[p])
    /\ \A p \in 1..pid_actual : Admitido(p) => PcbConMemoria(PcbDe(p), p, memoria)
    /\ \A p \in Pids : hilo[p] = "page fault" => pcbs[p].page_fault
    /\ BuenaTlb(tlb)

-----------------------------------------------------------------------------
(* What each handler of the memory does to frames and entries *)

\* n has the tables of mem and their pids, and is like mem but for the pages of p.
RespetaA(mem, n, p) ==
    /\ Len(mem.tablas) <= Len(n.tablas)
    /\ \A k \in DOMAIN mem.tablas : n.tablas[k].pid = mem.tablas[k].pid
    /\ \A x \in LasPaginas(mem) :
          PidDe(mem, x) # p => Entrada(n, x).presencia = Entrada(mem, x).presencia

\* n is like mem, but for what its pages hold.
Intacta(mem, n) ==
    /\ BuenaMemoria(n) /\ n.marcos = mem.marcos /\ Len(n.tablas) = Len(mem.tablas)
    /\ \A q : RespetaA(mem, n, q)

\* The places of the entries, and the tables they are in.
LEMMA DeTabla ==
    ASSUME NEW mem, EsMemoria(mem), NEW x \in LasPaginas(mem)
    PROVE  /\ x = <<x[1], x[2]>> /\ x[1] \in Nat /\ x[1] + 1 \in DOMAIN mem.tablas
           /\ DOMAIN mem.tablas = 1..Len(mem.tablas) /\ Len(mem.tablas) \in Nat
           /\ x[2] \in 0..(EntradasPorTabla - 1)
<1>1. DOMAIN mem.tablas = 1..Len(mem.tablas) /\ Len(mem.tablas) \in Nat
  BY DeLista DEF EsMemoria
<1>2. /\ x = <<x[1], x[2]>> /\ x[1] \in 0..(Len(mem.tablas) - 1)
      /\ x[2] \in 0..(EntradasPorTabla - 1)
  BY DEF LasPaginas
<1> QED BY <1>1, <1>2

\* An entry changes: the others, the pids of the tables and the frames stay.
LEMMA EntradaPuesta ==
    ASSUME NEW mem, EsMemoria(mem), NEW x \in LasPaginas(mem), NEW e,
           \A k \in DOMAIN mem.tablas : /\ DOMAIN mem.tablas[k] = {"pid", "entradas"}
                /\ DOMAIN mem.tablas[k].entradas = 0..(EntradasPorTabla - 1)
    PROVE  LET n == ConEntrada(mem, x, e) IN
           /\ EsMemoria(n) /\ n.marcos = mem.marcos /\ Len(n.tablas) = Len(mem.tablas)
           /\ LasPaginas(n) = LasPaginas(mem)
           /\ DOMAIN n.tablas = DOMAIN mem.tablas
           /\ \A k \in DOMAIN n.tablas : /\ DOMAIN n.tablas[k] = {"pid", "entradas"}
                 /\ DOMAIN n.tablas[k].entradas = 0..(EntradasPorTabla - 1)
                 /\ n.tablas[k].pid = mem.tablas[k].pid
           /\ Entrada(n, x) = e
           /\ \A y \in LasPaginas(mem) : /\ PidDe(n, y) = PidDe(mem, y)
                                         /\ y # x => Entrada(n, y) = Entrada(mem, y)
<1> DEFINE k == x[1] + 1
           n == ConEntrada(mem, x, e)
           ents == [mem.tablas[k].entradas EXCEPT ![x[2]] = e]
           tab == [mem.tablas[k] EXCEPT !.entradas = ents]
           ts == [mem.tablas EXCEPT ![k] = tab]
<1>1. k \in DOMAIN mem.tablas /\ x[2] \in 0..(EntradasPorTabla - 1) /\ x = <<x[1], x[2]>>
      /\ x[1] \in Nat /\ DOMAIN mem.tablas = 1..Len(mem.tablas) /\ Len(mem.tablas) \in Nat
  BY DeTabla
<1>2. n = [mem EXCEPT !.tablas = ts]
  BY DEF ConEntrada, EsMemoria, CamposMemoria
<1>3. EsMemoria(n)
  BY EntradaCambiada
<1> HIDE DEF n, k
<1>4. n.tablas = ts /\ n.marcos = mem.marcos
  <2> HIDE DEF ts
  <2> QED BY <1>2 DEF EsMemoria, CamposMemoria
<1>5. /\ DOMAIN ents = 0..(EntradasPorTabla - 1) /\ ents[x[2]] = e
      /\ \A j \in 0..(EntradasPorTabla - 1) : j # x[2] => ents[j] = mem.tablas[k].entradas[j]
  BY <1>1
<1> HIDE DEF ents
<1>6. DOMAIN tab = {"pid", "entradas"} /\ tab.entradas = ents /\ tab.pid = mem.tablas[k].pid
  BY <1>1
<1> HIDE DEF tab
<1>7. /\ DOMAIN ts = DOMAIN mem.tablas /\ ts[k] = tab
      /\ \A j \in DOMAIN mem.tablas : j # k => ts[j] = mem.tablas[j]
  BY <1>1
<1> HIDE DEF ts
<1>8. Len(n.tablas) = Len(mem.tablas)
  <2>1. DOMAIN n.tablas = 1..Len(n.tablas) /\ Len(n.tablas) \in Nat
    BY <1>3, DeLista DEF EsMemoria
  <2> QED BY <2>1, <1>1, <1>4, <1>7
<1>9. LasPaginas(n) = LasPaginas(mem)
  BY <1>8 DEF LasPaginas
<1>10. \A j \in DOMAIN n.tablas : /\ DOMAIN n.tablas[j] = {"pid", "entradas"}
                 /\ DOMAIN n.tablas[j].entradas = 0..(EntradasPorTabla - 1)
                 /\ n.tablas[j].pid = mem.tablas[j].pid
  BY <1>4, <1>5, <1>6, <1>7
<1>11. Entrada(n, x) = e
  BY <1>4, <1>5, <1>6, <1>7 DEF Entrada, k
<1>12. ASSUME NEW y \in LasPaginas(mem)
       PROVE  PidDe(n, y) = PidDe(mem, y) /\ (y # x => Entrada(n, y) = Entrada(mem, y))
  <2>1. y = <<y[1], y[2]>> /\ y[1] + 1 \in DOMAIN mem.tablas /\ y[1] \in Nat
        /\ y[2] \in 0..(EntradasPorTabla - 1)
    BY DeTabla
  <2>2. PidDe(n, y) = PidDe(mem, y)
    BY <2>1, <1>4, <1>7, <1>10 DEF PidDe
  <2>3. CASE y[1] = x[1]
    <3>1. y # x => y[2] # x[2]
      BY <2>1, <2>3, <1>1
    <3>2. y[1] + 1 = k
      BY <2>3 DEF k
    <3>3. y # x => n.tablas[k].entradas[y[2]] = mem.tablas[k].entradas[y[2]]
      BY <2>1, <3>1, <1>4, <1>5, <1>6, <1>7
    <3> QED BY <2>2, <3>2, <3>3 DEF Entrada
  <2>4. CASE y[1] # x[1]
    <3>1. y[1] + 1 # k
      BY <2>1, <2>4, <1>1 DEF k
    <3> QED BY <2>1, <2>2, <3>1, <1>4, <1>7 DEF Entrada
  <2> QED BY <2>3, <2>4
<1>13. DOMAIN n.tablas = DOMAIN mem.tablas
  BY <1>4, <1>7
<1> QED BY <1>3, <1>4, <1>8, <1>9, <1>10, <1>11, <1>12, <1>13 DEF n

\* An entry changes and its page stays as present as it was, in the same frame.
LEMMA EntradaIgual ==
    ASSUME NEW mem, EsMemoria(mem), BuenaMemoria(mem), NEW x \in LasPaginas(mem), NEW e,
           EsEntrada(e), e.marco = Entrada(mem, x).marco,
           e.presencia = Entrada(mem, x).presencia
    PROVE  LET n == ConEntrada(mem, x, e) IN
           /\ BuenaMemoria(n) /\ n.marcos = mem.marcos /\ Len(n.tablas) = Len(mem.tablas)
           /\ \A q : RespetaA(mem, n, q)
<1> DEFINE n == ConEntrada(mem, x, e)
<1>1. \A k \in DOMAIN mem.tablas : /\ DOMAIN mem.tablas[k] = {"pid", "entradas"}
                /\ DOMAIN mem.tablas[k].entradas = 0..(EntradasPorTabla - 1)
  BY DEF BuenaMemoria
<1>2. /\ EsMemoria(n) /\ n.marcos = mem.marcos /\ Len(n.tablas) = Len(mem.tablas)
      /\ LasPaginas(n) = LasPaginas(mem)
      /\ DOMAIN n.tablas = DOMAIN mem.tablas
      /\ \A k \in DOMAIN n.tablas : /\ DOMAIN n.tablas[k] = {"pid", "entradas"}
                 /\ DOMAIN n.tablas[k].entradas = 0..(EntradasPorTabla - 1)
                 /\ n.tablas[k].pid = mem.tablas[k].pid
      /\ Entrada(n, x) = e
      /\ \A y \in LasPaginas(mem) : /\ PidDe(n, y) = PidDe(mem, y)
                                    /\ y # x => Entrada(n, y) = Entrada(mem, y)
  BY <1>1, EntradaPuesta
<1> HIDE DEF n
<1>3. ASSUME NEW y \in LasPaginas(mem)
      PROVE  /\ EsEntrada(Entrada(n, y))
             /\ Entrada(n, y).presencia = Entrada(mem, y).presencia
             /\ Entrada(n, y).marco = Entrada(mem, y).marco
  <2>1. EsEntrada(Entrada(mem, y))
    BY Zenon DEF BuenaMemoria
  <2> QED BY <2>1, <1>2
<1>4. \A p : Cargadas(n, p) = Cargadas(mem, p) /\ Cargadas(mem, p) \subseteq LasPaginas(mem)
  BY <1>2, <1>3 DEF Cargadas, PaginasDe, LasPaginas
<1>5. ASSUME NEW m \in Marcos, n.marcos[m] # PidLibre
      PROVE  \E y \in Cargadas(n, n.marcos[m]) : Entrada(n, y).marco = m
  <2>1. PICK y \in Cargadas(mem, mem.marcos[m]) : Entrada(mem, y).marco = m
    BY <1>2, <1>5 DEF BuenaMemoria
  <2> QED BY <2>1, <1>2, <1>3, <1>4
<1>6. DOMAIN n.marcos = Marcos
  BY <1>2 DEF BuenaMemoria
<1>7. BuenaMemoria(n)
  BY <1>2, <1>3, <1>5, <1>6 DEF BuenaMemoria
<1>8. \A q : RespetaA(mem, n, q)
  <2>1. Len(mem.tablas) \in Nat
    BY DeLista DEF EsMemoria
  <2> QED BY <1>2, <1>3, <2>1 DEF RespetaA
<1> QED BY <1>2, <1>7, <1>8 DEF n

\* What only the bytes of the frames change.
LEMMA EspacioAparte ==
    ASSUME NEW mem, EsMemoria(mem), NEW x
    PROVE  LET n == [mem EXCEPT !.espacio = x] IN
           /\ EsMemoria(n) /\ n.marcos = mem.marcos /\ n.tablas = mem.tablas
           /\ BuenaMemoria(mem) => BuenaMemoria(n)
<1> DEFINE n == [mem EXCEPT !.espacio = x]
<1>1. EsMemoria(n)
  BY MemoriaCambiada DEF EsMemoria
<1>2. n.marcos = mem.marcos /\ n.tablas = mem.tablas
  BY DEF EsMemoria, CamposMemoria
<1> HIDE DEF n
<1>3. BuenaMemoria(mem) => BuenaMemoria(n)
  BY <1>2 DEF BuenaMemoria, LasPaginas, Entrada, Cargadas, PaginasDe, PidDe
<1> QED BY <1>1, <1>2, <1>3 DEF n

\* atender_pedido_de_escritura leaves frames and presence as they are.
LEMMA AlEscribirMemoria ==
    ASSUME NEW mem, EsMemoria(mem), BuenaMemoria(mem), NEW x \in LasPaginas(mem), NEW dir, NEW v
    PROVE  Intacta(mem, AtenderPedidoDeEscritura(mem,
               Paquete("ESCRIBIR", empaquetar_pagina(x)) \o Entero(dir) \o Entero(v)).mem)
<1> DEFINE flujo == (Paquete("ESCRIBIR", empaquetar_pagina(x)) \o Entero(dir)) \o Entero(v)
           k == LeerEntero(TrasPaquete(flujo), 0)
           w == LeerEntero(TrasPaquete(flujo), AnchoInt)
           m == [mem EXCEPT !.espacio[k] = w]
           y == [mem.espacio EXCEPT ![k] = w]
           e == [Entrada(mem, x) EXCEPT !.modificado = TRUE]
<1>1. deserializar_pagina(Buffer(flujo), 0) = x
  <2> DEFINE s == empaquetar_pagina(x)
  <2>1. EsFlujo(s) /\ EsFlujo(Entero(dir)) /\ EsFlujo(Entero(v))
    BY PaginaFlujo, Anchos
  <2>2. flujo = Paquete("ESCRIBIR", s) \o (Entero(dir) \o Entero(v))
    <3>1. EsFlujo(Paquete("ESCRIBIR", s))
      <4> HIDE DEF s
      <4>1. EsFlujo(Codigo("ESCRIBIR")) /\ EsFlujo(Entero(Len(s)))
        BY Anchos
      <4> QED BY <2>1, <4>1, Concatenado DEF Paquete
    <3> HIDE DEF s
    <3> QED BY <2>1, <3>1, Asociativa DEF s
  <2>3. EsFlujo(Entero(dir) \o Entero(v))
    BY <2>1, Concatenado
  <2>4. Buffer(flujo) = s
    <3> HIDE DEF s, flujo
    <3> QED BY <2>1, <2>2, <2>3, MensajeEntero
  <2>5. x = <<x[1], x[2]>>
    BY DeTabla
  <2>6. deserializar_pagina(s, 0) = x
    BY <2>5, PaginaSola
  <2> QED BY <2>4, <2>6
<1>2. AtenderPedidoDeEscritura(mem, flujo).mem = ConEntrada(m, x, e)
  <2> HIDE DEF flujo
  <2> QED BY <1>1 DEF AtenderPedidoDeEscritura
<1>3. m = [mem EXCEPT !.espacio = y]
  <2> HIDE DEF k, w
  <2> QED BY DEF EsMemoria, CamposMemoria
<1> HIDE DEF flujo
<1>4. EsMemoria(m) /\ BuenaMemoria(m) /\ m.marcos = mem.marcos /\ m.tablas = mem.tablas
  <2> HIDE DEF y, m
  <2> QED BY <1>3, EspacioAparte
<1> HIDE DEF m
<1>5. /\ \A z \in LasPaginas(mem) : Entrada(m, z) = Entrada(mem, z) /\ PidDe(m, z) = PidDe(mem, z)
      /\ LasPaginas(m) = LasPaginas(mem)
  BY <1>4 DEF Entrada, PidDe, LasPaginas
<1>6. EsEntrada(e) /\ e.marco = Entrada(m, x).marco /\ e.presencia = Entrada(m, x).presencia
  <2>1. EsEntrada(Entrada(mem, x))
    BY Zenon DEF BuenaMemoria
  <2> QED BY <1>5, <2>1 DEF EsEntrada
<1> DEFINE n == ConEntrada(m, x, e)
<1>7. /\ BuenaMemoria(n) /\ n.marcos = m.marcos /\ Len(n.tablas) = Len(m.tablas)
      /\ \A q : RespetaA(m, n, q)
  <2> HIDE DEF e
  <2> QED BY <1>4, <1>5, <1>6, EntradaIgual
<1> HIDE DEF n
<1>8. \A q : RespetaA(mem, n, q)
  BY <1>4, <1>5, <1>7 DEF RespetaA
<1>9. Intacta(mem, n)
  BY <1>4, <1>7, <1>8 DEF Intacta
<1> QED BY <1>2, <1>9 DEF flujo, n

\* atender_liberar_estructuras: the frames of the process, and no other.
LEMMA AlLiberarMemoria ==
    ASSUME NEW mem, EsMemoria(mem), BuenaMemoria(mem), NEW p \in Enteros
    PROVE  LET n == AtenderLiberarEstructuras(mem,
                       Buffer(ValorConCodigo(p, "LIBERAR_ESTRUCTURAS"))).mem IN
           /\ BuenaMemoria(n) /\ Len(n.tablas) = Len(mem.tablas)
           /\ \A q : RespetaA(mem, n, q)
           /\ \A m \in Marcos : /\ n.marcos[m] \in {PidLibre, mem.marcos[m]}
                                /\ p # PidLibre => n.marcos[m] # p
<1> DEFINE buffer == Buffer(ValorConCodigo(p, "LIBERAR_ESTRUCTURAS"))
           suyos == {Entrada(mem, x).marco : x \in Cargadas(mem, p)}
           y == [m \in Marcos |-> IF m \in suyos THEN PidLibre ELSE mem.marcos[m]]
           n == AtenderLiberarEstructuras(mem, buffer).mem
<1>1. Valor(buffer) = p
  BY ValorLeido, NumeroEntero
<1>2. n = [mem EXCEPT !.marcos = y]
  <2> HIDE DEF buffer
  <2> QED BY <1>1 DEF AtenderLiberarEstructuras
<1> HIDE DEF n, suyos
<1>3. EsMemoria(n) /\ n.marcos = y /\ n.tablas = mem.tablas
  <2> HIDE DEF y
  <2> QED BY <1>2, MemoriaCambiada DEF EsMemoria, CamposMemoria
<1>4. /\ LasPaginas(n) = LasPaginas(mem)
      /\ \A x \in LasPaginas(mem) : Entrada(n, x) = Entrada(mem, x) /\ PidDe(n, x) = PidDe(mem, x)
      /\ \A q : Cargadas(n, q) = Cargadas(mem, q)
  BY <1>3 DEF Entrada, PidDe, LasPaginas, Cargadas, PaginasDe
<1>5. DOMAIN n.marcos = Marcos /\ \A m \in Marcos :
          n.marcos[m] = IF m \in suyos THEN PidLibre ELSE mem.marcos[m]
  BY <1>3
<1>6. BuenaMemoria(n)
  <2>1. ASSUME NEW m \in Marcos, n.marcos[m] # PidLibre
        PROVE  \E x \in Cargadas(n, n.marcos[m]) : Entrada(n, x).marco = m
    <3>1. n.marcos[m] = mem.marcos[m]
      BY <1>5, <2>1
    <3>2. PICK x \in Cargadas(mem, mem.marcos[m]) : Entrada(mem, x).marco = m
      BY <2>1, <3>1 DEF BuenaMemoria
    <3>3. x \in LasPaginas(mem)
      BY DEF Cargadas, PaginasDe, LasPaginas
    <3> QED BY <1>4, <3>1, <3>2, <3>3
  <2> QED BY <1>3, <1>4, <1>5, <2>1 DEF BuenaMemoria
<1>7. \A q : RespetaA(mem, n, q)
  <2>1. Len(mem.tablas) \in Nat
    BY DeLista DEF EsMemoria
  <2> QED BY <1>3, <1>4, <2>1 DEF RespetaA
<1>8. ASSUME NEW m \in Marcos, p # PidLibre PROVE n.marcos[m] # p
  <2>1. SUFFICES ASSUME n.marcos[m] = p PROVE FALSE
    OBVIOUS
  <2>2. m \notin suyos /\ mem.marcos[m] = p
    BY <1>5, <1>8, <2>1
  <2>3. PICK x \in Cargadas(mem, p) : Entrada(mem, x).marco = m
    BY <1>8, <2>2 DEF BuenaMemoria
  <2> QED BY <2>2, <2>3 DEF suyos
<1> QED BY <1>3, <1>5, <1>6, <1>7, <1>8 DEF n

\* The frames change, and no table.
LEMMA MarcosAparte ==
    ASSUME NEW mem, EsMemoria(mem), NEW x
    PROVE  LET n == [mem EXCEPT !.marcos = x] IN
           /\ EsMemoria(n) /\ n.marcos = x /\ n.tablas = mem.tablas
           /\ LasPaginas(n) = LasPaginas(mem)
           /\ \A y : Entrada(n, y) = Entrada(mem, y) /\ PidDe(n, y) = PidDe(mem, y)
<1> DEFINE n == [mem EXCEPT !.marcos = x]
<1>1. EsMemoria(n)
  BY MemoriaCambiada DEF EsMemoria
<1>2. n.marcos = x /\ n.tablas = mem.tablas
  BY DEF EsMemoria, CamposMemoria
<1> HIDE DEF n
<1> QED BY <1>1, <1>2 DEF n, LasPaginas, Entrada, PidDe

\* rajar_pagina: the page is not there any more, and its frame is free.
LEMMA PaginaRajada ==
    ASSUME NEW mem, EsMemoria(mem), BuenaMemoria(mem), NEW x \in LasPaginas(mem),
           Entrada(mem, x).presencia
    PROVE  LET n == RajarPagina(mem, x) IN
           /\ EsMemoria(n) /\ BuenaMemoria(n) /\ Len(n.tablas) = Len(mem.tablas)
           /\ LasPaginas(n) = LasPaginas(mem) /\ RespetaA(mem, n, PidDe(mem, x))
           /\ n.marcos = [mem.marcos EXCEPT ![Entrada(mem, x).marco] = PidLibre]
           /\ \A y \in LasPaginas(mem) :
                 PidDe(n, y) = PidDe(mem, y) /\ (y # x => Entrada(n, y) = Entrada(mem, y))
<1> DEFINE e == Entrada(mem, x)
           f == [mem.marcos EXCEPT ![e.marco] = PidLibre]
           m == [mem EXCEPT !.marcos[e.marco] = PidLibre]
           m1 == [mem EXCEPT !.marcos = f]
           copia == [d \in Offsets |-> mem.espacio[DirFisica(e.marco, d)]]
           s == IF e.modificado THEN copia ELSE e.swap
           g == [e EXCEPT !.presencia = FALSE, !.modificado = FALSE, !.swap = s]
           n == ConEntrada(m1, x, g)
<1>1. RajarPagina(mem, x) = n
  <2>1. m = m1
    <3> HIDE DEF e
    <3> QED BY DEF EsMemoria, CamposMemoria
  <2>2. RajarPagina(mem, x) = ConEntrada(m, x, g)
    BY DEF RajarPagina
  <2> HIDE DEF m, m1, g
  <2> QED BY <2>1, <2>2
<1>2. EsEntrada(e) /\ e.marco \in Marcos
  BY Zenon DEF BuenaMemoria, EsEntrada
<1>3. EsEntrada(g) /\ ~g.presencia
  <2> HIDE DEF s, e
  <2> QED BY <1>2 DEF EsEntrada
<1> HIDE DEF g, e
<1>4. /\ EsMemoria(m1) /\ m1.marcos = f /\ m1.tablas = mem.tablas
      /\ LasPaginas(m1) = LasPaginas(mem)
      /\ \A y : Entrada(m1, y) = Entrada(mem, y) /\ PidDe(m1, y) = PidDe(mem, y)
  <2> HIDE DEF f
  <2> QED BY MarcosAparte
<1> HIDE DEF m1
<1>5. \A k \in DOMAIN m1.tablas : /\ DOMAIN m1.tablas[k] = {"pid", "entradas"}
                /\ DOMAIN m1.tablas[k].entradas = 0..(EntradasPorTabla - 1)
  BY <1>4 DEF BuenaMemoria
<1>6. /\ EsMemoria(n) /\ n.marcos = m1.marcos /\ Len(n.tablas) = Len(m1.tablas)
      /\ LasPaginas(n) = LasPaginas(m1)
      /\ DOMAIN n.tablas = DOMAIN m1.tablas
      /\ \A k \in DOMAIN n.tablas : /\ DOMAIN n.tablas[k] = {"pid", "entradas"}
                 /\ DOMAIN n.tablas[k].entradas = 0..(EntradasPorTabla - 1)
                 /\ n.tablas[k].pid = m1.tablas[k].pid
      /\ Entrada(n, x) = g
      /\ \A y \in LasPaginas(m1) : /\ PidDe(n, y) = PidDe(m1, y)
                                   /\ y # x => Entrada(n, y) = Entrada(m1, y)
  BY <1>4, <1>5, EntradaPuesta
<1> HIDE DEF n
<1>7. /\ LasPaginas(n) = LasPaginas(mem) /\ n.marcos = f
      /\ \A y \in LasPaginas(mem) : /\ PidDe(n, y) = PidDe(mem, y)
                                    /\ y # x => Entrada(n, y) = Entrada(mem, y)
  BY <1>4, <1>6
<1>8. \A y \in LasPaginas(n) : EsEntrada(Entrada(n, y))
  <2>1. \A y \in LasPaginas(mem) : EsEntrada(Entrada(mem, y))
    BY Zenon DEF BuenaMemoria
  <2> QED BY <2>1, <1>3, <1>6, <1>7
<1>9. DOMAIN mem.marcos = Marcos /\ DOMAIN f = Marcos
  BY DEF BuenaMemoria
<1>10. ASSUME NEW k \in Marcos, n.marcos[k] # PidLibre
       PROVE  \E y \in Cargadas(n, n.marcos[k]) : Entrada(n, y).marco = k
  <2>1. k # e.marco /\ n.marcos[k] = mem.marcos[k]
    BY <1>7, <1>9, <1>10
  <2>2. PICK y \in Cargadas(mem, mem.marcos[k]) : Entrada(mem, y).marco = k
    BY <2>1, <1>10 DEF BuenaMemoria
  <2>3. y \in LasPaginas(mem) /\ y # x /\ Entrada(mem, y).presencia
        /\ PidDe(mem, y) = mem.marcos[k]
    BY <2>1, <2>2 DEF Cargadas, PaginasDe, LasPaginas, e
  <2>4. y \in Cargadas(n, n.marcos[k])
    BY <2>1, <2>3, <1>7 DEF Cargadas, PaginasDe, LasPaginas
  <2> QED BY <2>2, <2>3, <2>4, <1>7
<1>11. BuenaMemoria(n)
  BY <1>6, <1>7, <1>8, <1>9, <1>10 DEF BuenaMemoria
<1>12. RespetaA(mem, n, PidDe(mem, x))
  <2>1. Len(mem.tablas) \in Nat
    BY DeLista DEF EsMemoria
  <2>2. \A y \in LasPaginas(mem) : PidDe(mem, y) # PidDe(mem, x) =>
            Entrada(n, y).presencia = Entrada(mem, y).presencia
    BY <1>7
  <2> QED BY <1>4, <1>6, <2>1, <2>2 DEF RespetaA
<1> QED BY <1>1, <1>4, <1>6, <1>7, <1>11, <1>12 DEF e

\* cargar_pagina_en_memoria_principal: the frame is of the process of the page, which is
\* present in it.
LEMMA PaginaCargada ==
    ASSUME NEW mem, EsMemoria(mem), BuenaMemoria(mem), NEW x \in LasPaginas(mem),
           ~Entrada(mem, x).presencia, NEW marco \in Marcos
    PROVE  LET n == CargarPagina(mem, x, marco) IN
           /\ BuenaMemoria(n) /\ Len(n.tablas) = Len(mem.tablas)
           /\ RespetaA(mem, n, PidDe(mem, x))
           /\ n.marcos = [mem.marcos EXCEPT ![marco] = PidDe(mem, x)]
<1> DEFINE e == Entrada(mem, x)
           pid == PidDe(mem, x)
           f == [mem.marcos EXCEPT ![marco] = pid]
           y0 == [dir \in DOMAIN mem.espacio |->
                               IF dir \div TamPagina = marco THEN e.swap[dir % TamPagina]
                               ELSE mem.espacio[dir]]
           m0 == [mem EXCEPT !.espacio = y0]
           m1 == [m0 EXCEPT !.marcos = f]
           g == [e EXCEPT !.presencia = TRUE, !.marco = marco]
           n == ConEntrada(m1, x, g)
<1>1. CargarPagina(mem, x, marco) = n
  <2>1. CargarPagina(mem, x, marco) =
          ConEntrada([mem EXCEPT !.marcos[marco] = PidDe(mem, x),
                           !.espacio = [dir \in DOMAIN @ |->
                               IF dir \div TamPagina = marco THEN e.swap[dir % TamPagina]
                               ELSE @[dir]]], x, g)
    BY Zenon DEF CargarPagina
  <2>2. [mem EXCEPT !.marcos[marco] = pid,
                    !.espacio = [dir \in DOMAIN @ |->
                               IF dir \div TamPagina = marco THEN e.swap[dir % TamPagina]
                               ELSE @[dir]]] = [[mem EXCEPT !.marcos = f] EXCEPT !.espacio = y0]
    OBVIOUS
  <2>3. [[mem EXCEPT !.marcos = f] EXCEPT !.espacio = y0] = m1
    <3> HIDE DEF f, y0
    <3> QED BY DEF EsMemoria, CamposMemoria
  <2> HIDE DEF m1, g, e
  <2> QED BY <2>1, <2>2, <2>3, Zenon
<1>2. EsEntrada(e)
  BY Zenon DEF BuenaMemoria
<1>3. EsEntrada(g) /\ g.presencia /\ g.marco = marco
  <2> HIDE DEF e
  <2> QED BY <1>2 DEF EsEntrada
<1> HIDE DEF g
<1>4. EsMemoria(m0) /\ m0.marcos = mem.marcos /\ m0.tablas = mem.tablas
  <2> HIDE DEF y0
  <2> QED BY EspacioAparte
<1> HIDE DEF m0
<1>5. /\ EsMemoria(m1) /\ m1.marcos = f /\ m1.tablas = mem.tablas
      /\ LasPaginas(m1) = LasPaginas(mem)
      /\ \A y : Entrada(m1, y) = Entrada(mem, y) /\ PidDe(m1, y) = PidDe(mem, y)
  <2>1. /\ EsMemoria(m1) /\ m1.marcos = f /\ m1.tablas = m0.tablas
    <3> HIDE DEF f
    <3> QED BY <1>4, MarcosAparte
  <2> HIDE DEF m1
  <2> QED BY <2>1, <1>4 DEF LasPaginas, Entrada, PidDe
<1> HIDE DEF m1
<1>6. \A k \in DOMAIN m1.tablas : /\ DOMAIN m1.tablas[k] = {"pid", "entradas"}
                /\ DOMAIN m1.tablas[k].entradas = 0..(EntradasPorTabla - 1)
  BY <1>5 DEF BuenaMemoria
<1>7. /\ EsMemoria(n) /\ n.marcos = m1.marcos /\ Len(n.tablas) = Len(m1.tablas)
      /\ LasPaginas(n) = LasPaginas(m1)
      /\ DOMAIN n.tablas = DOMAIN m1.tablas
      /\ \A k \in DOMAIN n.tablas : /\ DOMAIN n.tablas[k] = {"pid", "entradas"}
                 /\ DOMAIN n.tablas[k].entradas = 0..(EntradasPorTabla - 1)
                 /\ n.tablas[k].pid = m1.tablas[k].pid
      /\ Entrada(n, x) = g
      /\ \A y \in LasPaginas(m1) : /\ PidDe(n, y) = PidDe(m1, y)
                                   /\ y # x => Entrada(n, y) = Entrada(m1, y)
  BY <1>5, <1>6, EntradaPuesta
<1> HIDE DEF n
<1>8. /\ LasPaginas(n) = LasPaginas(mem) /\ n.marcos = f
      /\ \A y \in LasPaginas(mem) : /\ PidDe(n, y) = PidDe(mem, y)
                                    /\ y # x => Entrada(n, y) = Entrada(mem, y)
  BY <1>5, <1>7
<1>9. \A y \in LasPaginas(n) : EsEntrada(Entrada(n, y))
  <2>1. \A y \in LasPaginas(mem) : EsEntrada(Entrada(mem, y))
    BY Zenon DEF BuenaMemoria
  <2> QED BY <2>1, <1>3, <1>7, <1>8
<1>10. DOMAIN mem.marcos = Marcos /\ DOMAIN f = Marcos
  BY DEF BuenaMemoria
<1>11. ASSUME NEW k \in Marcos, n.marcos[k] # PidLibre
       PROVE  \E y \in Cargadas(n, n.marcos[k]) : Entrada(n, y).marco = k
  <2>1. CASE k = marco
    <3>1. n.marcos[k] = pid
      BY <1>8, <1>10, <2>1
    <3>2. x \in Cargadas(n, pid) /\ Entrada(n, x).marco = k
      BY <1>3, <1>7, <1>8, <2>1 DEF Cargadas, PaginasDe, LasPaginas
    <3> QED BY <3>1, <3>2
  <2>2. CASE k # marco
    <3>1. n.marcos[k] = mem.marcos[k]
      BY <1>8, <1>10, <2>2
    <3>2. PICK y \in Cargadas(mem, mem.marcos[k]) : Entrada(mem, y).marco = k
      BY <3>1, <1>11 DEF BuenaMemoria
    <3>3. y \in LasPaginas(mem) /\ y # x /\ Entrada(mem, y).presencia
          /\ PidDe(mem, y) = mem.marcos[k]
      BY <3>2 DEF Cargadas, PaginasDe, LasPaginas
    <3>4. y \in Cargadas(n, n.marcos[k])
      BY <3>1, <3>3, <1>8 DEF Cargadas, PaginasDe, LasPaginas
    <3> QED BY <3>2, <3>3, <3>4, <1>8
  <2> QED BY <2>1, <2>2
<1>12. BuenaMemoria(n)
  BY <1>7, <1>8, <1>9, <1>10, <1>11 DEF BuenaMemoria
<1>13. RespetaA(mem, n, pid)
  <2>1. Len(mem.tablas) \in Nat
    BY DeLista DEF EsMemoria
  <2>2. \A y \in LasPaginas(mem) : PidDe(mem, y) # pid =>
            Entrada(n, y).presencia = Entrada(mem, y).presencia
    BY <1>8
  <2> QED BY <1>5, <1>7, <2>1, <2>2 DEF RespetaA
<1> QED BY <1>1, <1>5, <1>7, <1>8, <1>12, <1>13

\* atender_pedido_de_pagina_fault: a frame of the process, or one that was free, has the page.
LEMMA AlFallarMemoria ==
    ASSUME NEW mem, EsMemoria(mem), BuenaMemoria(mem), NEW p, NEW x \in PaginasDe(mem, p),
           ~Entrada(mem, x).presencia,
           NEW n \in AtenderPedidoDePaginaFault(mem,
                         Buffer(Paquete("PAGINA", empaquetar_pagina(x))))
    PROVE  /\ BuenaMemoria(n) /\ Len(n.tablas) = Len(mem.tablas) /\ RespetaA(mem, n, p)
           /\ \A m \in Marcos : n.marcos[m] \in {PidLibre, mem.marcos[m], p}
<1> DEFINE buffer == Buffer(Paquete("PAGINA", empaquetar_pagina(x)))
           libres == {m \in Marcos : mem.marcos[m] = PidLibre}
<1>1. x \in LasPaginas(mem) /\ PidDe(mem, x) = p
  BY DEF PaginasDe, LasPaginas
<1>2. deserializar_pagina(buffer, 0) = x
  <2>1. x = <<x[1], x[2]>>
    BY <1>1, DeTabla
  <2> QED BY <2>1, PaginaSola
<1> HIDE DEF buffer
<1>3. \/ \E v \in Cargadas(mem, p) : n = CargarPagina(RajarPagina(mem, v), x, Entrada(mem, v).marco)
      \/ \E m \in libres : n = CargarPagina(mem, x, m)
  BY <1>1, <1>2 DEF AtenderPedidoDePaginaFault, buffer
<1>4. CASE \E m \in libres : n = CargarPagina(mem, x, m)
  <2>1. PICK m \in Marcos : n = CargarPagina(mem, x, m)
    BY <1>4
  <2>2. /\ BuenaMemoria(n) /\ Len(n.tablas) = Len(mem.tablas) /\ RespetaA(mem, n, p)
        /\ n.marcos = [mem.marcos EXCEPT ![m] = p]
    BY <1>1, <2>1, PaginaCargada
  <2>3. DOMAIN mem.marcos = Marcos
    BY DEF BuenaMemoria
  <2> QED BY <2>2, <2>3
<1>5. CASE \E v \in Cargadas(mem, p) :
               n = CargarPagina(RajarPagina(mem, v), x, Entrada(mem, v).marco)
  <2>1. PICK v \in Cargadas(mem, p) :
               n = CargarPagina(RajarPagina(mem, v), x, Entrada(mem, v).marco)
    BY <1>5
  <2> DEFINE r == RajarPagina(mem, v)
             f == Entrada(mem, v).marco
  <2>2. v \in LasPaginas(mem) /\ Entrada(mem, v).presencia /\ PidDe(mem, v) = p /\ v # x
    BY DEF Cargadas, PaginasDe, LasPaginas
  <2>3. f \in Marcos
    BY <2>2, Zenon DEF BuenaMemoria, EsEntrada
  <2>4. /\ EsMemoria(r) /\ BuenaMemoria(r) /\ Len(r.tablas) = Len(mem.tablas)
        /\ LasPaginas(r) = LasPaginas(mem) /\ RespetaA(mem, r, p)
        /\ r.marcos = [mem.marcos EXCEPT ![f] = PidLibre]
        /\ \A y \in LasPaginas(mem) :
              PidDe(r, y) = PidDe(mem, y) /\ (y # v => Entrada(r, y) = Entrada(mem, y))
    BY <2>2, PaginaRajada
  <2>9. n = CargarPagina(r, x, f)
    BY <2>1
  <2> HIDE DEF r, f
  <2>5. x \in LasPaginas(r) /\ ~Entrada(r, x).presencia /\ PidDe(r, x) = p
    BY <1>1, <2>2, <2>4
  <2>6. /\ BuenaMemoria(n) /\ Len(n.tablas) = Len(r.tablas) /\ RespetaA(r, n, p)
        /\ n.marcos = [r.marcos EXCEPT ![f] = p]
    BY <2>3, <2>4, <2>5, <2>9, PaginaCargada
  <2>7. RespetaA(mem, n, p)
    <3>1. DOMAIN r.tablas = DOMAIN mem.tablas
      BY <2>4, DeLista DEF EsMemoria
    <3> QED BY <2>4, <2>6, <3>1 DEF RespetaA
  <2>8. DOMAIN mem.marcos = Marcos
    BY DEF BuenaMemoria
  <2> QED BY <2>3, <2>4, <2>6, <2>7, <2>8
<1> QED BY <1>3, <1>4, <1>5

\* The indices of the tables of a process that has the last ones there are.
LEMMA UltimasTablas ==
    ASSUME NEW n \in Nat, NEW N \in Nat, n <= N, NEW uno \in Seq(Seq(Int)), Len(uno) = N,
           \A i \in 1..N : uno[i] = IF i > n THEN <<i>> ELSE <<>>
    PROVE  /\ FlattenSeq(uno) \in Seq(Int) /\ Len(FlattenSeq(uno)) = N - n
           /\ \A i \in 1..(N - n) : FlattenSeq(uno)[i] = n + i
<1>1. CASE N = 0
  <2>1. FlattenSeq(uno) = uno /\ uno = <<>>
    BY <1>1 DEF FlattenSeq
  <2> QED BY <1>1, <2>1
<1>2. CASE N # 0
  <2>1. PICK f : Aplanada(uno, f) /\ FlattenSeq(uno) = f[N]
    BY <1>2, FlattenSeqEs
  <2> DEFINE Hasta(k) == /\ f[k] \in Seq(Int) /\ Len(f[k]) = (IF k > n THEN k - n ELSE 0)
                         /\ \A i \in 1..Len(f[k]) : f[k][i] = n + i
             T == {k \in Nat : k + 1 <= N => Hasta(k + 1)}
  <2>2. \A k \in 1..N : (k > n => uno[k] = <<k>>) /\ (~(k > n) => uno[k] = <<>>)
    OBVIOUS
  <2>3. 0 \in T
    <3>1. 1 \in 1..N /\ f[1] = uno[1]
      BY <1>2, <2>1 DEF Aplanada
    <3>2. CASE n = 0
      <4>1. f[1] = <<1>>
        BY <2>2, <3>1, <3>2
      <4>2. <<1>> \in Seq(Int) /\ Len(<<1>>) = 1 /\ <<1>>[1] = 1
        OBVIOUS
      <4>3. Hasta(1)
        BY <3>2, <4>1, <4>2
      <4> QED BY <4>3
    <3>3. CASE n # 0
      <4>1. f[1] = <<>>
        BY <2>2, <3>1, <3>3
      <4>2. Hasta(1)
        BY <3>3, <4>1
      <4> QED BY <4>2
    <3> QED BY <3>2, <3>3
  <2>4. ASSUME NEW j \in Nat, j \in T PROVE j + 1 \in T
    <3>1. SUFFICES ASSUME (j + 1) + 1 <= N PROVE Hasta((j + 1) + 1)
      OBVIOUS
    <3> DEFINE k == (j + 1) + 1
               a == f[j + 1]
    <3>2. k \in 1..N /\ k # 1 /\ k - 1 = j + 1 /\ j + 1 <= N
      BY <3>1
    <3>3. f[k] = a \o uno[k]
      BY <2>1, <3>2 DEF Aplanada
    <3>4. /\ a \in Seq(Int) /\ Len(a) = (IF j + 1 > n THEN (j + 1) - n ELSE 0)
          /\ \A i \in 1..Len(a) : a[i] = n + i
      BY <2>4, <3>2
    <3> HIDE DEF a
    <3>5. CASE k > n
      <4>0. uno[k] = <<k>>
        BY ONLY <2>2, <3>2, <3>5
      <4>1. f[k] = a \o <<k>> /\ Len(a) = k - 1 - n
        <5>1. f[k] = a \o <<k>>
          BY <3>3, <4>0
        <5>2. Len(a) = k - 1 - n
          BY <3>2, <3>4, <3>5
        <5> QED BY <5>1, <5>2
      <4>2. /\ a \o <<k>> \in Seq(Int) /\ Len(a \o <<k>>) = k - n
            /\ \A i \in 1..(k - n) : (a \o <<k>>)[i] = IF i <= Len(a) THEN a[i] ELSE k
        <5>1. a \in Seq(Int) /\ k \in Int /\ n \in Int /\ Len(a) = k - 1 - n
          BY <3>2, <3>4, <4>1
        <5>2. a \o <<k>> \in Seq(Int) /\ Len(a \o <<k>>) = Len(a) + 1
          BY ONLY <5>1
        <5>3. \A i \in 1..(Len(a) + 1) : (a \o <<k>>)[i] = IF i <= Len(a) THEN a[i] ELSE k
          BY ONLY <5>1
        <5>4. Len(a) + 1 = k - n
          BY ONLY <5>1
        <5> QED BY ONLY <5>2, <5>3, <5>4
      <4>3. \A i \in 1..(k - n) : (a \o <<k>>)[i] = n + i
        <5> SUFFICES ASSUME NEW i \in 1..(k - n) PROVE (a \o <<k>>)[i] = n + i
          OBVIOUS
        <5>1. i \in Int /\ 1 <= i /\ i <= k - n /\ k \in Int /\ n \in Int /\ Len(a) = k - 1 - n
          BY <3>2, <4>1
        <5>2. (a \o <<k>>)[i] = IF i <= Len(a) THEN a[i] ELSE k
          BY <4>2
        <5>3. CASE i <= Len(a)
          <6>1. i \in 1..Len(a)
            BY ONLY <5>1, <5>3
          <6>2. a[i] = n + i
            BY ONLY <3>4, <6>1
          <6> QED BY ONLY <5>2, <5>3, <6>2
        <5>4. CASE ~(i <= Len(a))
          <6>1. k = n + i
            BY ONLY <5>1, <5>4
          <6> QED BY ONLY <5>2, <5>4, <6>1
        <5> QED BY ONLY <5>3, <5>4
      <4> QED BY <3>5, <4>1, <4>2, <4>3
    <3>6. CASE ~(k > n)
      <4>1. f[k] = a \o <<>> /\ Len(a) = 0
        BY <2>2, <3>2, <3>3, <3>4, <3>6
      <4>2. a \o <<>> = a
        BY <3>4
      <4> QED BY <3>4, <3>6, <4>1, <4>2
    <3> QED BY <3>5, <3>6
  <2>5. \A k \in Nat : k \in T
    <3> HIDE DEF T
    <3> QED BY <2>3, <2>4, Induccion
  <2>6. N - 1 \in Nat /\ (N - 1) + 1 = N
    BY <1>2
  <2>7. Hasta(N)
    <3>1. N - 1 \in T
      <4> HIDE DEF T
      <4> QED BY <2>5, <2>6
    <3>2. (N - 1) + 1 <= N => Hasta((N - 1) + 1)
      <4> HIDE DEF Hasta
      <4> QED BY <3>1
    <3> HIDE DEF Hasta, T
    <3> QED BY <2>6, <3>2
  <2> QED BY <2>1, <2>7
<1> QED BY <1>1, <1>2

\* What a process is given: a table of its own for each of its l segments, t, and all the
\* rest of the memory as it was.
ConTablas(mem, n, t, pid, l) ==
    /\ BuenaMemoria(n) /\ n.marcos = mem.marcos /\ (\A q : RespetaA(mem, n, q))
    /\ Len(n.tablas) = Len(mem.tablas) + l /\ Len(t) = l
    /\ \A k \in DOMAIN n.tablas : IF k \in DOMAIN mem.tablas
                                  THEN n.tablas[k].pid = mem.tablas[k].pid
                                  ELSE n.tablas[k].pid = pid
    /\ \A i \in DOMAIN t : LET k == t[i].indice_tabla_paginas IN
                            k \in 0..(Len(n.tablas) - 1) /\ n.tablas[k + 1].pid = pid

\* No page that was there changes, the new ones have never been in a frame, and the segments L
\* are those tables in their order.
TablasNuevas(mem, n, t, L) ==
    /\ EsMemoria(n) /\ n.espacio = mem.espacio
    /\ \A x \in LasPaginas(mem) : /\ x \in LasPaginas(n) /\ PidDe(n, x) = PidDe(mem, x)
                                  /\ Entrada(n, x) = Entrada(mem, x)
    /\ \A x \in LasPaginas(n) : x \notin LasPaginas(mem) =>
          Entrada(n, x) = EntradaNueva(x) /\ x[1] \in Enteros
    /\ DOMAIN t = 1..Len(L)
    /\ \A i \in 1..Len(L) : /\ t[i].nro_segmento = i - 1 /\ t[i].tamanio_segmento = atoi(L[i])
                            /\ t[i].indice_tabla_paginas = Len(mem.tablas) + i - 1

\* atender_pedido_de_estructuras and solicitar_creacion_estructuras_administrativas: one table
\* for each segment, and the segments of the PCB are those tables in their order.
LEMMA AlCrearMemoria ==
    ASSUME NEW mem, EsMemoria(mem), BuenaMemoria(mem), NEW pid, NEW L, EsLista(L),
           \A i \in DOMAIN L : EsTexto(L[i]), \A k \in DOMAIN mem.tablas : mem.tablas[k].pid # pid,
           Len(mem.tablas) + Len(L) \in Enteros
    PROVE  LET r == AtenderPedidoDeEstructuras(mem, Buffer(Paquete("ESTRUCTURAS",
                        empaquetar_pcb_memoria([pid |-> pid, segmentos |-> L]))))
               indices == deserializar_strings(Buffer(r.respuesta), 0).valor
               t == crear_tabla_segmentos(indices, L)
           IN ConTablas(mem, r.mem, t, pid, Len(L)) /\ TablasNuevas(mem, r.mem, t, L)
<1> DEFINE pp == [pid |-> pid, segmentos |-> L]
           b == empaquetar_pcb_memoria(pp)
           buffer == Buffer(Paquete("ESTRUCTURAS", b))
           r == AtenderPedidoDeEstructuras(mem, buffer)
           indices == deserializar_strings(Buffer(r.respuesta), 0).valor
           t == crear_tabla_segmentos(indices, L)
           N0 == Len(mem.tablas)
           N == N0 + Len(L)
<1>0. /\ EsFlujo(L) /\ DOMAIN L = 1..Len(L) /\ Len(L) \in Nat
      /\ EsFlujo(mem.tablas) /\ DOMAIN mem.tablas = 1..N0 /\ N0 \in Nat
  BY ListaEsFlujo, DeLista DEF EsMemoria
<1>1. EsFlujo(b) /\ recibir_pcb_memoria(b) = pp
  BY <1>0, PedidoDeEstructurasEntero
<1>2. buffer = b
  <2> HIDE DEF b
  <2> QED BY <1>1, PaqueteSolo
<1>3. recibir_pcb_memoria(buffer) = pp /\ pp.pid = pid /\ pp.segmentos = L
  BY <1>1, <1>2
<1> DEFINE nueva(i) == [pid |-> pid, entradas |-> [x \in 0..(EntradasPorTabla - 1) |->
                                       EntradaNueva(<<Len(mem.tablas) + i - 1, x>>)]]
           nuevas == [i \in DOMAIN L |-> nueva(i)]
           tablas == mem.tablas \o nuevas
           uno == [i \in DOMAIN tablas |-> IF tablas[i].pid = pid THEN <<i>> ELSE <<>>]
           propias == FlattenSeq(uno)
           textos == [i \in DOMAIN propias |-> string_itoa(propias[i] - 1)]
<1> HIDE DEF buffer
<1>4. r.mem = [mem EXCEPT !.tablas = tablas]
      /\ r.respuesta = Paquete("OKI_ESTRUCTURAS", empaquetar_strings(textos))
  <2>1. recibir_pcb_memoria(buffer).pid = pid /\ recibir_pcb_memoria(buffer).segmentos = L
    BY <1>3
  <2> QED BY <2>1, Zenon DEF AtenderPedidoDeEstructuras
<1> HIDE DEF r
<1>5. EsFlujo(nuevas) /\ Len(nuevas) = Len(L) /\ \A i \in 1..Len(L) : nuevas[i] = nueva(i)
  <2> DEFINE Z == {nueva(i) : i \in DOMAIN L}
  <2>1. nuevas \in [1..Len(L) -> Z]
    <3> HIDE DEF nueva
    <3> QED BY <1>0
  <2>2. nuevas \in Seq(Z) /\ Len(nuevas) = Len(L)
    <3> HIDE DEF nuevas, Z
    <3> QED BY <1>0, <2>1
  <2>3. \A i \in 1..Len(L) : nuevas[i] = nueva(i)
    <3> HIDE DEF nueva
    <3> QED BY <1>0
  <2> QED BY <2>2, <2>3 DEF EsFlujo
<1> HIDE DEF nuevas
<1>6. /\ EsFlujo(tablas) /\ Len(tablas) = N
      /\ \A i \in 1..N0 : tablas[i] = mem.tablas[i]
      /\ \A i \in 1..Len(L) : tablas[N0 + i] = nueva(i)
  <2> HIDE DEF nueva
  <2>1. /\ EsFlujo(tablas) /\ Len(tablas) = N
        /\ \A i \in 1..N0 : tablas[i] = mem.tablas[i]
        /\ \A i \in 1..Len(L) : tablas[N0 + i] = nuevas[i]
    BY <1>0, <1>5, Concatenado
  <2> HIDE DEF tablas, N
  <2> QED BY <1>5, <2>1
<1> HIDE DEF tablas
<1>7. EsLista(tablas) /\ DOMAIN tablas = 1..N
  BY <1>6, ListaEsFlujo, DeLista
<1>8. \A i \in 1..N : IF i > N0 THEN tablas[i] = nueva(i - N0) ELSE tablas[i] = mem.tablas[i]
  <2>1. ASSUME NEW i \in 1..N, i > N0 PROVE tablas[i] = nueva(i - N0)
    <3> HIDE DEF nueva
    <3>1. i - N0 \in 1..Len(L) /\ i = N0 + (i - N0)
      BY <1>0, <2>1
    <3> QED BY <1>6, <3>1
  <2> HIDE DEF nueva
  <2> QED BY <1>0, <1>6, <2>1
<1>9. \A i \in 1..N : IF i > N0 THEN tablas[i].pid = pid
                      ELSE tablas[i].pid = mem.tablas[i].pid /\ tablas[i].pid # pid
  <2>1. \A i : nueva(i).pid = pid
    OBVIOUS
  <2> HIDE DEF nueva
  <2> QED BY <1>0, <1>8, <2>1
<1>10. /\ propias \in Seq(Int) /\ Len(propias) = Len(L)
       /\ \A i \in 1..Len(L) : propias[i] = N0 + i
  <2>1. uno \in [1..N -> Seq(Int)]
    BY <1>7
  <2>2. \A i \in 1..N : uno[i] = IF i > N0 THEN <<i>> ELSE <<>>
    BY <1>7, <1>9
  <2>3. N \in Nat /\ N0 <= N /\ N - N0 = Len(L)
    BY <1>0
  <2> HIDE DEF uno, N
  <2>4. uno \in Seq(Seq(Int)) /\ Len(uno) = N
    BY <2>1, <2>3
  <2>5. /\ FlattenSeq(uno) \in Seq(Int) /\ Len(FlattenSeq(uno)) = N - N0
        /\ \A i \in 1..(N - N0) : FlattenSeq(uno)[i] = N0 + i
    <3> HIDE DEF N0
    <3> QED BY <1>0, <2>2, <2>3, <2>4, UltimasTablas
  <2>6. propias = FlattenSeq(uno)
    BY DEF uno
  <2> HIDE DEF propias, N0
  <2> QED BY <2>3, <2>5, <2>6
<1> HIDE DEF propias
<1>11. /\ DOMAIN textos = 1..Len(L) /\ EsFlujo(textos)
       /\ \A i \in 1..Len(L) : EsTexto(textos[i]) /\ atoi(textos[i]) = N0 + i - 1
  <2>1. DOMAIN propias = 1..Len(L) /\ \A i \in 1..Len(L) : propias[i] - 1 = N0 + i - 1
    BY <1>0, <1>10
  <2>2. ASSUME NEW i \in 1..Len(L) PROVE N0 + i - 1 \in Enteros
    <3>1. N <= (Modulo \div 2) - 1 /\ Modulo \div 2 \in Nat
      BY <1>0, ModuloAssumption DEF Enteros
    <3>2. N0 + i - 1 \in 0..N
      BY <1>0, <2>2
    <3> QED BY <1>0, <3>1, <3>2 DEF Enteros
  <2>3. \A i \in 1..Len(L) : EsTexto(string_itoa(propias[i] - 1))
                             /\ atoi(string_itoa(propias[i] - 1)) = N0 + i - 1
    <3> SUFFICES ASSUME NEW i \in 1..Len(L)
                 PROVE  EsTexto(string_itoa(propias[i] - 1))
                        /\ atoi(string_itoa(propias[i] - 1)) = N0 + i - 1
      OBVIOUS
    <3> DEFINE k == N0 + i - 1
    <3>1. propias[i] - 1 = k
      BY <2>1
    <3>2. k \in Enteros
      BY <2>2
    <3> HIDE DEF k
    <3>3. EsTexto(string_itoa(k)) /\ atoi(string_itoa(k)) = k
      BY <3>2, NumeroTexto, NumeroEntero
    <3> QED BY <3>1, <3>3 DEF k
  <2> DEFINE Z == {string_itoa(propias[i] - 1) : i \in 1..Len(L)}
  <2>4. textos \in [1..Len(L) -> Z]
    BY <2>1
  <2>5. textos \in Seq(Z)
    <3> HIDE DEF Z, textos
    <3> QED BY <1>0, <2>4
  <2>6. \A i \in 1..Len(L) : textos[i] = string_itoa(propias[i] - 1)
    BY <2>1
  <2> HIDE DEF textos
  <2> QED BY <2>3, <2>4, <2>5, <2>6 DEF EsFlujo
<1> HIDE DEF textos
<1>12. indices = textos
  <2> DEFINE e == empaquetar_strings(textos)
  <2>1. EsFlujo(e) /\ deserializar_strings(e, 0).valor = textos
    BY <1>11, ListasFlujo, TextosEnteros
  <2>2. Buffer(r.respuesta) = e
    <3> HIDE DEF e
    <3> QED BY <1>4, <2>1, PaqueteSolo DEF e
  <2> QED BY <2>1, <2>2
<1> HIDE DEF indices
<1>13. /\ DOMAIN t = 1..Len(L) /\ Len(t) = Len(L)
       /\ \A i \in 1..Len(L) :
             /\ t[i].indice_tabla_paginas = N0 + i - 1
             /\ t[i].nro_segmento = i - 1 /\ t[i].tamanio_segmento = atoi(L[i])
  <2> DEFINE seg(i) == [nro_segmento |-> i - 1, indice_tabla_paginas |-> atoi(indices[i]),
                        tamanio_segmento |-> atoi(L[i])]
  <2>1. t = [i \in 1..Len(L) |-> seg(i)]
    BY <1>11, <1>12 DEF crear_tabla_segmentos
  <2>2. \A i \in 1..Len(L) :
           /\ seg(i).indice_tabla_paginas = N0 + i - 1
           /\ seg(i).nro_segmento = i - 1 /\ seg(i).tamanio_segmento = atoi(L[i])
    BY <1>11, <1>12
  <2> HIDE DEF t, seg
  <2>3. DOMAIN t = 1..Len(L) /\ Len(t) = Len(L)
    <3>1. t \in [1..Len(L) -> {seg(i) : i \in 1..Len(L)}]
      BY <2>1
    <3> QED BY <1>0, <2>1, <3>1
  <2> QED BY <2>1, <2>2, <2>3
<1> HIDE DEF t
<1> DEFINE n == r.mem
<1>14. EsMemoria(n) /\ n.tablas = tablas /\ n.marcos = mem.marcos /\ n.espacio = mem.espacio
  <2>1. EsMemoria(n)
    <3>1. EsMemoria([mem EXCEPT !.tablas = tablas])
      BY <1>7, MemoriaCambiada
    <3> QED BY <1>4, <3>1
  <2>2. /\ [mem EXCEPT !.tablas = tablas].tablas = tablas
        /\ [mem EXCEPT !.tablas = tablas].marcos = mem.marcos
        /\ [mem EXCEPT !.tablas = tablas].espacio = mem.espacio
    BY DEF EsMemoria, CamposMemoria
  <2> QED BY <1>4, <2>1, <2>2
<1> HIDE DEF n
<1>15. /\ LasPaginas(mem) \subseteq LasPaginas(n)
       /\ \A x \in LasPaginas(mem) : Entrada(n, x) = Entrada(mem, x) /\ PidDe(n, x) = PidDe(mem, x)
       /\ \A x \in LasPaginas(n) \ LasPaginas(mem) :
             Entrada(n, x) = EntradaNueva(x) /\ x[1] \in Enteros
  <2>1. LasPaginas(n) = (0..(N - 1)) \X (0..(EntradasPorTabla - 1))
    BY <1>6, <1>14 DEF LasPaginas
  <2>2. LasPaginas(mem) \subseteq LasPaginas(n)
    BY <1>0, <2>1 DEF LasPaginas
  <2>3. ASSUME NEW x \in LasPaginas(mem)
        PROVE  Entrada(n, x) = Entrada(mem, x) /\ PidDe(n, x) = PidDe(mem, x)
    <3>1. x[1] + 1 \in 1..N0
      BY <1>0, DeTabla
    <3>2. n.tablas[x[1] + 1] = mem.tablas[x[1] + 1]
      BY <1>6, <1>14, <3>1
    <3> QED BY <3>2 DEF Entrada, PidDe
  <2>4. ASSUME NEW x \in LasPaginas(n), x \notin LasPaginas(mem)
        PROVE  Entrada(n, x) = EntradaNueva(x) /\ x[1] \in Enteros
    <3>1. x = <<x[1], x[2]>> /\ x[1] \in 0..(N - 1) /\ x[2] \in 0..(EntradasPorTabla - 1)
      BY <2>1
    <3>2. x[1] \notin 0..(N0 - 1)
      BY <2>4, <3>1 DEF LasPaginas
    <3>3. x[1] + 1 > N0 /\ x[1] + 1 \in 1..N
      BY <1>0, <3>1, <3>2
    <3>4. PICK i : i = x[1] + 1 - N0
      OBVIOUS
    <3>5. tablas[x[1] + 1] = nueva(i)
      <4>1. i \in 1..Len(L) /\ N0 + i = x[1] + 1
        BY <1>0, <3>1, <3>3, <3>4
      <4> HIDE DEF nueva, N, N0
      <4>2. tablas[N0 + i] = nueva(i)
        BY <1>6, <4>1
      <4> QED BY <4>1, <4>2
    <3>6. nueva(i).entradas[x[2]] = EntradaNueva(x)
      <4>1. N0 + i - 1 = x[1]
        BY <1>0, <3>1, <3>4
      <4>2. <<N0 + i - 1, x[2]>> = x
        BY ONLY <3>1, <4>1
      <4> QED BY <3>1, <4>2
    <3>7. x[1] \in Enteros
      <4>1. N <= (Modulo \div 2) - 1 /\ Modulo \div 2 \in Nat
        BY <1>0, ModuloAssumption DEF Enteros
      <4> QED BY <1>0, <3>1, <4>1 DEF Enteros
    <3>8. Entrada(n, x) = EntradaNueva(x)
      BY <1>14, <3>5, <3>6 DEF Entrada
    <3> QED BY <3>7, <3>8
  <2> QED BY <2>2, <2>3, <2>4
<1>16. BuenaMemoria(n)
  <2>1. ASSUME NEW k \in DOMAIN n.tablas
        PROVE  /\ DOMAIN n.tablas[k] = {"pid", "entradas"}
               /\ DOMAIN n.tablas[k].entradas = 0..(EntradasPorTabla - 1)
    <3>1. \A i : /\ DOMAIN nueva(i) = {"pid", "entradas"}
                 /\ DOMAIN nueva(i).entradas = 0..(EntradasPorTabla - 1)
      OBVIOUS
    <3>2. k \in 1..N /\ n.tablas[k] = tablas[k]
      BY <1>7, <1>14
    <3>3. \A j \in DOMAIN mem.tablas :
             /\ DOMAIN mem.tablas[j] = {"pid", "entradas"}
             /\ DOMAIN mem.tablas[j].entradas = 0..(EntradasPorTabla - 1)
      BY Zenon DEF BuenaMemoria
    <3> HIDE DEF nueva, N
    <3>4. CASE k > N0
      <4>1. tablas[k] = nueva(k - N0)
        BY <1>8, <3>2, <3>4
      <4> QED BY <3>1, <3>2, <4>1
    <3>5. CASE ~(k > N0)
      <4>1. tablas[k] = mem.tablas[k] /\ k \in DOMAIN mem.tablas
        BY <1>0, <1>8, <3>2, <3>5
      <4> QED BY <3>2, <3>3, <4>1
    <3> QED BY <3>4, <3>5
  <2>2. ASSUME NEW x \in LasPaginas(n) PROVE EsEntrada(Entrada(n, x))
    <3>1. \A y : EsEntrada(EntradaNueva(y))
      BY DEF EsEntrada, EntradaNueva
    <3>2. x \in LasPaginas(mem) => EsEntrada(Entrada(mem, x))
      BY Zenon DEF BuenaMemoria
    <3> QED BY <1>15, <3>1, <3>2
  <2>3. ASSUME NEW m \in Marcos, n.marcos[m] # PidLibre
        PROVE  \E x \in Cargadas(n, n.marcos[m]) : Entrada(n, x).marco = m
    <3>1. PICK x \in Cargadas(mem, mem.marcos[m]) : Entrada(mem, x).marco = m
      BY <1>14, <2>3 DEF BuenaMemoria
    <3>2. x \in LasPaginas(mem) /\ Entrada(mem, x).presencia /\ PidDe(mem, x) = mem.marcos[m]
      BY <3>1 DEF Cargadas, PaginasDe, LasPaginas
    <3>3. x \in Cargadas(n, n.marcos[m])
      BY <1>14, <1>15, <3>2 DEF Cargadas, PaginasDe, LasPaginas
    <3> QED BY <1>15, <3>1, <3>2, <3>3
  <2> QED BY <1>14, <2>1, <2>2, <2>3 DEF BuenaMemoria
<1>17. ASSUME NEW q PROVE RespetaA(mem, n, q)
  BY <1>0, <1>6, <1>14, <1>15 DEF RespetaA
<1>18. \A k \in DOMAIN n.tablas : IF k \in DOMAIN mem.tablas
                                  THEN n.tablas[k].pid = mem.tablas[k].pid
                                  ELSE n.tablas[k].pid = pid
  BY <1>0, <1>7, <1>9, <1>14
<1>19. ASSUME NEW i \in DOMAIN t
       PROVE  LET k == t[i].indice_tabla_paginas IN
              k \in 0..(Len(n.tablas) - 1) /\ n.tablas[k + 1].pid = pid
  <2>1. i \in 1..Len(L) /\ t[i].indice_tabla_paginas = N0 + i - 1
    BY <1>13
  <2>2. N0 + i - 1 \in 0..(N - 1) /\ (N0 + i - 1) + 1 \in 1..N /\ (N0 + i - 1) + 1 > N0
    BY <1>0, <2>1
  <2>3. n.tablas[(N0 + i - 1) + 1].pid = pid
    BY <1>9, <1>14, <2>2
  <2> QED BY <1>6, <1>14, <2>1, <2>2, <2>3
<1>20. /\ BuenaMemoria(n) /\ n.marcos = mem.marcos /\ \A q : RespetaA(mem, n, q)
       /\ Len(n.tablas) = N0 + Len(L) /\ Len(t) = Len(L)
  BY <1>6, <1>13, <1>14, <1>16, <1>17
<1>21. ConTablas(mem, n, t, pid, Len(L))
  BY <1>18, <1>19, <1>20 DEF ConTablas
<1>22. TablasNuevas(mem, n, t, L)
  BY <1>13, <1>14, <1>15 DEF TablasNuevas
<1> QED BY <1>21, <1>22, Zenon DEF n, r, t, indices, buffer

-----------------------------------------------------------------------------
(* What the CPU asks of the memory *)

\* What a PCB says of the memory: its segments, its addresses and the page it waits for.
DeMemoria(n, pcb) ==
    /\ n.tabla_de_segmentos = pcb.tabla_de_segmentos /\ n.instrucciones = pcb.instrucciones
    /\ n.page_fault = pcb.page_fault /\ n.pagina_fault = pcb.pagina_fault

\* Whoever changes the pages of another process leaves a PCB as good as it was.
LEMMA PcbConTras ==
    ASSUME NEW mem, EsMemoria(mem), NEW n, EsMemoria(n), NEW p, NEW q, NEW pcb, RespetaA(mem, n, q),
           PcbConMemoria(pcb, p, mem), q = p => ~pcb.page_fault
    PROVE  PcbConMemoria(pcb, p, n)
<1>1. /\ Len(mem.tablas) \in Nat /\ DOMAIN mem.tablas = 1..Len(mem.tablas)
      /\ Len(n.tablas) \in Nat /\ Len(mem.tablas) <= Len(n.tablas)
  BY DeLista DEF EsMemoria, RespetaA
<1>2. \A k \in DOMAIN mem.tablas : n.tablas[k].pid = mem.tablas[k].pid
  BY DEF RespetaA
<1>3. ASSUME NEW i \in DOMAIN pcb.tabla_de_segmentos
      PROVE  LET k == pcb.tabla_de_segmentos[i].indice_tabla_paginas IN
             k \in 0..(Len(n.tablas) - 1) /\ n.tablas[k + 1].pid = p
  <2> DEFINE k == pcb.tabla_de_segmentos[i].indice_tabla_paginas
  <2>1. k \in 0..(Len(mem.tablas) - 1) /\ mem.tablas[k + 1].pid = p
    BY DEF PcbConMemoria
  <2> HIDE DEF k
  <2>2. k + 1 \in DOMAIN mem.tablas /\ k \in 0..(Len(n.tablas) - 1)
    BY <1>1, <2>1
  <2>3. n.tablas[k + 1].pid = p
    BY <1>2, <2>1, <2>2
  <2> QED BY <2>2, <2>3 DEF k
<1>4. ASSUME pcb.page_fault
      PROVE  pcb.pagina_fault \in PaginasDe(n, p) /\ ~Entrada(n, pcb.pagina_fault).presencia
  <2> DEFINE x == pcb.pagina_fault
  <2>1. x \in PaginasDe(mem, p) /\ ~Entrada(mem, x).presencia
    BY <1>4 DEF PcbConMemoria
  <2> HIDE DEF x
  <2>2. x \in LasPaginas(mem) /\ PidDe(mem, x) = p
    BY <2>1 DEF PaginasDe, LasPaginas
  <2>3. x = <<x[1], x[2]>> /\ x[1] + 1 \in DOMAIN mem.tablas /\ x[2] \in 0..(EntradasPorTabla - 1)
        /\ x[1] \in Nat
    BY <2>2, DeTabla
  <2>4. PidDe(n, x) = p
    BY <1>2, <2>2, <2>3 DEF PidDe
  <2>5. x[1] \in 0..(Len(n.tablas) - 1)
    BY <1>1, <2>3
  <2>6. x \in PaginasDe(n, p)
    BY <2>3, <2>4, <2>5 DEF PaginasDe
  <2>7. Entrada(n, x).presencia = Entrada(mem, x).presencia
    BY <1>4, <2>2 DEF RespetaA
  <2> QED BY <2>1, <2>6, <2>7 DEF x
<1>5. Direccionable(pcb.instrucciones, Len(pcb.tabla_de_segmentos))
  BY DEF PcbConMemoria
<1> QED BY <1>3, <1>4, <1>5 DEF PcbConMemoria

\* The handshake (enviar_configuracion_memoria).
LEMMA ConfiguracionLeida ==
    pagina_config.tamanio_pagina = TamPagina /\ pagina_config.cantidad_entradas = EntradasPorTabla
<1> DEFINE s == Entero(TamPagina) \o Entero(EntradasPorTabla)
<1>1. EsFlujo(s)
  BY Anchos, Concatenado
<1>2. deserializar_pagina(s, 0) = <<TamPagina, EntradasPorTabla>>
  BY <1>1, TieneTodo, PaginaLeida
<1>3. LeerEntero(s, 0) = TamPagina /\ LeerEntero(s, AnchoInt) = EntradasPorTabla
  <2>1. 0 + AnchoInt = AnchoInt
    BY Anchos
  <2> HIDE DEF s
  <2> QED BY <1>2, <2>1 DEF deserializar_pagina
<1>4. Buffer(Paquete("HANDSHAKE", s)) = s
  <2> HIDE DEF s
  <2> QED BY <1>1, PaqueteSolo
<1>5. pagina_config = recibir_configuracion_memoria(s)
  BY <1>4 DEF pagina_config, ConfiguracionMemoria
<1> HIDE DEF s
<1> QED BY <1>3, <1>5 DEF recibir_configuracion_memoria

\* An address that is in the segments is in a page of one of them.
LEMMA SegmentoDe ==
    ASSUME NEW n \in Nat, NEW dir \in 0..(n * TamPagina * EntradasPorTabla - 1)
    PROVE  LET tam == TamMaxSegmento(EntradasPorTabla, TamPagina) IN
           /\ obtener_nro_segmento(dir, tam) + 1 \in 1..n
           /\ obtener_nro_pagina(dir, tam, TamPagina) \in 0..(EntradasPorTabla - 1)
<1> DEFINE tam == TamMaxSegmento(EntradasPorTabla, TamPagina)
<1>1. TamPagina \in Nat \ {0} /\ EntradasPorTabla \in Nat \ {0}
  BY ServidorAssumption
<1>2. tam \in Nat \ {0} /\ tam = EntradasPorTabla * TamPagina
  BY <1>1, Producto DEF TamMaxSegmento
<1>3. n * TamPagina * EntradasPorTabla = n * tam
  BY <1>1, <1>2
<1>4. n # 0
  <2>1. n = 0 => n * TamPagina * EntradasPorTabla = 0
    BY <1>1
  <2> QED BY <2>1
<1>5. dir \in 0..(n * tam - 1) /\ dir \in Nat
  BY <1>3
<1>6. obtener_nro_pagina(dir, tam, TamPagina) \in 0..(EntradasPorTabla - 1)
  BY <1>1, <1>5, DireccionCompleta
<1> HIDE DEF tam
<1>7. dir \div tam \in 0..(n - 1)
  BY <1>2, <1>4, <1>5, CocienteAcotado
<1>8. obtener_nro_segmento(dir, tam) + 1 \in 1..n
  <2> DEFINE c == dir \div tam
  <2>1. c \in 0..(n - 1)
    BY <1>7
  <2> HIDE DEF c
  <2>2. c + 1 \in 1..n
    BY <2>1
  <2> QED BY <2>2 DEF c, obtener_nro_segmento
<1> QED BY <1>6, <1>8 DEF tam

\* The TLB has frames still after a hit, a new entry and the end of a process.
LEMMA TlbSigueBuena ==
    ASSUME NEW t, BuenaTlb(t), NEW c, NEW m, m # NoEsta, NEW cs
    PROVE  BuenaTlb(Referir(t, c)) /\ BuenaTlb(Sacar(t, cs)) /\ BuenaTlb(Actualizar(t, c, m))
<1>1. ASSUME NEW u, BuenaTlb(u) PROVE BuenaTlb(Agregar(u, c, m))
  <2>1. /\ Agregar(u, c, m).marco =
              [d \in Claves(u) \cup {c} |-> IF d = c THEN m ELSE u.marco[d]]
    BY DEF Agregar
  <2> QED BY <1>1, <2>1 DEF BuenaTlb, Claves
<1>2. ASSUME NEW ds PROVE BuenaTlb(Sacar(t, ds))
  <2>1. Sacar(t, ds).marco = [d \in Claves(t) \ ds |-> t.marco[d]]
    BY DEF Sacar
  <2> QED BY <2>1 DEF BuenaTlb, Claves
<1>3. BuenaTlb(Referir(t, c))
  <2>1. Referir(t, c).marco = t.marco
    BY DEF Referir
  <2> QED BY <2>1 DEF BuenaTlb, Claves
<1>4. BuenaTlb(Actualizar(t, c, m))
  <2>1. Actualizar(t, c, m) \in {t, Agregar(t, c, m), Agregar(Sacar(t, {Victima(t)}), c, m)}
    BY Zenon DEF Actualizar
  <2> QED BY <1>1, <1>2, <2>1
<1> QED BY <1>2, <1>3, <1>4

\* decode learns that a page has no frame only when it is not in memory.
LEMMA MarcoPedido ==
    ASSUME NEW mem, EsMemoria(mem), BuenaMemoria(mem), NEW x \in LasPaginas(mem),
           NEW t, BuenaTlb(t), NEW pid, NEW k
    PROVE  LET r == PedirMarco(mem, t, pid, k, x) IN
           /\ r.marco = NoEsta => ~Entrada(mem, x).presencia
           /\ r.marco # NoEsta => BuenaTlb(r.tlb)
<1> DEFINE r == PedirMarco(mem, t, pid, k, x)
           e == Entrada(mem, x)
           a == AtenderPedidoDeMarco(mem, Buffer(Paquete("PAGINA", empaquetar_pagina(x))))
           c == <<pid, k>>
<1>1. CASE Buscar(t, pid, k) # {}
  <2>1. c \in Claves(t) /\ t.marco[c] # NoEsta
    BY <1>1 DEF Buscar, BuenaTlb
  <2>2. r = [marco |-> t.marco[c], tlb |-> Referir(t, c)]
    BY <1>1, Zenon DEF PedirMarco
  <2>3. BuenaTlb(Referir(t, c))
    BY <2>1, TlbSigueBuena
  <2> HIDE DEF c, r
  <2> QED BY <2>1, <2>2, <2>3 DEF r
<1>2. CASE Buscar(t, pid, k) = {}
  <2>1. r = IF Operacion(a) = "OKI_MARCO"
            THEN [marco |-> Valor(Buffer(a)), tlb |-> Actualizar(t, c, Valor(Buffer(a)))]
            ELSE [marco |-> NoEsta, tlb |-> t]
    BY <1>2, Zenon DEF PedirMarco
  <2>2. a = IF e.presencia THEN ValorConCodigo(e.marco, "OKI_MARCO") ELSE Codigo("PAGE_NOT_FOUND_404")
    <3>1. deserializar_pagina(Buffer(Paquete("PAGINA", empaquetar_pagina(x))), 0) = x
      <4>1. x = <<x[1], x[2]>>
        BY DeTabla
      <4> QED BY <4>1, PaginaSola
    <3> QED BY <3>1, Zenon DEF AtenderPedidoDeMarco
  <2> HIDE DEF r, a, c
  <2>3. CASE e.presencia
    <3>1. e.marco \in Marcos
      <4>1. EsEntrada(e)
        BY Zenon DEF BuenaMemoria
      <4> QED BY <2>3, <4>1, Zenon DEF EsEntrada
    <3>2. e.marco \in Enteros /\ e.marco \in Int /\ e.marco # NoEsta
      <4>1. TamPagina \in Nat \ {0} /\ CantMarcos \in Nat \ {0} /\ TamPagina * CantMarcos \in Enteros
        BY ServidorAssumption, EjecucionAssumption
      <4>2. CantMarcos <= TamPagina * CantMarcos
        BY <4>1
      <4>3. Modulo \div 2 \in Nat
        BY ModuloAssumption
      <4> DEFINE m == e.marco
      <4>4. m \in 0..(CantMarcos - 1)
        BY <3>1 DEF Marcos
      <4> HIDE DEF m
      <4>5. m \in Enteros /\ m \in Int /\ m # NoEsta
        BY <4>1, <4>2, <4>3, <4>4 DEF Enteros, NoEsta
      <4> QED BY <4>5 DEF m
    <3> HIDE DEF e
    <3>3. Operacion(a) = "OKI_MARCO" /\ Valor(Buffer(a)) = e.marco
      BY <2>2, <2>3, <3>2, ValorSolo, ValorLeido, NumeroEntero
    <3>4. r = [marco |-> e.marco, tlb |-> Actualizar(t, c, e.marco)]
      BY <2>1, <3>3
    <3>5. BuenaTlb(Actualizar(t, c, e.marco))
      BY <3>2, TlbSigueBuena
    <3> QED BY <3>2, <3>4, <3>5 DEF r
  <2>4. CASE ~e.presencia
    <3>1. Operacion(a) = "PAGE_NOT_FOUND_404"
      BY <2>2, <2>4, CodigoSolo
    <3>2. r = [marco |-> NoEsta, tlb |-> t]
      BY <2>1, <3>1
    <3> QED BY <2>4, <3>2 DEF r
  <2> QED BY <2>3, <2>4
<1> QED BY <1>1, <1>2

\* decode: a page of the process is in the memory, or the PCB waits for one of its own that
\* is not.
LEMMA AlDecodificar ==
    ASSUME NEW p, NEW pcb, BuenPcb(pcb, p), NEW mem, EsMemoria(mem), BuenaMemoria(mem),
           PcbConMemoria(pcb, p, mem), NEW t, BuenaTlb(t),
           NEW j \in DOMAIN pcb.instrucciones, NEW i, i = pcb.instrucciones[j]
    PROVE  LET d == decode(pcb, i, mem, t) IN
           /\ PcbConMemoria(d.pcb, p, mem) /\ BuenaTlb(d.tlb)
           /\ ~d.error /\ EsAcceso(i) => d.pagina \in LasPaginas(mem)
<1> DEFINE tam_max  == TamMaxSegmento(pagina_config.cantidad_entradas, pagina_config.tamanio_pagina)
           dir      == obtener_dir_logica(i)
           lugar    == obtener_nro_segmento(dir, tam_max) + 1
           segmento == pcb.tabla_de_segmentos[lugar]
           x == segmento.indice_tabla_paginas
           y == obtener_nro_pagina(dir, tam_max, pagina_config.tamanio_pagina)
           pedido == PedirMarco(mem, t, pcb.pid, <<segmento.nro_segmento, y>>, <<x, y>>)
           d == decode(pcb, i, mem, t)
           sf == [pcb EXCEPT !.segmentation_fault = TRUE]
           pf == [pcb EXCEPT !.page_fault = TRUE, !.pagina_fault = <<x, y>>]
           fis == DireccionFisica(pedido.marco, pagina_config.tamanio_pagina,
                    obtener_desplazamiento_pagina(dir, tam_max, pagina_config.tamanio_pagina))
<1>1. d = IF ~EsAcceso(i)
          THEN [pcb |-> pcb, tlb |-> t, pagina |-> Nulo, error |-> FALSE]
          ELSE IF obtener_desplazamiento_segmento(dir, tam_max) >= segmento.tamanio_segmento
          THEN [pcb |-> sf, tlb |-> t, pagina |-> <<x, y>>, error |-> TRUE]
          ELSE IF pedido.marco = NoEsta
          THEN [pcb |-> pf, tlb |-> t, pagina |-> <<x, y>>, error |-> TRUE]
          ELSE [pcb |-> pcb, tlb |-> pedido.tlb, pagina |-> <<x, y>>, error |-> FALSE,
                direccion_fisica |-> fis]
  BY Zenon DEF decode
<1>2. ASSUME EsAcceso(i) PROVE <<x, y>> \in PaginasDe(mem, p)
  <2> DEFINE n == Len(pcb.tabla_de_segmentos)
  <2>1. n \in Nat /\ DOMAIN pcb.tabla_de_segmentos = 1..n
    BY DeLista DEF BuenPcb
  <2>2. dir \in 0..(n * TamPagina * EntradasPorTabla - 1)
    <3>1. Direccionable(pcb.instrucciones, n)
      BY DEF PcbConMemoria
    <3> HIDE DEF n
    <3> QED BY <1>2, <3>1 DEF Direccionable
  <2> HIDE DEF dir, n
  <2>3. lugar \in 1..n /\ y \in 0..(EntradasPorTabla - 1)
    BY <2>1, <2>2, SegmentoDe, ConfiguracionLeida
  <2> HIDE DEF lugar, y
  <2>4. x \in 0..(Len(mem.tablas) - 1) /\ mem.tablas[x + 1].pid = p
    BY <2>1, <2>3 DEF PcbConMemoria
  <2> HIDE DEF x
  <2> QED BY <2>3, <2>4 DEF PaginasDe, PidDe
<1>3. ASSUME EsAcceso(i)
      PROVE  /\ pedido.marco = NoEsta => ~Entrada(mem, <<x, y>>).presencia
             /\ pedido.marco # NoEsta => BuenaTlb(pedido.tlb)
  <2>1. <<x, y>> \in LasPaginas(mem)
    BY <1>2, <1>3 DEF PaginasDe, LasPaginas
  <2> DEFINE pag == <<x, y>>
             k == <<segmento.nro_segmento, y>>
  <2>2. pag \in LasPaginas(mem)
    BY <2>1
  <2> HIDE DEF k, pag
  <2>3. LET r == PedirMarco(mem, t, pcb.pid, k, pag) IN
        (r.marco = NoEsta => ~Entrada(mem, pag).presencia) /\ (r.marco # NoEsta => BuenaTlb(r.tlb))
    BY <2>2, MarcoPedido
  <2> QED BY <2>3 DEF k, pag
<1>4. PcbConMemoria(sf, p, mem)
  <2>1. /\ sf.tabla_de_segmentos = pcb.tabla_de_segmentos /\ sf.instrucciones = pcb.instrucciones
        /\ sf.page_fault = pcb.page_fault /\ sf.pagina_fault = pcb.pagina_fault
    BY DEF BuenPcb, CamposPcb
  <2> HIDE DEF sf
  <2> QED BY <2>1 DEF PcbConMemoria
<1>5. ASSUME EsAcceso(i), pedido.marco = NoEsta PROVE PcbConMemoria(pf, p, mem)
  <2>1. <<x, y>> \in PaginasDe(mem, p) /\ ~Entrada(mem, <<x, y>>).presencia
    BY <1>2, <1>3, <1>5
  <2> DEFINE pag == <<x, y>>
  <2>2. pag \in PaginasDe(mem, p) /\ ~Entrada(mem, pag).presencia
    BY <2>1
  <2> DEFINE g == [pcb EXCEPT !.page_fault = TRUE, !.pagina_fault = pag]
  <2>3. pf = g
    OBVIOUS
  <2> HIDE DEF pag, pf
  <2>4. /\ g.tabla_de_segmentos = pcb.tabla_de_segmentos /\ g.instrucciones = pcb.instrucciones
        /\ g.pagina_fault = pag
    BY DEF BuenPcb, CamposPcb
  <2> HIDE DEF g
  <2>5. PcbConMemoria(g, p, mem)
    BY <2>2, <2>4 DEF PcbConMemoria
  <2> QED BY <2>3, <2>5
<1> DEFINE a == obtener_desplazamiento_segmento(dir, tam_max) >= segmento.tamanio_segmento
           b == pedido.marco = NoEsta
           pag == <<x, y>>
           ptlb == pedido.tlb
<1>6. /\ EsAcceso(i) => pag \in LasPaginas(mem)
      /\ EsAcceso(i) /\ b => PcbConMemoria(pf, p, mem)
      /\ EsAcceso(i) /\ ~b => BuenaTlb(ptlb)
  BY <1>2, <1>3, <1>5 DEF PaginasDe, LasPaginas
<1>7. d = IF ~EsAcceso(i)
          THEN [pcb |-> pcb, tlb |-> t, pagina |-> Nulo, error |-> FALSE]
          ELSE IF a THEN [pcb |-> sf, tlb |-> t, pagina |-> pag, error |-> TRUE]
          ELSE IF b THEN [pcb |-> pf, tlb |-> t, pagina |-> pag, error |-> TRUE]
          ELSE [pcb |-> pcb, tlb |-> ptlb, pagina |-> pag, error |-> FALSE,
                direccion_fisica |-> fis]
  BY <1>1
<1> HIDE DEF d, sf, pf, a, b, pag, ptlb, fis
<1>8. \/ ~EsAcceso(i) /\ d.pcb = pcb /\ d.tlb = t
      \/ d.pcb = sf /\ d.tlb = t /\ d.error
      \/ EsAcceso(i) /\ b /\ d.pcb = pf /\ d.tlb = t /\ d.error
      \/ EsAcceso(i) /\ ~b /\ d.pcb = pcb /\ d.tlb = ptlb /\ d.pagina = pag
  BY <1>7
<1> QED BY <1>4, <1>6, <1>8 DEF d

\* A register changes, and the rest of the PCB does not.
LEMMA AsignaDeMemoria ==
    ASSUME NEW p, NEW pcb, BuenPcb(pcb, p), NEW r, NEW v
    PROVE  DeMemoria(set_valor_en_registro(pcb, r, v), pcb)
BY DEF set_valor_en_registro, DeMemoria, BuenPcb, CamposPcb

\* ejecutar_instruccion: of the memory only what MOV_OUT writes changes.
LEMMA AlEjecutarMemoria ==
    ASSUME NEW p, NEW pcb, BuenPcb(pcb, p), NEW i, NEW mem, EsMemoria(mem), BuenaMemoria(mem),
           NEW d, BuenaTlb(d.tlb), EsAcceso(i) => d.pagina \in LasPaginas(mem)
    PROVE  LET e == ejecutar_instruccion(pcb, i, mem, d) IN
           /\ DeMemoria(e.pcb, pcb) /\ BuenaTlb(e.tlb)
           /\ Intacta(mem, e.mem)
<1> DEFINE e == ejecutar_instruccion(pcb, i, mem, d)
           a == set_valor_registro(pcb, i.parametro1, i.parametro2)
           b == ejecutar_add(pcb, i.parametro1, i.parametro2)
           c == ejecutar_mov_in(pcb, i.parametro1, mem, d)
           o == ejecutar_mov_out(pcb, i.parametro2, mem, d)
           z == LimpiarProceso(d.tlb, pcb.pid)
<1>1. DeMemoria(pcb, pcb)
  BY DEF DeMemoria
<1>2. DeMemoria(a, pcb)
  BY AsignaDeMemoria DEF set_valor_registro
<1>3. DeMemoria(b, pcb)
  BY AsignaDeMemoria DEF ejecutar_add, set_valor_registro
<1>4. DeMemoria(c, pcb)
  <2> DEFINE r == AtenderPedidoDeLectura(mem,
                 Paquete("LEER", empaquetar_pagina(d.pagina)) \o Entero(d.direccion_fisica))
  <2>1. c = IF Operacion(r) = "OKI_LEER"
            THEN set_valor_en_registro(pcb, i.parametro1, Valor(Buffer(r))) ELSE pcb
    BY DEF ejecutar_mov_in
  <2> HIDE DEF r, c
  <2>2. DeMemoria(set_valor_en_registro(pcb, i.parametro1, Valor(Buffer(r))), pcb)
    BY AsignaDeMemoria
  <2> QED BY <1>1, <2>1, <2>2
<1>5. BuenaTlb(z)
  <2>1. NoEsta # 0
    BY DEF NoEsta
  <2> QED BY <2>1, TlbSigueBuena DEF LimpiarProceso
<1>6. Intacta(mem, mem)
  BY DeLista DEF Intacta, RespetaA, EsMemoria
<1>7. ASSUME i.operacion = "MOV_OUT" PROVE Intacta(mem, o)
  <2>1. d.pagina \in LasPaginas(mem)
    BY <1>7 DEF EsAcceso
  <2> DEFINE x == d.pagina
             dir == d.direccion_fisica
             v == ConSigno(obtener_valor_del_registro(pcb, i.parametro2))
             n == AtenderPedidoDeEscritura(mem,
                     Paquete("ESCRIBIR", empaquetar_pagina(x)) \o Entero(dir) \o Entero(v)).mem
  <2>2. o = n
    BY DEF ejecutar_mov_out
  <2> HIDE DEF o
  <2>3. Intacta(mem, n)
    <3>1. x \in LasPaginas(mem)
      BY <2>1
    <3> HIDE DEF x, dir, v
    <3> QED BY <3>1, AlEscribirMemoria
  <2> HIDE DEF n
  <2> QED BY <2>2, <2>3
<1>8. e = [pcb |-> CASE i.operacion = "SET"    -> a
               [] i.operacion = "ADD"    -> b
               [] i.operacion = "MOV_IN" -> c
               [] OTHER                  -> pcb,
           mem |-> IF i.operacion = "MOV_OUT" THEN o ELSE mem,
           tlb |-> IF i.operacion = "EXIT" THEN z ELSE d.tlb]
  BY Zenon DEF ejecutar_instruccion
<1> HIDE DEF a, b, c, o, z, e
<1>9. e.pcb \in {a, b, c, pcb} /\ e.tlb \in {z, d.tlb}
      /\ e.mem = IF i.operacion = "MOV_OUT" THEN o ELSE mem
  BY <1>8
<1>10. Intacta(mem, e.mem)
  <2> QED BY <1>6, <1>7, <1>9
<1>11. DeMemoria(e.pcb, pcb) /\ BuenaTlb(e.tlb)
  <2> QED BY <1>1, <1>2, <1>3, <1>4, <1>5, <1>9
<1> QED BY <1>10, <1>11 DEF e

\* Two PCBs that say the same of the memory are as good.
LEMMA DeMemoriaVale ==
    ASSUME NEW n, NEW pcb, DeMemoria(n, pcb), NEW p, NEW mem, PcbConMemoria(pcb, p, mem)
    PROVE  PcbConMemoria(n, p, mem)
BY DEF DeMemoria, PcbConMemoria

-----------------------------------------------------------------------------
(* The steps of the kernel, for SinFugas *)

\* The pids the tables say, and how many they are, when no table is created.
LEMMA TablasSiguen ==
    ASSUME InvE, InvM, UNCHANGED <<pid_actual, cola_new>>, EsMemoria(memoria'),
           Len(memoria'.tablas) = Len(memoria.tablas), NEW q, RespetaA(memoria, memoria', q)
    PROVE  TablasDeAdmitidos'
<1>1. TablasDeAdmitidos /\ EsMemoria(memoria)
  BY DEF InvM, InvE, Tipos
<1>2. DOMAIN memoria'.tablas = DOMAIN memoria.tablas
      /\ \A k \in DOMAIN memoria.tablas : memoria'.tablas[k].pid = memoria.tablas[k].pid
  BY <1>1, DeLista DEF EsMemoria, RespetaA
<1>3. Elems(cola_new)' = Elems(cola_new)
  BY DEF Elems
<1> QED BY <1>1, <1>2, <1>3 DEF TablasDeAdmitidos

\* A step that moves the PCB of q, and changes no page that is not of q.
LEMMA AlMover ==
    ASSUME InvE, InvM, NEW q, q \in 1..pid_actual', pid_actual' \in Nat, EsMemoria(memoria'),
           \A p \in 1..pid_actual' : p # q =>
              p \in 1..pid_actual /\ (Admitido(p)' <=> Admitido(p))
              /\ (Admitido(p) => PcbDe(p)' = PcbDe(p)),
           1..pid_actual \subseteq 1..pid_actual',
           \A p \in Elems(cola_exit)' : p = q \/ p \in Elems(cola_exit),
           \A p \in Elems(cola_new)' :
              PorAdmitir(pcbs'[p]) \/ (p \in Elems(cola_new) /\ pcbs'[p] = pcbs[p]),
           \A p \in Pids : p # q /\ hilo'[p] = "page fault" =>
              hilo[p] = "page fault" /\ pcbs'[p] = pcbs[p],
           q \in Pids /\ hilo'[q] = "page fault" => pcbs'[q].page_fault,
           BuenaMemoria(memoria'), RespetaA(memoria, memoria', q),
           \A m \in Marcos : /\ memoria'.marcos[m] \in {PidLibre, memoria.marcos[m], q}
                             /\ memoria'.marcos[m] = q => Admitido(q)' /\ q \notin Elems(cola_exit)',
           Admitido(q)' => PcbConMemoria(PcbDe(q)', q, memoria'),
           TablasDeAdmitidos', BuenaTlb(tlb')
    PROVE  InvM'
<1>1. Tipos /\ Pcbs /\ EsMemoria(memoria)
  BY DEF InvE, Tipos
<1>2. SinFugas'
  <2>1. ASSUME NEW m \in Marcos, NEW p, p = memoria'.marcos[m], p # PidLibre
        PROVE  Admitido(p)' /\ p \notin Elems(cola_exit)'
    <3>1. CASE p = q
      BY <2>1, <3>1
    <3>2. CASE p # q
      <4>1. p = memoria.marcos[m]
        BY <2>1, <3>2
      <4>2. SinFugas
        BY DEF InvM
      <4>3. Admitido(p) /\ p \notin Elems(cola_exit)
        <5>1. m \in Marcos /\ memoria.marcos[m] # PidLibre /\ p = memoria.marcos[m]
          BY ONLY <2>1, <4>1
        <5>2. /\ Admitido(memoria.marcos[m])
              /\ \A i \in DOMAIN cola_exit : cola_exit[i] # memoria.marcos[m]
          BY ONLY <4>2, <5>1 DEF SinFugas
        <5> QED BY ONLY <5>1, <5>2 DEF Elems
      <4>4. p \in 1..pid_actual
        BY <1>1, <4>3, Vivos DEF Admitido
      <4> QED BY <3>2, <4>3, <4>4
    <3> QED BY <3>1, <3>2
  <2>2. Elems(cola_exit)' = Elems(cola_exit')
    BY DEF Elems
  <2>3. ASSUME NEW m \in Marcos, memoria'.marcos[m] # PidLibre
        PROVE  /\ Admitido(memoria.marcos[m])'
               /\ \A i \in DOMAIN cola_exit' : cola_exit'[i] # memoria'.marcos[m]
    <3>1. PICK p : p = memoria'.marcos[m]
      OBVIOUS
    <3>2. Admitido(p)' /\ p \notin Elems(cola_exit')
      BY <2>1, <2>2, <2>3, <3>1
    <3>3. \A i \in DOMAIN cola_exit' : cola_exit'[i] # p
      BY <3>2 DEF Elems
    <3>4. Admitido(memoria.marcos[m])'
      BY <3>1, <3>2 DEF Admitido, Vive, EnCpuEsta
    <3> QED BY <3>1, <3>3, <3>4
  <2> QED BY <2>3 DEF SinFugas
<1>3. ASSUME NEW p \in Elems(cola_new)' PROVE PorAdmitir(pcbs'[p])
  <2>1. \A r \in Elems(cola_new) : PorAdmitir(pcbs[r])
    BY DEF InvM
  <2> QED BY <2>1
<1>4. ASSUME NEW p \in 1..pid_actual', Admitido(p)' PROVE PcbConMemoria(PcbDe(p)', p, memoria')
  <2>1. CASE p = q
    BY <1>4, <2>1
  <2>2. CASE p # q
    <3>1. p \in 1..pid_actual /\ Admitido(p) /\ PcbDe(p)' = PcbDe(p)
      BY <1>4, <2>2
    <3>2. PcbConMemoria(PcbDe(p), p, memoria)
      BY <3>1 DEF InvM
    <3> DEFINE pcb == PcbDe(p)
    <3>3. PICK b : b = pcb
      OBVIOUS
    <3>4. PcbConMemoria(b, p, memoria)
      BY <3>2, <3>3
    <3>5. PcbConMemoria(b, p, memoria')
      BY <1>1, <2>2, <3>4, PcbConTras
    <3> QED BY <3>1, <3>3, <3>5
  <2> QED BY <2>1, <2>2
<1>5. ASSUME NEW p \in Pids, hilo'[p] = "page fault" PROVE pcbs'[p].page_fault
  <2>1. \A r \in Pids : hilo[r] = "page fault" => pcbs[r].page_fault
    BY DEF InvM
  <2> QED BY <1>5, <2>1
<1>6. BuenaMemoria(memoria)' /\ BuenaTlb(tlb)'
  BY DEF BuenaMemoria, BuenaTlb, LasPaginas, Cargadas, PaginasDe, PidDe, Entrada, Claves
<1>7. \A p \in Elems(cola_new)' : PorAdmitir(pcbs[p])'
  BY <1>3 DEF PorAdmitir
<1>8. \A p \in 1..pid_actual' : Admitido(p)' => PcbConMemoria(PcbDe(p), p, memoria)'
  BY <1>4 DEF PcbConMemoria, PaginasDe, PidDe, Entrada
<1> QED BY <1>2, <1>5, <1>6, <1>7, <1>8 DEF InvM

\* What is left of the processes when the PCB of q is stored, from the CPU or in the heap.
LEMMA AlGuardar ==
    ASSUME InvE, InvM, NEW q \in 1..pid_actual, NEW n, n.pid = q, Guardar(n),
           pid_actual' = pid_actual,
           (cpu' = cpu /\ ~EnCpuEsta(q)) \/ (cpu' = Libre /\ EnCpuEsta(q)),
           \A p : p # q => (p \in Elems(cola_new)' <=> p \in Elems(cola_new)),
           q \notin Elems(cola_new)', \A p \in Elems(cola_exit)' : p = q \/ p \in Elems(cola_exit),
           \A p \in Pids \ {q} : hilo'[p] = hilo[p], hilo'[q] = "page fault" => n.page_fault,
           EsMemoria(memoria'), BuenaMemoria(memoria'), RespetaA(memoria, memoria', q),
           \A m \in Marcos : /\ memoria'.marcos[m] \in {PidLibre, memoria.marcos[m], q}
                             /\ memoria'.marcos[m] = q => q \notin Elems(cola_exit)',
           PcbConMemoria(n, q, memoria'), TablasDeAdmitidos', BuenaTlb(tlb')
    PROVE  InvM'
<1>1. Tipos /\ EnUnLugar /\ pid_actual \in Nat /\ 1..pid_actual \subseteq Pids
  BY PidsAlcanzan DEF InvE, Tipos
<1>2. /\ DOMAIN pcbs' = DOMAIN pcbs \cup {q} /\ pcbs'[q] = n
      /\ \A p \in DOMAIN pcbs \ {q} : pcbs'[p] = pcbs[p]
  BY <1>1, Guardado
<1>3. \A p : (Vive(p)' <=> Vive(p) \/ p = q)
  BY <1>2 DEF Vive, EnCpuEsta
<1>4. ASSUME NEW p, p # q, Vive(p) PROVE PcbDe(p)' = PcbDe(p)
  <2>1. EnCpuEsta(p)' <=> EnCpuEsta(p)
    BY <1>4 DEF EnCpuEsta
  <2>2. CASE EnCpuEsta(p)
    <3>1. cpu' = cpu
      BY <1>4, <2>2 DEF EnCpuEsta
    <3> QED BY <2>1, <2>2, <3>1 DEF PcbDe
  <2>3. CASE ~EnCpuEsta(p)
    BY <1>2, <1>4, <2>1, <2>3 DEF PcbDe, Vive
  <2> QED BY <2>2, <2>3
<1>5. PcbDe(q)' = n
  BY <1>2 DEF PcbDe, EnCpuEsta
<1>6. \A p : Admitido(p)' <=> (Vive(p) \/ p = q) /\ p \notin Elems(cola_new)'
  <2>1. \A p : Admitido(p)' <=> Vive(p)' /\ p \notin Elems(cola_new)'
    BY DEF Admitido, Elems
  <2> QED BY <1>3, <2>1
<1>7. \A p : p # q => (Admitido(p)' <=> Admitido(p)) /\ (Admitido(p) => PcbDe(p)' = PcbDe(p))
  BY <1>4, <1>6, AdmitidoEs
<1>8. Admitido(q)'
  BY <1>6
<1>9. \A p \in Elems(cola_new)' : p \in Elems(cola_new) /\ pcbs'[p] = pcbs[p]
  BY <1>1, <1>2 DEF EnUnLugar
<1>10. ASSUME NEW p \in Pids, p # q, hilo'[p] = "page fault"
       PROVE  hilo[p] = "page fault" /\ pcbs'[p] = pcbs[p]
  <2>1. p \in Bloqueados
    BY <1>10 DEF Bloqueados
  <2> QED BY <1>1, <1>2, <1>10, <2>1 DEF EnUnLugar
<1>11. q \in 1..pid_actual' /\ pid_actual' \in Nat /\ 1..pid_actual \subseteq 1..pid_actual'
       /\ \A p \in 1..pid_actual' : p \in 1..pid_actual
  BY <1>1
<1>12. hilo'[q] = "page fault" => pcbs'[q].page_fault
  BY <1>2
<1>13. PcbConMemoria(PcbDe(q)', q, memoria')
  BY <1>5
<1> QED BY <1>7, <1>8, <1>9, <1>10, <1>11, <1>12, <1>13, AlMover, ZenonT(60)

\* A step that changes no PCB, no queue of those, and nothing of the memory.
LEMMA MemoriaQuieta ==
    ASSUME InvM, UNCHANGED <<pid_actual, pcbs, cola_new, cola_exit, cpu, memoria, tlb>>,
           \A p \in Pids : hilo'[p] = "page fault" => hilo[p] = "page fault"
    PROVE  InvM'
<1>1. SinFugas' /\ BuenaMemoria(memoria)' /\ TablasDeAdmitidos' /\ BuenaTlb(tlb)'
  <2>1. SinFugas /\ BuenaMemoria(memoria) /\ TablasDeAdmitidos /\ BuenaTlb(tlb)
    BY DEF InvM
  <2>2. SinFugas'
    BY <2>1 DEF SinFugas, Admitido, Vive, EnCpuEsta
  <2>3. BuenaMemoria(memoria)'
    BY <2>1
  <2>4. TablasDeAdmitidos'
    BY <2>1 DEF TablasDeAdmitidos, Elems
  <2>5. BuenaTlb(tlb)'
    BY <2>1
  <2> QED BY <2>2, <2>3, <2>4, <2>5
<1>2. \A p \in Elems(cola_new)' : PorAdmitir(pcbs[p])'
  BY DEF InvM, Elems, PorAdmitir
<1>3. \A p \in 1..pid_actual' : Admitido(p)' => PcbConMemoria(PcbDe(p), p, memoria)'
  <2>1. \A p : (Admitido(p)' <=> Admitido(p)) /\ PcbDe(p)' = PcbDe(p)
    BY DEF Admitido, Vive, EnCpuEsta, PcbDe
  <2>2. ASSUME NEW p \in 1..pid_actual', Admitido(p)' PROVE PcbConMemoria(PcbDe(p)', p, memoria')
    BY <2>1, <2>2 DEF InvM
  <2> QED BY <2>2 DEF PcbConMemoria, PaginasDe, PidDe, Entrada
<1>4. \A p \in Pids : hilo'[p] = "page fault" => pcbs'[p].page_fault
  BY DEF InvM
<1> QED BY <1>1, <1>2, <1>3, <1>4 DEF InvM

\* What PasarAReady makes of a PCB, for the memory.
LEMMA AReadyDeMemoria ==
    ASSUME NEW q, NEW pcb, BuenPcb(pcb, q), PasarAReady(pcb)
    PROVE  \E n : /\ n.pid = q /\ Guardar(n) /\ ~n.page_fault
                  /\ n.tabla_de_segmentos = pcb.tabla_de_segmentos
                  /\ n.instrucciones = pcb.instrucciones
<1> DEFINE n == [pcb EXCEPT !.estado = "READY", !.con_desalojo = TRUE, !.interrupcion = FALSE,
                           !.page_fault = FALSE, !.segmentation_fault = FALSE]
<1>1. Guardar(n)
  BY DEF PasarAReady
<1>2. /\ n.pid = q /\ n.page_fault = FALSE /\ n.tabla_de_segmentos = pcb.tabla_de_segmentos
      /\ n.instrucciones = pcb.instrucciones
  BY DEF BuenPcb, CamposPcb
<1> HIDE DEF n
<1> QED BY <1>1, <1>2

\* The PCB of an admitted process goes to READY: the thread of a page fault has changed
\* pages of its own, at most.
LEMMA AlPasarAReady ==
    ASSUME InvE, InvM, NEW q \in 1..pid_actual, Vive(q), q \notin Elems(cola_new),
           q \notin Elems(cola_exit), NEW pcb, BuenPcb(pcb, q), PasarAReady(pcb),
           pcb.tabla_de_segmentos = PcbDe(q).tabla_de_segmentos,
           pcb.instrucciones = PcbDe(q).instrucciones,
           (cpu' = cpu /\ ~EnCpuEsta(q)) \/ (cpu' = Libre /\ EnCpuEsta(q)),
           UNCHANGED <<pid_actual, cola_new, cola_exit, tlb>>,
           \A p \in Pids \ {q} : hilo'[p] = hilo[p], hilo'[q] = "ninguno",
           EsMemoria(memoria'), BuenaMemoria(memoria'), RespetaA(memoria, memoria', q),
           Len(memoria'.tablas) = Len(memoria.tablas),
           \A m \in Marcos : memoria'.marcos[m] \in {PidLibre, memoria.marcos[m], q}
    PROVE  InvM'
<1>1. PICK n : /\ n.pid = q /\ Guardar(n) /\ ~n.page_fault
               /\ n.tabla_de_segmentos = pcb.tabla_de_segmentos
               /\ n.instrucciones = pcb.instrucciones
  BY AReadyDeMemoria
<1>2. Elems(cola_new)' = Elems(cola_new) /\ Elems(cola_exit)' = Elems(cola_exit)
  BY DEF Elems
<1>3. PcbConMemoria(n, q, memoria')
  <2>1. Admitido(q)
    BY AdmitidoEs
  <2>2. PICK b : b = PcbDe(q)
    OBVIOUS
  <2>3. PcbConMemoria(b, q, memoria)
    BY <2>1, <2>2 DEF InvM
  <2>4. EsMemoria(memoria)
    BY DEF InvE, Tipos
  <2>5. PcbConMemoria(n, q, memoria)
    BY <1>1, <2>2, <2>3 DEF PcbConMemoria
  <2> QED BY <1>1, <2>4, <2>5, PcbConTras
<1>4. TablasDeAdmitidos'
  BY TablasSiguen
<1>5. BuenaTlb(tlb')
  BY DEF InvM
<1>6. hilo'[q] # "page fault"
  OBVIOUS
<1> QED BY <1>1, <1>2, <1>3, <1>4, <1>5, <1>6, AlGuardar

\* The memory stays as it is.
LEMMA MemoriaIgual ==
    ASSUME InvE, InvM, memoria' = memoria
    PROVE  /\ EsMemoria(memoria') /\ BuenaMemoria(memoria')
           /\ Len(memoria'.tablas) = Len(memoria.tablas) /\ \A q : RespetaA(memoria, memoria', q)
           /\ \A q, m : memoria'.marcos[m] \in {PidLibre, memoria.marcos[m], q}
<1>1. EsMemoria(memoria) /\ BuenaMemoria(memoria)
  BY DEF InvE, Tipos, InvM
<1>2. Len(memoria.tablas) \in Nat
  BY <1>1, DeLista DEF EsMemoria
<1> QED BY <1>1, <1>2 DEF RespetaA

\* FinDispositivo keeps InvM: the PCB goes to READY with the memory it had.
LEMMA TrasDispositivo == ASSUME InvE, InvM, FinDispositivo PROVE InvM'
<1>0. PICK q : q = Head(cola_dispositivo)
  OBVIOUS
<1>1. /\ cola_dispositivo # <<>> /\ PasarAReady(pcbs[q]) /\ hilo' = hilo /\ memoria' = memoria
      /\ UNCHANGED <<pid_actual, cola_new, cola_exit, tlb>> /\ cpu' = cpu
  BY <1>0 DEF FinDispositivo
<1>2. cola_dispositivo \in Seq(Nat) /\ SinRepetir(cola_dispositivo)
  BY NoSeMueve
<1>3. q \in Elems(cola_dispositivo)
  BY <1>0, <1>1, <1>2, Cabeza
<1>4. /\ q \notin Elems(cola_new) /\ q \notin Elems(cola_exit) /\ hilo[q] = "ninguno"
      /\ BuenPcb(pcbs[q], q) /\ Vive(q) /\ ~EnCpuEsta(q) /\ q \in 1..pid_actual
  BY <1>3, EnSuLugar
<1>5. PcbDe(q) = pcbs[q]
  BY <1>4 DEF PcbDe
<1>6. PICK pcb : pcb = pcbs[q]
  OBVIOUS
<1> QED BY <1>1, <1>4, <1>5, <1>6, MemoriaIgual, AlPasarAReady

\* Contestar keeps it, for the same reason, whatever the console answered.
LEMMA TrasContestar == ASSUME InvE, InvM, NEW q \in Pids, Contestar(q) PROVE InvM'
<1>1. PICK pcb : pcb = pcbs[q]
  OBVIOUS
<1>2. PICK i : i = obtener_ultima_instruccion(pcb)
  OBVIOUS
<1>3. PICK v : v = ValorString(Buffer(Flujo(pcb.socket_consola)))
  OBVIOUS
<1>4. /\ hilo[q] = "contestar" /\ hilo' = [hilo EXCEPT ![q] = "ninguno"]
      /\ UNCHANGED <<pid_actual, cola_new, cola_exit, tlb>> /\ cpu' = cpu /\ memoria' = memoria
      /\ PasarAReady(pcb) \/ PasarAReady(set_valor_registro(pcb, i.parametro2, v))
  BY <1>1, <1>2, <1>3 DEF Contestar, PuedeContestar, TrasDesbloquear
<1>5. /\ q \notin Elems(cola_new) /\ q \notin Elems(cola_exit)
      /\ BuenPcb(pcb, q) /\ Vive(q) /\ ~EnCpuEsta(q) /\ q \in 1..pid_actual
  BY <1>1, <1>4, EnSuLugar
<1>6. PcbDe(q) = pcb
  BY <1>1, <1>5 DEF PcbDe
<1>7. PICK nuevo : /\ BuenPcb(nuevo, q) /\ PasarAReady(nuevo)
                   /\ nuevo.tabla_de_segmentos = pcb.tabla_de_segmentos
                   /\ nuevo.instrucciones = pcb.instrucciones
  <2>1. CASE PasarAReady(pcb)
    BY <1>5, <2>1
  <2>2. CASE PasarAReady(set_valor_registro(pcb, i.parametro2, v))
    <3>1. PICK n : n = set_valor_registro(pcb, i.parametro2, v)
      OBVIOUS
    <3>2. PICK w : w = atoi(v)
      OBVIOUS
    <3>3. n = set_valor_en_registro(pcb, i.parametro2, w) /\ w \in Int
      BY <3>1, <3>2, NumeroTexto DEF set_valor_registro
    <3>4. BuenPcb(n, q)
      BY <1>5, <3>3, Asigna
    <3>5. DeMemoria(n, pcb)
      BY <1>5, <3>3, AsignaDeMemoria
    <3> QED BY <2>2, <3>1, <3>4, <3>5 DEF DeMemoria
  <2> QED BY <1>4, <2>1, <2>2
<1>8. hilo \in [Pids -> {"ninguno", "page fault", "pedir", "contestar"}]
  BY NoSeMueve
<1>9. hilo'[q] = "ninguno" /\ \A p \in Pids \ {q} : hilo'[p] = hilo[p]
  BY <1>4, <1>8
<1> QED BY <1>4, <1>5, <1>6, <1>7, <1>9, MemoriaIgual, AlPasarAReady

\* AtenderPageFault keeps InvM: the page that is loaded is of the process that waits for it.
LEMMA TrasPageFault == ASSUME InvE, InvM, NEW q \in Pids, AtenderPageFault(q) PROVE InvM'
<1>1. PICK pcb : pcb = pcbs[q]
  OBVIOUS
<1>2. /\ hilo[q] = "page fault" /\ memoria' \in MemoriasTrasPageFault(q)
      /\ PasarAReady(pcb) /\ hilo' = [hilo EXCEPT ![q] = "ninguno"]
      /\ UNCHANGED <<pid_actual, cola_new, cola_exit, tlb>> /\ cpu' = cpu
  BY <1>1 DEF AtenderPageFault, TrasDesbloquear
<1>3. /\ q \notin Elems(cola_new) /\ q \notin Elems(cola_exit)
      /\ BuenPcb(pcb, q) /\ Vive(q) /\ ~EnCpuEsta(q) /\ q \in 1..pid_actual
  BY <1>1, <1>2, EnSuLugar
<1>4. PcbDe(q) = pcb
  BY <1>1, <1>3 DEF PcbDe
<1>5. EsMemoria(memoria) /\ EsMemoria(memoria')
  BY <1>2, NoSeMueve, PageFaultForma DEF MemoriasTrasPageFault
<1>6. pcb.pagina_fault \in PaginasDe(memoria, q) /\ ~Entrada(memoria, pcb.pagina_fault).presencia
  <2>1. Admitido(q)
    BY <1>3, AdmitidoEs
  <2>2. PcbConMemoria(pcb, q, memoria) /\ pcb.page_fault
    BY <1>1, <1>2, <1>3, <1>4, <2>1 DEF InvM
  <2> QED BY <2>2 DEF PcbConMemoria
<1>7. PICK x : x = pcb.pagina_fault
  OBVIOUS
<1>8. memoria' \in AtenderPedidoDePaginaFault(memoria,
                      Buffer(Paquete("PAGINA", empaquetar_pagina(x))))
  BY <1>1, <1>2, <1>7 DEF MemoriasTrasPageFault
<1>9. /\ BuenaMemoria(memoria') /\ Len(memoria'.tablas) = Len(memoria.tablas)
      /\ RespetaA(memoria, memoria', q)
      /\ \A m \in Marcos : memoria'.marcos[m] \in {PidLibre, memoria.marcos[m], q}
  <2>1. PICK mem : mem = memoria
    OBVIOUS
  <2>2. PICK n : n = memoria'
    OBVIOUS
  <2>3. EsMemoria(mem) /\ BuenaMemoria(mem) /\ x \in PaginasDe(mem, q) /\ ~Entrada(mem, x).presencia
    BY <1>5, <1>6, <1>7, <2>1 DEF InvM
  <2>4. n \in AtenderPedidoDePaginaFault(mem, Buffer(Paquete("PAGINA", empaquetar_pagina(x))))
    BY <1>8, <2>1, <2>2
  <2>5. /\ BuenaMemoria(n) /\ Len(n.tablas) = Len(mem.tablas) /\ RespetaA(mem, n, q)
        /\ \A m \in Marcos : n.marcos[m] \in {PidLibre, mem.marcos[m], q}
    BY <2>3, <2>4, AlFallarMemoria
  <2> QED BY <2>1, <2>2, <2>5
<1>10. hilo'[q] = "ninguno" /\ \A p \in Pids \ {q} : hilo'[p] = hilo[p]
  BY <1>2, NoSeMueve
<1> QED BY <1>2, <1>3, <1>4, <1>5, <1>9, <1>10, AlPasarAReady

\* The PCB that comes back from the CPU, as the kernel reads it, says of the memory what the
\* CPU's did.
LEMMA ViajaDeMemoria ==
    ASSUME NEW q, NEW pcb, BuenPcb(pcb, q), NEW mem, PcbConMemoria(pcb, q, mem)
    PROVE  /\ PcbConMemoria(PorDispatch(pcb), q, mem)
           /\ PorDispatch(pcb).tabla_de_segmentos = pcb.tabla_de_segmentos
<1> DEFINE r == PorDispatch(pcb)
<1>1. r = [pcb EXCEPT !.tamanio_segmentos = Nulo,
                      !.pagina_fault = IF @ = Nulo THEN <<-1, -1>> ELSE @]
  <2>1. EsFlujo(empaquetar_pcb(pcb))
    BY PcbEs, PcbEntero
  <2>2. Buffer(Paquete("PCB", empaquetar_pcb(pcb))) = empaquetar_pcb(pcb)
    BY <2>1, PaqueteSolo
  <2>3. r = deserializar_pcb(empaquetar_pcb(pcb)).valor
    BY <2>2 DEF PorDispatch, recibir_pcb
  <2>4. PICK n : n = [pcb EXCEPT !.tamanio_segmentos = Nulo,
                                 !.pagina_fault = IF @ = Nulo THEN <<-1, -1>> ELSE @]
    OBVIOUS
  <2>5. PICK k : deserializar_pcb(empaquetar_pcb(pcb)) = [valor |-> n, d |-> k]
    BY <2>4, ViajaEntero
  <2>6. deserializar_pcb(empaquetar_pcb(pcb)).valor = n
    BY <2>5
  <2> HIDE DEF r
  <2> QED BY <2>3, <2>4, <2>6
<1>2. /\ r.tabla_de_segmentos = pcb.tabla_de_segmentos /\ r.instrucciones = pcb.instrucciones
      /\ r.page_fault = pcb.page_fault
      /\ pcb.pagina_fault # Nulo => r.pagina_fault = pcb.pagina_fault
  BY <1>1 DEF BuenPcb, CamposPcb
<1> HIDE DEF r
<1>3. pcb.page_fault => pcb.pagina_fault # Nulo
  <2>1. ASSUME pcb.page_fault PROVE pcb.pagina_fault # Nulo
    <3>1. pcb.pagina_fault \in PaginasDe(mem, q)
      BY <2>1 DEF PcbConMemoria
    <3>2. PICK a, b : pcb.pagina_fault = <<a, b>>
      BY <3>1 DEF PaginasDe
    <3> QED BY <3>2, PaginaSola
  <2> QED BY <2>1
<1>4. PcbConMemoria(r, q, mem)
  BY <1>2, <1>3 DEF PcbConMemoria
<1> QED BY <1>2, <1>4 DEF r

\* Devolver, when the process is blocked: the thread of a page fault is started for a PCB
\* that has one.
LEMMA TrasBloquear ==
    ASSUME InvE, InvM, cpu # Libre, NEW q, q = cpu.pcb.pid, NEW pcb, BuenPcb(pcb, q),
           PcbConMemoria(pcb, q, memoria), TrasLaCpu, tlb' = tlb,
           NEW trabajo \in {"page fault", "pedir", "dispositivo"}, Bloquear(pcb, trabajo),
           trabajo = "page fault" => pcb.page_fault
    PROVE  InvM'
<1> DEFINE n == [pcb EXCEPT !.estado = "BLOCK"]
<1>1. /\ q \notin Elems(cola_new) /\ q \notin Elems(cola_exit) /\ EnCpuEsta(q) /\ q \in Pids
      /\ q \in 1..pid_actual /\ hilo[q] = "ninguno"
  BY EnSuLugar
<1>2. n.pid = q /\ pcb.pid = q /\ DeMemoria(n, pcb)
  BY DEF BuenPcb, CamposPcb, DeMemoria
<1>3. /\ Guardar(n) /\ cola_exit' = cola_exit /\ memoria' = memoria
      /\ hilo' = hilo \/ hilo' = [hilo EXCEPT ![q] = trabajo]
  BY <1>2 DEF Bloquear
<1> HIDE DEF n
<1>4. cpu' = Libre /\ cola_new' = cola_new /\ pid_actual' = pid_actual
  BY DEF TrasLaCpu
<1>5. (hilo'[q] = "page fault" => n.page_fault) /\ \A p \in Pids \ {q} : hilo'[p] = hilo[p]
  BY <1>1, <1>2, <1>3, NoSeMueve DEF DeMemoria
<1>6. PcbConMemoria(n, q, memoria')
  BY <1>2, <1>3, DeMemoriaVale
<1>7. Elems(cola_new)' = Elems(cola_new) /\ Elems(cola_exit)' = Elems(cola_exit)
  <2>1. cola_exit' = cola_exit /\ cola_new' = cola_new
    BY <1>3, <1>4
  <2> QED BY <2>1 DEF Elems
<1>8. /\ EsMemoria(memoria') /\ BuenaMemoria(memoria') /\ RespetaA(memoria, memoria', q)
      /\ Len(memoria'.tablas) = Len(memoria.tablas)
      /\ \A m : memoria'.marcos[m] \in {PidLibre, memoria.marcos[m], q}
  BY <1>3, MemoriaIgual
<1>9. TablasDeAdmitidos'
  BY <1>4, <1>8, TablasSiguen
<1>10. BuenaTlb(tlb')
  BY DEF InvM
<1> QED BY <1>1, <1>2, <1>3, <1>4, <1>5, <1>6, <1>7, <1>8, <1>9, <1>10, AlGuardar

\* An int holds every pid, and none is that of no process.
LEMMA PidsEnteros == ASSUME NEW q \in Pids PROVE q \in Enteros /\ q # PidLibre
<1>1. Cardinality(Consolas) \in Nat /\ Cardinality(Consolas) \in Enteros
  BY EjecucionAssumption, FS_CardinalityType
<1>2. Modulo \div 2 \in Nat
  BY ModuloAssumption
<1> QED BY <1>1, <1>2 DEF Pids, Enteros, PidLibre

\* Devolver, when the process ends: the memory has given back its frames before it is in
\* EXIT.
LEMMA TrasFinalizar ==
    ASSUME InvE, InvM, cpu # Libre, NEW q, q = cpu.pcb.pid, NEW pcb, BuenPcb(pcb, q),
           PcbConMemoria(pcb, q, memoria), TrasLaCpu, tlb' = tlb, Finalizar(pcb)
    PROVE  InvM'
<1> DEFINE n == [pcb EXCEPT !.estado = "FINISH_EXIT"]
           r == AtenderLiberarEstructuras(memoria,
                    Buffer(ValorConCodigo(q, "LIBERAR_ESTRUCTURAS")))
<1>1. /\ q \notin Elems(cola_new) /\ q \notin Elems(cola_exit) /\ EnCpuEsta(q) /\ q \in Pids
      /\ q \in 1..pid_actual /\ hilo[q] = "ninguno" /\ q \in Nat
  BY EnSuLugar
<1>2. n.pid = q /\ pcb.pid = q /\ DeMemoria(n, pcb)
  BY DEF BuenPcb, CamposPcb, DeMemoria
<1>3. /\ Guardar(n) /\ cola_exit' = Append(cola_exit, q) /\ memoria' = r.mem /\ hilo' = hilo
  BY <1>2 DEF Finalizar
<1> HIDE DEF n
<1>4. cpu' = Libre /\ cola_new' = cola_new /\ pid_actual' = pid_actual
  BY DEF TrasLaCpu
<1>5. EsMemoria(memoria) /\ EsMemoria(memoria')
  BY <1>3, NoSeMueve, LiberarForma
<1>6. /\ BuenaMemoria(memoria') /\ \A p : RespetaA(memoria, memoria', p)
      /\ Len(memoria'.tablas) = Len(memoria.tablas)
      /\ \A m \in Marcos : memoria'.marcos[m] \in {PidLibre, memoria.marcos[m]}
                           /\ memoria'.marcos[m] # q
  <2>1. PICK mem : mem = memoria
    OBVIOUS
  <2>2. EsMemoria(mem) /\ BuenaMemoria(mem) /\ q \in Enteros /\ q # PidLibre
    BY <1>1, <1>5, <2>1, PidsEnteros DEF InvM
  <2>3. PICK x : x = AtenderLiberarEstructuras(mem,
                        Buffer(ValorConCodigo(q, "LIBERAR_ESTRUCTURAS"))).mem
    OBVIOUS
  <2>4. /\ BuenaMemoria(x) /\ (\A p : RespetaA(mem, x, p)) /\ Len(x.tablas) = Len(mem.tablas)
        /\ \A m \in Marcos : x.marcos[m] \in {PidLibre, mem.marcos[m]} /\ x.marcos[m] # q
    BY ONLY <2>2, <2>3, AlLiberarMemoria
  <2>5. memoria' = x
    BY <1>3, <2>1, <2>3
  <2> QED BY <2>1, <2>4, <2>5
<1> HIDE DEF r
<1>7. \A p \in Elems(cola_exit)' : p = q \/ p \in Elems(cola_exit)
  <2>1. cola_exit \in Seq(Nat) /\ SinRepetir(cola_exit)
    BY NoSeMueve
  <2>2. Elems(cola_exit') = Elems(cola_exit) \cup {q}
    BY <1>1, <1>3, <2>1, PidAlFinal
  <2> QED BY <2>2 DEF Elems
<1>8. Elems(cola_new)' = Elems(cola_new)
  BY <1>4 DEF Elems
<1>9. PcbConMemoria(n, q, memoria')
  <2>1. q + 1 # q /\ RespetaA(memoria, memoria', q + 1)
    BY <1>1, <1>6
  <2>2. PcbConMemoria(pcb, q, memoria')
    BY <1>5, <2>1, PcbConTras
  <2> QED BY <1>2, <2>2, DeMemoriaVale
<1>10. TablasDeAdmitidos'
  BY <1>4, <1>5, <1>6, TablasSiguen
<1>11. BuenaTlb(tlb')
  BY DEF InvM
<1>12. (hilo'[q] = "page fault" => n.page_fault) /\ \A p \in Pids \ {q} : hilo'[p] = hilo[p]
  BY <1>1, <1>3
<1> QED BY <1>1, <1>2, <1>3, <1>4, <1>5, <1>6, <1>7, <1>8, <1>9, <1>10, <1>11, <1>12, AlGuardar

\* Devolver keeps InvM.
LEMMA TrasDevolver == ASSUME InvE, InvM, Devolver PROVE InvM'
<1>1. cpu.estado = "devuelve" /\ cpu # Libre
  <2>1. cpu.estado = "devuelve"
    BY DEF Devolver
  <2> QED BY <2>1 DEF Libre
<1>2. PICK q : q = cpu.pcb.pid
  OBVIOUS
<1>3. /\ BuenPcb(cpu.pcb, q) /\ Vive(q) /\ EnCpuEsta(q) /\ q \in 1..pid_actual /\ q \in Pids
      /\ q \notin Elems(cola_new) /\ q \notin Elems(cola_exit) /\ hilo[q] = "ninguno"
  BY <1>1, <1>2, EnSuLugar
<1>4. PICK mio : mio = cpu.pcb
  OBVIOUS
<1>5. PcbConMemoria(mio, q, memoria) /\ BuenPcb(mio, q) /\ PcbDe(q) = mio
  <2>1. Admitido(q) /\ PcbDe(q) = mio
    BY <1>3, <1>4, AdmitidoEs DEF PcbDe
  <2> QED BY <1>3, <1>4, <2>1 DEF InvM
<1>6. PICK recibido : recibido = PorDispatch(mio)
  OBVIOUS
<1>7. PICK pcb : pcb = IF recibido.interrupcion
               THEN [recibido EXCEPT !.interrupcion = FALSE, !.con_desalojo = FALSE] ELSE recibido
  OBVIOUS
<1>8. LET ultima == obtener_ultima_instruccion(pcb)
          fallo == pcb.segmentation_fault \/ pcb.page_fault
      IN CASE pcb.page_fault -> Bloquear(pcb, "page fault")
         [] pcb.segmentation_fault -> Finalizar(pcb)
         [] ~fallo /\ ultima.operacion = "EXIT" -> Finalizar(pcb)
         [] ~fallo /\ ultima.operacion = "IO" ->
              Bloquear(pcb, IF EsDeConsola(ultima) THEN "pedir" ELSE "dispositivo")
         [] OTHER -> /\ PasarAReady(pcb)
                     /\ UNCHANGED <<cola_dispositivo, cola_exit, hilo, memoria, haciaConsola>>
  BY <1>4, <1>6, <1>7 DEF Devolver
<1>9. TrasLaCpu /\ tlb' = tlb
  BY DEF Devolver, TrasLaCpu, historia
<1>10. BuenPcb(recibido, q) /\ PcbConMemoria(recibido, q, memoria)
       /\ recibido.tabla_de_segmentos = mio.tabla_de_segmentos
       /\ recibido.instrucciones = mio.instrucciones
  <2>1. BuenPcb(recibido, q) /\ recibido.instrucciones = mio.instrucciones
    BY <1>5, <1>6, Viaja DEF Quieto, Igual
  <2>2. PcbConMemoria(recibido, q, memoria)
    BY <1>5, <1>6, ViajaDeMemoria
  <2>3. recibido.tabla_de_segmentos = mio.tabla_de_segmentos
    BY <1>5, <1>6, ViajaDeMemoria
  <2> QED BY <2>1, <2>2, <2>3
<1>11. BuenPcb(pcb, q) /\ DeMemoria(pcb, recibido)
  <2>1. CASE recibido.interrupcion
    <3>1. pcb = [recibido EXCEPT !.interrupcion = FALSE, !.con_desalojo = FALSE]
      BY <1>7, <2>1
    <3>2. BuenPcb(pcb, q)
      BY <1>10, <3>1, InterrupcionAtendida
    <3>3. DeMemoria(pcb, recibido)
      BY <1>10, <3>1 DEF BuenPcb, CamposPcb, DeMemoria
    <3> QED BY <3>2, <3>3
  <2>2. CASE ~recibido.interrupcion
    BY <1>7, <1>10, <2>2 DEF DeMemoria
  <2> QED BY <2>1, <2>2
<1>12. PcbConMemoria(pcb, q, memoria)
  BY <1>10, <1>11, DeMemoriaVale
<1> DEFINE ultima == obtener_ultima_instruccion(pcb)
           fallo == pcb.segmentation_fault \/ pcb.page_fault
<1> HIDE DEF ultima
<1>13. \/ pcb.page_fault /\ Bloquear(pcb, "page fault")
       \/ Finalizar(pcb)
       \/ Bloquear(pcb, "pedir")
       \/ Bloquear(pcb, "dispositivo")
       \/ PasarAReady(pcb) /\ UNCHANGED <<cola_dispositivo, cola_exit, hilo, memoria, haciaConsola>>
  BY <1>8 DEF ultima
<1>14. CASE pcb.page_fault /\ Bloquear(pcb, "page fault")
  BY <1>1, <1>2, <1>9, <1>11, <1>12, <1>14, TrasBloquear
<1>15. CASE Finalizar(pcb)
  BY <1>1, <1>2, <1>9, <1>11, <1>12, <1>15, TrasFinalizar
<1>16. CASE Bloquear(pcb, "pedir")
  BY <1>1, <1>2, <1>9, <1>11, <1>12, <1>16, TrasBloquear
<1>17. CASE Bloquear(pcb, "dispositivo")
  BY <1>1, <1>2, <1>9, <1>11, <1>12, <1>17, TrasBloquear
<1>18. CASE PasarAReady(pcb)
            /\ UNCHANGED <<cola_dispositivo, cola_exit, hilo, memoria, haciaConsola>>
  <2>1. /\ pcb.tabla_de_segmentos = PcbDe(q).tabla_de_segmentos
        /\ pcb.instrucciones = PcbDe(q).instrucciones
    BY <1>5, <1>10, <1>11 DEF DeMemoria
  <2>2. UNCHANGED <<pid_actual, cola_new, cola_exit, tlb>> /\ cpu' = Libre /\ memoria' = memoria
        /\ hilo' = hilo
    BY <1>9, <1>18 DEF TrasLaCpu
  <2>3. \A p \in Pids \ {q} : hilo'[p] = hilo[p]
    BY <2>2
  <2>4. hilo'[q] = "ninguno"
    BY <1>3, <2>2
  <2> QED BY <1>3, <1>11, <1>18, <2>1, <2>2, <2>3, <2>4, MemoriaIgual, AlPasarAReady
<1> QED BY <1>13, <1>14, <1>15, <1>16, <1>17, <1>18

\* Rajar keeps InvM: the process that is destroyed was in EXIT, and had no frame.
LEMMA TrasRajar == ASSUME InvE, InvM, Rajar PROVE InvM'
<1>0. PICK q : q = Head(cola_exit)
  OBVIOUS
<1>1. /\ cola_exit # <<>> /\ cola_exit' = Tail(cola_exit)
      /\ pcbs' = Restrict(pcbs, DOMAIN pcbs \ {q}) /\ hilo' = hilo /\ memoria' = memoria
      /\ cola_new' = cola_new /\ cpu' = cpu /\ tlb' = tlb /\ pid_actual' = pid_actual
  BY <1>0 DEF Rajar
<1>2. cola_exit \in Seq(Nat) /\ SinRepetir(cola_exit)
  BY NoSeMueve
<1>3. q \in Elems(cola_exit) /\ Elems(cola_exit') = Elems(cola_exit) \ {q}
  BY <1>0, <1>1, <1>2, Cabeza
<1>4. /\ q \in DOMAIN pcbs /\ q \notin Elems(cola_new) /\ hilo[q] = "ninguno"
      /\ Vive(q) /\ ~EnCpuEsta(q) /\ q \in 1..pid_actual /\ q \in Pids
  BY <1>3, EnSuLugar
<1>5. DOMAIN pcbs' = DOMAIN pcbs \ {q} /\ \A p \in DOMAIN pcbs \ {q} : pcbs'[p] = pcbs[p]
  BY <1>1 DEF Restrict
<1>6. Tipos /\ EnUnLugar /\ pid_actual \in Nat
  BY DEF InvE, Tipos
<1>7. /\ Elems(cola_new)' = Elems(cola_new) /\ \A p \in Elems(cola_exit)' : p \in Elems(cola_exit)
  <2>1. Elems(cola_new)' = Elems(cola_new)
    BY <1>1 DEF Elems
  <2>2. Elems(cola_exit)' = Elems(cola_exit')
    BY DEF Elems
  <2> QED BY <1>3, <2>1, <2>2
<1>8. /\ \A p : Vive(p)' <=> Vive(p) /\ p # q
      /\ \A p : Vive(p)' => PcbDe(p)' = PcbDe(p)
  BY <1>1, <1>4, <1>5 DEF Vive, EnCpuEsta, PcbDe
<1>9. \A p : Admitido(p)' <=> Admitido(p) /\ p # q
  <2>1. \A p : Admitido(p)' <=> Vive(p)' /\ p \notin Elems(cola_new)'
    BY DEF Admitido, Elems
  <2> QED BY <1>7, <1>8, <2>1, AdmitidoEs
<1>10. \A p : p # q /\ Admitido(p) => PcbDe(p)' = PcbDe(p)
  BY <1>8, AdmitidoEs
<1>11. \A p \in Elems(cola_new)' : p \in Elems(cola_new) /\ pcbs'[p] = pcbs[p]
  BY <1>4, <1>5, <1>6, <1>7 DEF EnUnLugar
<1>12. \A p \in Pids : p # q /\ hilo'[p] = "page fault" =>
          hilo[p] = "page fault" /\ pcbs'[p] = pcbs[p]
  BY <1>1, <1>5, <1>6 DEF EnUnLugar, Bloqueados
<1>13. hilo'[q] # "page fault"
  BY <1>1, <1>4
<1>14. /\ EsMemoria(memoria') /\ BuenaMemoria(memoria') /\ RespetaA(memoria, memoria', q)
       /\ Len(memoria'.tablas) = Len(memoria.tablas)
       /\ \A m : memoria'.marcos[m] \in {PidLibre, memoria.marcos[m], q}
  BY <1>1, MemoriaIgual
<1>15. \A m \in Marcos : memoria'.marcos[m] # q
  <2>1. SinFugas /\ q # PidLibre
    BY <1>4, PidsEnteros DEF InvM
  <2>2. \A m \in Marcos : memoria.marcos[m] # PidLibre =>
            memoria.marcos[m] \notin Elems(cola_exit)
    BY <2>1 DEF SinFugas, Elems
  <2> QED BY <1>1, <1>3, <2>1, <2>2
<1>16. TablasDeAdmitidos'
  BY <1>1, <1>14, TablasSiguen
<1>17. BuenaTlb(tlb')
  BY <1>1 DEF InvM
<1>18. q \in 1..pid_actual' /\ pid_actual' \in Nat /\ 1..pid_actual \subseteq 1..pid_actual'
       /\ \A p \in 1..pid_actual' : p \in 1..pid_actual
  BY <1>1, <1>4, <1>6
<1>19. ~(Admitido(q)')
  BY <1>9
<1> QED BY <1>7, <1>9, <1>10, <1>11, <1>12, <1>13, <1>14, <1>15, <1>16, <1>17, <1>18, <1>19, AlMover

\* Despachar keeps InvM: the CPU has what the kernel sent.
LEMMA TrasDespachar == ASSUME InvE, InvM, Despachar PROVE InvM'
<1>0. PICK q : q = Head(cola_ready)
  OBVIOUS
<1>0a. PICK enviado : enviado = [pcbs[q] EXCEPT !.estado = "EXEC"]
  OBVIOUS
<1>0b. PICK r : r = PorDispatch(enviado)
  OBVIOUS
<1>1. /\ cpu = Libre /\ cola_ready # <<>>
      /\ cpu' = EnCpu(r) /\ pcbs' = Restrict(pcbs, DOMAIN pcbs \ {q})
      /\ hilo' = hilo /\ memoria' = memoria /\ tlb' = tlb
      /\ cola_new' = cola_new /\ cola_exit' = cola_exit /\ pid_actual' = pid_actual
  BY <1>0, <1>0a, <1>0b DEF Despachar, PuedeDespachar
<1>2. cola_ready \in Seq(Nat) /\ SinRepetir(cola_ready)
  BY NoSeMueve
<1>3. q \in Elems(cola_ready)
  BY <1>0, <1>1, <1>2, Cabeza
<1>4. /\ q \in DOMAIN pcbs /\ q \notin Elems(cola_new) /\ hilo[q] = "ninguno"
      /\ q \notin Elems(cola_exit) /\ BuenPcb(pcbs[q], q)
      /\ Vive(q) /\ ~EnCpuEsta(q) /\ q \in 1..pid_actual /\ q \in Pids
  BY <1>3, EnSuLugar
<1>5. DOMAIN pcbs' = DOMAIN pcbs \ {q} /\ \A p \in DOMAIN pcbs \ {q} : pcbs'[p] = pcbs[p]
  BY <1>1 DEF Restrict
<1>6. Tipos /\ EnUnLugar /\ pid_actual \in Nat
  BY DEF InvE, Tipos
<1>7. /\ Elems(cola_new)' = Elems(cola_new) /\ Elems(cola_exit)' = Elems(cola_exit)
  <2>1. cola_exit' = cola_exit /\ cola_new' = cola_new
    BY <1>1
  <2> QED BY <2>1 DEF Elems
<1>8. /\ BuenPcb(r, q) /\ PcbConMemoria(r, q, memoria)
  <2>1. PICK pcb : pcb = pcbs[q]
    OBVIOUS
  <2>2. BuenPcb(pcb, q) /\ enviado = [pcb EXCEPT !.estado = "EXEC"]
    BY <1>0a, <1>4, <2>1
  <2>3. BuenPcb(enviado, q)
    BY <2>2, CambiaEstado
  <2>4. DeMemoria(enviado, pcb)
    BY <2>2 DEF BuenPcb, CamposPcb, DeMemoria
  <2>5. Admitido(q) /\ PcbDe(q) = pcb
    BY <1>4, <2>1, AdmitidoEs DEF PcbDe
  <2>6. PcbConMemoria(pcb, q, memoria)
    BY <1>4, <2>5 DEF InvM
  <2>7. PcbConMemoria(enviado, q, memoria)
    BY <2>4, <2>6, DeMemoriaVale
  <2> QED BY <1>0b, <2>3, <2>7, Viaja, ViajaDeMemoria
<1>9. Ejecutable(cpu', q) /\ cpu'.pcb = r
  BY <1>1, <1>8, EnCpuEs
<1>10. cpu' # Libre /\ cpu'.pcb.pid = q
  BY <1>9 DEF Ejecutable
<1>11. (\A p : EnCpuEsta(p)' <=> p = q) /\ \A p : ~EnCpuEsta(p)
  BY <1>1, <1>10 DEF EnCpuEsta
<1>12. \A p : Vive(p)' <=> Vive(p)
  BY <1>4, <1>5, <1>11 DEF Vive
<1>13. \A p : Admitido(p)' <=> Admitido(p)
  <2>1. \A p : Admitido(p)' <=> Vive(p)' /\ p \notin Elems(cola_new)'
    BY DEF Admitido, Elems
  <2> QED BY <1>7, <1>12, <2>1, AdmitidoEs
<1>14. \A p : p # q /\ Admitido(p) => PcbDe(p)' = PcbDe(p)
  <2>1. \A p : Admitido(p) => p \in DOMAIN pcbs
    BY <1>11, AdmitidoEs DEF Vive
  <2>2. \A p : p # q => PcbDe(p)' = pcbs'[p]
    BY <1>11 DEF PcbDe
  <2>3. \A p : PcbDe(p) = pcbs[p]
    BY <1>11 DEF PcbDe
  <2> QED BY <1>5, <2>1, <2>2, <2>3
<1>15. \A p \in Elems(cola_new)' : p \in Elems(cola_new) /\ pcbs'[p] = pcbs[p]
  BY <1>4, <1>5, <1>6, <1>7 DEF EnUnLugar
<1>16. \A p \in Pids : p # q /\ hilo'[p] = "page fault" =>
          hilo[p] = "page fault" /\ pcbs'[p] = pcbs[p]
  BY <1>1, <1>5, <1>6 DEF EnUnLugar, Bloqueados
<1>17. hilo'[q] # "page fault"
  BY <1>1, <1>4
<1>18. /\ EsMemoria(memoria') /\ BuenaMemoria(memoria') /\ RespetaA(memoria, memoria', q)
       /\ Len(memoria'.tablas) = Len(memoria.tablas)
       /\ \A m : memoria'.marcos[m] \in {PidLibre, memoria.marcos[m], q}
  BY <1>1, MemoriaIgual
<1>19. TablasDeAdmitidos'
  BY <1>1, <1>18, TablasSiguen
<1>20. BuenaTlb(tlb')
  BY <1>1 DEF InvM
<1>21. q \in 1..pid_actual' /\ pid_actual' \in Nat /\ 1..pid_actual \subseteq 1..pid_actual'
       /\ \A p \in 1..pid_actual' : p \in 1..pid_actual
  BY <1>1, <1>4, <1>6
<1>22. PcbConMemoria(PcbDe(q)', q, memoria')
  <2>1. PcbDe(q)' = r
    BY <1>9, <1>11 DEF PcbDe
  <2> QED BY <1>1, <1>8, <2>1
<1>23. Admitido(q)' /\ q \notin Elems(cola_exit)'
  BY <1>4, <1>7, <1>13, AdmitidoEs
<1> QED BY <1>7, <1>13, <1>14, <1>15, <1>16, <1>17, <1>18, <1>19, <1>20, <1>21, <1>22, <1>23,
           AlMover

\* The CPU goes on with the same PCB, and changes at most what a page holds.
LEMMA SigueConMemoria ==
    ASSUME InvE, InvM, cpu # Libre, NEW q, q = cpu.pcb.pid, cpu' # Libre, cpu'.pcb.pid = q,
           UNCHANGED deKernel, EsMemoria(memoria'), Intacta(memoria, memoria'),
           PcbConMemoria(cpu'.pcb, q, memoria'), BuenaTlb(tlb')
    PROVE  InvM'
<1>1. /\ pid_actual' = pid_actual /\ pcbs' = pcbs /\ cola_new' = cola_new
      /\ cola_exit' = cola_exit /\ hilo' = hilo
  BY DEF deKernel, colas
<1>2. /\ q \in 1..pid_actual /\ q \in Pids /\ q \notin Elems(cola_new) /\ q \notin Elems(cola_exit)
      /\ Vive(q) /\ hilo[q] = "ninguno"
  BY EnSuLugar
<1>3. \A p : (EnCpuEsta(p)' <=> p = q) /\ (EnCpuEsta(p) <=> p = q)
  BY DEF EnCpuEsta
<1>4. /\ \A p : Admitido(p)' <=> Admitido(p)
      /\ \A p : p # q => PcbDe(p)' = PcbDe(p)
  BY <1>1, <1>3 DEF Admitido, Vive, PcbDe
<1>5. Elems(cola_new)' = Elems(cola_new) /\ Elems(cola_exit)' = Elems(cola_exit)
  BY <1>1 DEF Elems
<1>6. /\ BuenaMemoria(memoria') /\ memoria'.marcos = memoria.marcos
      /\ RespetaA(memoria, memoria', q) /\ Len(memoria'.tablas) = Len(memoria.tablas)
  BY DEF Intacta
<1>7. TablasDeAdmitidos'
  BY <1>1, <1>6, TablasSiguen
<1>8. Admitido(q)' /\ q \notin Elems(cola_exit)'
  BY <1>2, <1>4, <1>5, AdmitidoEs
<1>9. PcbDe(q)' = cpu'.pcb
  BY <1>3 DEF PcbDe
<1>10. pid_actual \in Nat
  BY DEF InvE, Tipos
<1>11. PcbConMemoria(PcbDe(q)', q, memoria')
  BY <1>9
<1>12. q \in 1..pid_actual' /\ pid_actual' \in Nat /\ 1..pid_actual \subseteq 1..pid_actual'
       /\ \A p \in 1..pid_actual' : p \in 1..pid_actual
  BY <1>1, <1>2, <1>10
<1>13. /\ \A p \in Elems(cola_new)' : p \in Elems(cola_new) /\ pcbs'[p] = pcbs[p]
       /\ \A p \in Pids : hilo'[p] = "page fault" => hilo[p] = "page fault" /\ pcbs'[p] = pcbs[p]
       /\ hilo'[q] # "page fault"
  BY <1>1, <1>2, <1>5
<1>14. \A m : memoria'.marcos[m] \in {PidLibre, memoria.marcos[m], q}
  BY <1>6
<1> QED BY <1>4, <1>5, <1>6, <1>7, <1>8, <1>11, <1>12, <1>13, <1>14, AlMover

\* EjecutarInstruccion keeps InvM: an access is to a page of the process, and a fault says
\* which one.
LEMMA TrasEjecutar == ASSUME InvE, InvM, EjecutarInstruccion PROVE InvM'
<1>1. cpu.estado = "ejecuta" /\ UNCHANGED deKernel
  BY DEF EjecutarInstruccion
<1>2. cpu # Libre
  BY <1>1 DEF Libre
<1>3. PICK q : q = cpu.pcb.pid
  OBVIOUS
<1>4. PICK pcb : pcb = cpu.pcb
  OBVIOUS
<1>5. /\ BuenPcb(pcb, q) /\ pcb.program_counter < Len(pcb.instrucciones)
      /\ q \in 1..pid_actual /\ q \notin Elems(cola_new) /\ Vive(q) /\ EnCpuEsta(q) /\ q \in Nat
  BY <1>1, <1>2, <1>3, <1>4, EnSuLugar DEF InvE, Pcbs, EnCpuBien
<1>6. PICK mem : mem = memoria
  OBVIOUS
<1>7. EsMemoria(mem) /\ BuenaMemoria(mem) /\ PcbConMemoria(pcb, q, mem) /\ BuenaTlb(tlb)
  <2>1. Admitido(q) /\ PcbDe(q) = pcb
    BY <1>4, <1>5, AdmitidoEs DEF PcbDe
  <2> QED BY <1>5, <1>6, <2>1, NoSeMueve DEF InvM
<1>8. PICK j : j = pcb.program_counter + 1
  OBVIOUS
<1>9. j \in DOMAIN pcb.instrucciones
  BY <1>5, <1>8, DeLista DEF BuenPcb, EsPrograma
<1>10. PICK i : i = fetch(pcb)
  OBVIOUS
<1>11. i = pcb.instrucciones[j]
  BY <1>8, <1>10 DEF fetch
<1>12. PICK t : t = tlb
  OBVIOUS
<1>13. PICK d : d = decode(pcb, i, mem, t)
  OBVIOUS
<1>14. /\ PcbConMemoria(d.pcb, q, mem) /\ BuenaTlb(d.tlb) /\ d.error \in BOOLEAN
       /\ ~d.error /\ EsAcceso(i) => d.pagina \in LasPaginas(mem)
       /\ ~d.error => d.pcb = pcb
       /\ d.pcb.pid = q
  <2>1. BuenaTlb(t)
    BY <1>7, <1>12
  <2>2. /\ PcbConMemoria(d.pcb, q, mem) /\ BuenaTlb(d.tlb)
        /\ ~d.error /\ EsAcceso(i) => d.pagina \in LasPaginas(mem)
    BY <1>5, <1>7, <1>9, <1>11, <1>13, <2>1, AlDecodificar
  <2>3. BuenPcb(d.pcb, q) /\ d.error \in BOOLEAN /\ (~d.error => d.pcb = pcb)
    BY <1>5, <1>13, Decodifica
  <2> QED BY <2>2, <2>3 DEF BuenPcb
<1>15. PICK e : e = ejecutar_instruccion(d.pcb, i, mem, d)
  OBVIOUS
<1>16. PICK seguido : seguido = [e.pcb EXCEPT !.program_counter = @ + 1]
  OBVIOUS
<1>17. IF d.error
       THEN /\ cpu' = [estado |-> "devuelve", pcb |-> d.pcb] /\ memoria' = memoria
            /\ tlb' = d.tlb
       ELSE /\ memoria' = e.mem /\ tlb' = e.tlb
            /\ \/ cpu' = [estado |-> "devuelve", pcb |-> seguido]
               \/ cpu' = EnCpu(seguido)
               \/ cpu' = [estado |-> "devuelve", pcb |-> [seguido EXCEPT !.interrupcion = TRUE]]
  BY <1>4, <1>6, <1>10, <1>12, <1>13, <1>15, <1>16 DEF EjecutarInstruccion
<1>18. CASE d.error
  <2>1. /\ cpu' = [estado |-> "devuelve", pcb |-> d.pcb] /\ memoria' = memoria
        /\ tlb' = d.tlb
    BY <1>17, <1>18
  <2>2. cpu' # Libre /\ cpu'.pcb = d.pcb
    BY <2>1 DEF Libre
  <2>3. EsMemoria(memoria') /\ Intacta(memoria, memoria')
    BY <2>1, MemoriaIgual DEF Intacta
  <2>4. PcbConMemoria(cpu'.pcb, q, memoria') /\ BuenaTlb(tlb') /\ cpu'.pcb.pid = q
    BY <1>6, <1>14, <2>1, <2>2
  <2> QED BY <1>1, <1>2, <1>3, <2>2, <2>3, <2>4, SigueConMemoria
<1>19. CASE ~d.error
  <2>1. /\ memoria' = e.mem /\ tlb' = e.tlb
        /\ \/ cpu' = [estado |-> "devuelve", pcb |-> seguido]
           \/ cpu' = EnCpu(seguido)
           \/ cpu' = [estado |-> "devuelve", pcb |-> [seguido EXCEPT !.interrupcion = TRUE]]
    BY <1>17, <1>19
  <2>2. BuenPcb(e.pcb, q) /\ EsMemoria(e.mem) /\ Quieto(e.pcb, pcb)
    <3>1. BuenPcb(d.pcb, q) /\ d.pcb = pcb
      BY <1>5, <1>14, <1>19
    <3> QED BY <1>7, <1>15, <3>1, Ejecuta
  <2>3. DeMemoria(e.pcb, pcb) /\ BuenaTlb(e.tlb) /\ Intacta(mem, e.mem)
    <3>1. e = ejecutar_instruccion(pcb, i, mem, d)
      BY <1>14, <1>15, <1>19
    <3>2. EsAcceso(i) => d.pagina \in LasPaginas(mem)
      BY <1>14, <1>19
    <3> QED BY <1>5, <1>7, <1>14, <3>1, <3>2, AlEjecutarMemoria
  <2>4. BuenPcb(seguido, q) /\ DeMemoria(seguido, e.pcb)
    <3>1. e.pcb.program_counter < Len(e.pcb.instrucciones)
      BY <1>5, <2>2 DEF Quieto, Igual
    <3>2. BuenPcb(seguido, q)
      BY <1>16, <2>2, <3>1, Avanza
    <3>3. DeMemoria(seguido, e.pcb)
      BY <1>16, <2>2 DEF BuenPcb, CamposPcb, DeMemoria
    <3> QED BY <3>2, <3>3
  <2>5. PICK n : /\ BuenPcb(n, q) /\ DeMemoria(n, seguido) /\ cpu' # Libre /\ cpu'.pcb = n
    <3>1. CASE cpu' = [estado |-> "devuelve", pcb |-> seguido]
      BY <2>4, <3>1 DEF Libre, DeMemoria
    <3>2. CASE cpu' = EnCpu(seguido)
      BY <2>4, <3>2, EnCpuEs DEF Ejecutable, DeMemoria
    <3>3. CASE cpu' = [estado |-> "devuelve", pcb |-> [seguido EXCEPT !.interrupcion = TRUE]]
      <4>1. PICK n : n = [seguido EXCEPT !.interrupcion = TRUE]
        OBVIOUS
      <4>2. BuenPcb(n, q)
        BY <2>4, <4>1, Interrumpido
      <4>3. DeMemoria(n, seguido)
        BY <2>4, <4>1 DEF BuenPcb, CamposPcb, DeMemoria
      <4>4. cpu' # Libre /\ cpu'.pcb = n
        BY <3>3, <4>1 DEF Libre
      <4> QED BY <4>2, <4>3, <4>4
    <3> QED BY <2>1, <3>1, <3>2, <3>3
  <2>6. PcbConMemoria(n, q, e.mem)
    <3>1. PcbConMemoria(pcb, q, e.mem)
      <4>1. q + 1 # q /\ RespetaA(mem, e.mem, q + 1)
        BY <1>5, <2>3 DEF Intacta
      <4> QED BY <1>7, <2>2, <4>1, PcbConTras
    <3>2. DeMemoria(n, pcb)
      BY <2>3, <2>4, <2>5 DEF DeMemoria
    <3> QED BY <3>1, <3>2, DeMemoriaVale
  <2>7. cpu'.pcb.pid = q /\ PcbConMemoria(cpu'.pcb, q, memoria') /\ BuenaTlb(tlb')
        /\ EsMemoria(memoria') /\ Intacta(memoria, memoria')
    BY <1>6, <2>1, <2>2, <2>3, <2>5, <2>6 DEF BuenPcb
  <2> QED BY <1>1, <1>2, <1>3, <2>5, <2>7, SigueConMemoria
<1> QED BY <1>14, <1>18, <1>19

\* There is room for the indices of the tables of one more process.
LEMMA CabenTablas ==
    ASSUME NEW T \in Nat, NEW l \in Nat, NEW C \in Nat \ {0}, NEW K \in Nat, NEW a \in Nat,
           NEW N \in Nat \ {0}, N <= a, a <= C, T * C <= K * (a - N), l * C <= K
    PROVE  (T + l) * C <= K * (a - (N - 1)) /\ T + l <= K
<1>1. (T + l) * C = T * C + l * C /\ K * (a - (N - 1)) = K * (a - N) + K
      /\ T * C \in Nat /\ l * C \in Nat /\ K * (a - N) \in Int
  OBVIOUS
<1>2. (T + l) * C <= K * (a - (N - 1))
  <2> DEFINE x == T * C
             y == l * C
             z == K * (a - N)
             u == (T + l) * C
             v == K * (a - (N - 1))
  <2>1. u = x + y /\ v = z + K /\ x \in Nat /\ y \in Nat /\ z \in Int /\ x <= z /\ y <= K
    BY <1>1
  <2> HIDE DEF x, y, z, u, v
  <2>2. u <= v
    BY <2>1
  <2> QED BY <2>2 DEF u, v
<1>3. K * (a - (N - 1)) <= K * C
  <2> DEFINE b == a - (N - 1)
  <2>1. b \in Nat /\ b <= C
    OBVIOUS
  <2> HIDE DEF b
  <2>2. C - b \in Nat /\ K * (C - b) \in Nat /\ K * C = K * b + K * (C - b) /\ K * b \in Nat
    BY <2>1
  <2> DEFINE x == K * b
             y == K * C
             z == K * (C - b)
  <2> HIDE DEF x, y, z
  <2>3. x <= y
    <3>1. x \in Nat /\ z \in Nat /\ y = x + z
      BY <2>2 DEF x, y, z
    <3> QED BY <3>1
  <2> QED BY <2>3 DEF b, x, y
<1>4. (T + l) * C <= K * C
  <2> DEFINE u == (T + l) * C
             v == K * (a - (N - 1))
             w == K * C
  <2>1. u \in Nat /\ v \in Int /\ w \in Nat /\ u <= v /\ v <= w
    BY <1>1, <1>2, <1>3
  <2> HIDE DEF u, v, w
  <2>2. u <= w
    BY <2>1
  <2> QED BY <2>2 DEF u, w
<1>5. T + l <= K
  <2> DEFINE s == T + l
  <2>1. s \in Nat /\ s * C <= K * C
    BY <1>4
  <2> HIDE DEF s
  <2>2. ASSUME s > K PROVE FALSE
    <3>1. s - K \in Nat \ {0} /\ (s - K) * C = s * C - K * C
      BY <2>1, <2>2
    <3>2. (s - K) * C > 0
      BY ONLY <3>1, C \in Nat \ {0}
    <3> DEFINE x == s * C
               y == K * C
    <3>3. x \in Int /\ y \in Int /\ x - y > 0 /\ x <= y
      BY <2>1, <3>1, <3>2
    <3> HIDE DEF x, y
    <3> QED BY <3>3
  <2>3. s <= K
    BY <2>1, <2>2
  <2> QED BY <2>3 DEF s
<1> QED BY <1>2, <1>5

\* An int holds the indices of the tables there will be with those of the next process.
LEMMA CabenSusTablas ==
    ASSUME InvE, InvM, cola_new # <<>>, NEW q, q = Head(cola_new),
           NEW L, L = pcbs[q].tamanio_segmentos, EsLista(L)
    PROVE  /\ Len(memoria.tablas) + Len(L) \in Enteros
           /\ (Len(memoria.tablas) + Len(L)) * Cardinality(Consolas)
                 <= ((Modulo \div 2) - 1) * (pid_actual - (Len(cola_new) - 1))
<1>1. cola_new \in Seq(Nat) /\ SinRepetir(cola_new)
  BY NoSeMueve
<1>2. q \in Elems(cola_new)
  BY <1>1, Cabeza
<1>3. q \in 1..pid_actual /\ q \in Pids
  BY <1>2, EnSuLugar
<1>4. EsMemoria(memoria) /\ TablasDeAdmitidos /\ PorAdmitir(pcbs[q])
  BY <1>2, NoSeMueve DEF InvM
<1> DEFINE C == Cardinality(Consolas)
           K == (Modulo \div 2) - 1
           T == Len(memoria.tablas)
           l == Len(L)
           N == Len(cola_new)
<1>10. T \in Nat /\ l \in Nat
  BY <1>4, DeLista DEF EsMemoria
<1>11. /\ C \in Nat \ {0} /\ pid_actual \in Nat /\ pid_actual <= C
       /\ N \in Nat \ {0} /\ N <= pid_actual
  <2>1. Tipos
    BY DEF InvE
  <2>2. pid_actual \in {0} \cup Pids /\ 1..pid_actual \subseteq Pids /\ pid_actual \in Nat
    BY <2>1, PidsAlcanzan DEF Tipos
  <2>3. C \in Nat
    BY EjecucionAssumption, FS_CardinalityType
  <2>4. C \in Nat \ {0} /\ pid_actual <= C
    BY <1>3, <2>2, <2>3 DEF Pids
  <2>5. N \in Nat \ {0}
    BY <1>1
  <2>6. N <= pid_actual
    <3>1. cola_new \in Injection(1..N, 1..pid_actual)
      <4>1. DOMAIN cola_new = 1..N /\ \A i \in 1..N : cola_new[i] \in Elems(cola_new)
        BY <1>1 DEF Elems
      <4>2. \A e \in Elems(cola_new) : e \in 1..pid_actual
        BY EnSuLugar
      <4>3. cola_new \in [1..N -> 1..pid_actual]
        BY <1>1, <4>1, <4>2
      <4> QED BY <1>1, <4>1, <4>3 DEF Injection, IsInjective, SinRepetir
    <3>2. IsFiniteSet(1..pid_actual) /\ Cardinality(1..pid_actual) = pid_actual
          /\ Cardinality(1..N) = N
      <4> HIDE DEF N
      <4>1. \A b \in Nat : IsFiniteSet(1..b) /\ Cardinality(1..b) = b
        BY FS_Interval
      <4> QED BY <2>2, <2>5, <4>1
    <3>3. Cardinality(1..N) <= Cardinality(1..pid_actual)
      BY <3>1, <3>2, FS_Injection
    <3> QED BY <3>2, <3>3
  <2> QED BY <2>2, <2>4, <2>5, <2>6
<1>12. /\ K \in Nat /\ \A v \in Nat : v \in Enteros <=> v <= K
       /\ T * C <= K * (pid_actual - N) /\ l * C <= K /\ l * C \in Nat
  <2>1. K \in Nat /\ Modulo \div 2 \in Nat
    BY ModuloAssumption
  <2>2. \A v \in Nat : v \in Enteros <=> v <= K
    BY <2>1 DEF Enteros
  <2>3. T * C <= K * (pid_actual - N)
    BY <1>4 DEF TablasDeAdmitidos
  <2>4. l * C \in Enteros
    BY <1>4 DEF PorAdmitir
  <2>5. l * C \in Nat
    BY <1>10, <1>11
  <2> QED BY <2>1, <2>2, <2>3, <2>4, <2>5
<1>13. (T + l) * C <= K * (pid_actual - (N - 1)) /\ T + l <= K
  <2> HIDE DEF C, K, T, l, N
  <2> QED BY <1>10, <1>11, <1>12, CabenTablas
<1>14. T + l \in Enteros
  <2>1. T \in Nat /\ l \in Nat
    BY <1>10
  <2> HIDE DEF K, T, l
  <2>2. T + l \in Nat
    BY ONLY <2>1
  <2> QED BY <1>12, <1>13, <2>2
<1> QED BY <1>13, <1>14

\* What CrearEstructuras gives to the process that it admits.
Creacion(q, L, t) ==
    /\ EsLista(L) /\ EsLista(t) /\ (\A i \in DOMAIN t : EsSegmento(t[i]))
    /\ (\A k \in DOMAIN memoria.tablas : memoria.tablas[k].pid # q)
    /\ ConTablas(memoria, memoria', t, q, Len(L)) /\ TablasNuevas(memoria, memoria', t, L)
    /\ PasarAReady([pcbs[q] EXCEPT !.tabla_de_segmentos = t])

LEMMA LoQueCrea ==
    ASSUME InvE, InvM, CrearEstructuras, NEW q, q = Head(cola_new), NEW L, L = pcbs[q].tamanio_segmentos
    PROVE  \E t : Creacion(q, L, t)
<1>0. PICK pcb, mem : pcb = pcbs[q] /\ mem = memoria
  OBVIOUS
<1> DEFINE r == AtenderPedidoDeEstructuras(mem, Buffer(Paquete("ESTRUCTURAS",
                 empaquetar_pcb_memoria([pid |-> q, segmentos |-> L]))))
           indices == deserializar_strings(Buffer(r.respuesta), 0).valor
           t == crear_tabla_segmentos(indices, L)
           x == r.mem
<1>1. /\ cola_new # <<>>
  BY DEF CrearEstructuras, PuedeAdmitir
<1>2. cola_new \in Seq(Nat) /\ SinRepetir(cola_new)
  BY NoSeMueve
<1>3. q \in Elems(cola_new)
  BY <1>1, <1>2, Cabeza
<1>4. q \in DOMAIN pcbs /\ BuenPcb(pcb, q) /\ q \in 1..pid_actual
  BY <1>0, <1>3, EnSuLugar
<1>5. EsLista(L) /\ \A i \in DOMAIN L : EsTexto(L[i])
  BY <1>3 DEF InvE, Pcbs
<1>6. pcb.pid = q
  BY <1>4 DEF BuenPcb
<1>7. memoria' = x /\ PasarAReady([pcb EXCEPT !.tabla_de_segmentos = t])
  BY <1>0, <1>6 DEF CrearEstructuras
<1>8. EsMemoria(mem) /\ BuenaMemoria(mem) /\ TablasDeAdmitidos
  BY <1>0, NoSeMueve DEF InvM
<1>9. \A k \in DOMAIN mem.tablas : mem.tablas[k].pid # q
  BY <1>0, <1>3, <1>8 DEF TablasDeAdmitidos
<1>10. Len(mem.tablas) + Len(L) \in Enteros
  BY <1>0, <1>1, <1>5, CabenSusTablas
<1>11. ConTablas(mem, x, t, q, Len(L)) /\ TablasNuevas(mem, x, t, L)
  BY <1>5, <1>8, <1>9, <1>10, AlCrearMemoria, Zenon
<1>12. EsLista(t) /\ \A i \in DOMAIN t : EsSegmento(t[i])
  <2>1. EsMemoria(mem) /\ EsLista(L) /\ \A i \in DOMAIN L : EsTexto(L[i])
    BY ONLY <1>5, <1>8
  <2> QED BY ONLY <2>1, CreacionForma
<1> HIDE DEF t, x, r, indices
<1> QED BY <1>0, <1>5, <1>7, <1>9, <1>11, <1>12 DEF Creacion

\* CrearEstructuras keeps InvM: the tables of the new process are of nobody else.
LEMMA TrasCrear == ASSUME InvE, InvM, CrearEstructuras PROVE InvM'
<1>0. PICK q : q = Head(cola_new)
  OBVIOUS
<1>0a. PICK pcb : pcb = pcbs[q]
  OBVIOUS
<1>0b. PICK L : L = pcb.tamanio_segmentos
  OBVIOUS
<1>1. /\ cola_new # <<>>
  BY DEF CrearEstructuras, PuedeAdmitir
<1>2. cola_new \in Seq(Nat) /\ SinRepetir(cola_new)
  BY NoSeMueve
<1>3. /\ q \in Elems(cola_new) /\ Elems(Tail(cola_new)) = Elems(cola_new) \ {q}
  BY <1>0, <1>1, <1>2, Cabeza
<1>4. /\ q \in DOMAIN pcbs /\ q \notin Elems(cola_exit) /\ hilo[q] = "ninguno"
      /\ BuenPcb(pcb, q) /\ ~EnCpuEsta(q) /\ q \in Pids /\ q \in 1..pid_actual
  BY <1>0a, <1>3, EnSuLugar
<1>5. /\ cola_new' = Tail(cola_new)
      /\ cola_exit' = cola_exit /\ hilo' = hilo /\ cpu' = cpu /\ tlb' = tlb
      /\ pid_actual' = pid_actual
  BY DEF CrearEstructuras
<1>6. PICK t : Creacion(q, L, t)
  BY <1>0, <1>0a, <1>0b, LoQueCrea
<1>7. /\ EsLista(L) /\ EsLista(t) /\ (\A i \in DOMAIN t : EsSegmento(t[i]))
      /\ PasarAReady([pcb EXCEPT !.tabla_de_segmentos = t])
  BY <1>0a, <1>6 DEF Creacion
<1>8. TablasDeAdmitidos /\ PorAdmitir(pcb)
  BY <1>0a, <1>3 DEF InvM
<1>9. /\ BuenaMemoria(memoria') /\ memoria'.marcos = memoria.marcos
      /\ EsMemoria(memoria') /\ RespetaA(memoria, memoria', q)
      /\ Len(memoria'.tablas) = Len(memoria.tablas) + Len(L) /\ Len(t) = Len(L)
      /\ \A k \in DOMAIN memoria'.tablas : IF k \in DOMAIN memoria.tablas
                                     THEN memoria'.tablas[k].pid = memoria.tablas[k].pid
                                     ELSE memoria'.tablas[k].pid = q
      /\ \A i \in DOMAIN t :
             LET k == t[i].indice_tabla_paginas IN
             k \in 0..(Len(memoria'.tablas) - 1) /\ memoria'.tablas[k + 1].pid = q
  BY <1>6 DEF Creacion, ConTablas, TablasNuevas
<1>17. PICK listo : listo = [pcb EXCEPT !.tabla_de_segmentos = t]
  OBVIOUS
<1>18. /\ BuenPcb(listo, q) /\ listo.tabla_de_segmentos = t
       /\ listo.instrucciones = pcb.instrucciones
  <2>1. BuenPcb(listo, q)
    BY <1>4, <1>7, <1>17, ConSegmentos
  <2>2. listo.tabla_de_segmentos = t /\ listo.instrucciones = pcb.instrucciones
    BY <1>4, <1>17 DEF BuenPcb, CamposPcb
  <2> QED BY <2>1, <2>2
<1>19. PICK n : /\ n.pid = q /\ Guardar(n) /\ ~n.page_fault
                /\ n.tabla_de_segmentos = t /\ n.instrucciones = pcb.instrucciones
  <2>1. PasarAReady(listo)
    BY <1>7, <1>17
  <2>2. PICK n : /\ n.pid = q /\ Guardar(n) /\ ~n.page_fault
                 /\ n.tabla_de_segmentos = listo.tabla_de_segmentos
                 /\ n.instrucciones = listo.instrucciones
    BY <1>18, <2>1, AReadyDeMemoria
  <2> QED BY <1>18, <2>2
<1>20. PcbConMemoria(n, q, memoria')
  <2>1. Direccionable(n.instrucciones, Len(n.tabla_de_segmentos))
    BY <1>0b, <1>8, <1>9, <1>19 DEF PorAdmitir
  <2> QED BY <1>9, <1>19, <2>1 DEF PcbConMemoria
<1>21. Elems(cola_new)' = Elems(cola_new) \ {q} /\ Elems(cola_exit)' = Elems(cola_exit)
  <2>1. Elems(cola_new)' = Elems(cola_new') /\ Elems(cola_exit)' = Elems(cola_exit')
    BY DEF Elems
  <2> QED BY <1>3, <1>5, <2>1
<1>23. TablasDeAdmitidos'
  <2>1. \A k \in DOMAIN memoria.tablas :
           memoria.tablas[k].pid \in (1..pid_actual) \ Elems(cola_new)
    BY <1>8 DEF TablasDeAdmitidos
  <2>2. ASSUME NEW k \in DOMAIN memoria'.tablas
        PROVE  memoria'.tablas[k].pid \in (1..pid_actual') \ Elems(cola_new)'
    BY <1>4, <1>5, <1>9, <1>21, <2>1, <2>2
  <2>3. Len(cola_new') = Len(cola_new) - 1
    BY <1>1, <1>2, <1>5
  <2>4. (Len(memoria.tablas) + Len(L)) * Cardinality(Consolas)
           <= ((Modulo \div 2) - 1) * (pid_actual - (Len(cola_new) - 1))
    BY <1>0, <1>0a, <1>0b, <1>1, <1>7, CabenSusTablas
  <2>5. Len(memoria'.tablas) * Cardinality(Consolas)
           <= ((Modulo \div 2) - 1) * (pid_actual' - Len(cola_new'))
    BY <1>5, <1>9, <2>3, <2>4
  <2> QED BY <2>2, <2>5 DEF TablasDeAdmitidos
<1>24. BuenaTlb(tlb')
  BY <1>5 DEF InvM
<1>25. \A m : memoria'.marcos[m] \in {PidLibre, memoria.marcos[m], q}
  BY <1>9
<1>26. hilo'[q] # "page fault"
  BY <1>4, <1>5
<1> QED BY <1>4, <1>5, <1>9, <1>19, <1>20, <1>21, <1>23, <1>24, <1>25, <1>26, AlGuardar

\* The PCB of a program that has been received is one of those that can be admitted.
LEMMA ProgramaDireccionable ==
    ASSUME NEW c \in Consolas, NEW k, Programa(c, k), NEW pid, NEW fd
    PROVE  PorAdmitir(pcb_create(deserializar_proceso(Buffer(k)), pid, fd))
<1>1. PICK a \in Archivos(c) : SePuedeLeer(a) /\ k = Paquete("PROCESO", empaquetar_proceso(
        [instrucciones |-> obtener_pseudocodigo(a), segmentos |-> Segmentos(c)]))
  BY DEF Programa
<1>2. PICK proceso : proceso = [instrucciones |-> obtener_pseudocodigo(a),
                                segmentos |-> Segmentos(c)]
  OBVIOUS
<1>3. EsPrograma(obtener_pseudocodigo(a))
  BY <1>1, ProgramaLeido
<1>4. EsLista(Segmentos(c)) /\ \A i \in DOMAIN Segmentos(c) : EsTexto(Segmentos(c)[i])
  BY ArchivosAssumption
<1>5. EsProceso(proceso)
  BY <1>2, <1>3, <1>4, ListaEsFlujo DEF EsProceso, EsPrograma, EsI
<1>6. EsFlujo(empaquetar_proceso(proceso))
      /\ deserializar_proceso(empaquetar_proceso(proceso)) = proceso
  BY <1>5, ProcesoEntero
<1>7. deserializar_proceso(Buffer(k)) = proceso
  BY <1>1, <1>2, <1>6, PaqueteSolo
<1>8. PICK n : n = pcb_create(proceso, pid, fd)
  OBVIOUS
<1>9. /\ ~n.page_fault /\ n.instrucciones = obtener_pseudocodigo(a)
      /\ n.tamanio_segmentos = Segmentos(c)
  BY <1>2, <1>8 DEF pcb_create
<1>10. /\ Direccionable(obtener_pseudocodigo(a), Len(Segmentos(c)))
       /\ Len(Segmentos(c)) * Cardinality(Consolas) \in Enteros
  BY <1>1, DireccionesAssumption
<1>11. PorAdmitir(n)
  BY <1>9, <1>10 DEF PorAdmitir
<1> QED BY <1>7, <1>8, <1>11

\* A process is born, and waits in NEW: it has neither a frame nor a table.
LEMMA TrasNacer ==
    ASSUME InvE, InvM, InvE', NEW n, NEW q, q = pid_actual + 1, n.pid = q, PorAdmitir(n),
           Guardar(n), cola_new' = Append(cola_new, q), pid_actual' = q,
           UNCHANGED <<cola_exit, hilo, cpu, memoria, tlb>>
    PROVE  InvM'
<1>1. Tipos /\ EnUnLugar /\ EnCpuBien /\ pid_actual \in Nat /\ DOMAIN pcbs \subseteq 1..pid_actual
  BY DEF InvE, Pcbs, Tipos
<1>2. /\ q \in Nat /\ q \in 1..pid_actual' /\ q \notin 1..pid_actual /\ pid_actual' \in Nat
      /\ 1..pid_actual \subseteq 1..pid_actual' /\ \A p \in 1..pid_actual' : p # q => p \in 1..pid_actual
      /\ pid_actual' = pid_actual + 1
  BY <1>1
<1>3. q \in Pids
  <2>1. Tipos'
    BY DEF InvE
  <2>2. pid_actual' \in Nat /\ consolaDe' \in Seq(Consolas) /\ Len(consolaDe') = pid_actual'
        /\ SinRepetir(consolaDe')
    BY <2>1 DEF Tipos, SinRepetir
  <2>3. PICK s \in Seq(Consolas) : s = consolaDe'
    BY <2>2
  <2>4. Len(s) \in {0} \cup Pids
    BY <2>2, <2>3, SinRepetirCorta
  <2> QED BY <1>2, <2>2, <2>3, <2>4
<1>4. /\ DOMAIN pcbs' = DOMAIN pcbs \cup {q} /\ pcbs'[q] = n
      /\ \A p \in DOMAIN pcbs \ {q} : pcbs'[p] = pcbs[p]
  BY <1>1, Guardado
<1>5. cola_new \in Seq(Nat) /\ SinRepetir(cola_new)
  BY NoSeMueve
<1>6. /\ Elems(cola_new)' = Elems(cola_new) \cup {q} /\ Elems(cola_exit)' = Elems(cola_exit)
      /\ Len(cola_new') = Len(cola_new) + 1
  <2>1. Elems(cola_new)' = Elems(cola_new') /\ Elems(cola_exit)' = Elems(cola_exit')
    BY DEF Elems
  <2>2. Elems(Append(cola_new, q)) = Elems(cola_new) \cup {q}
    BY <1>5, AlFinalDeCola
  <2>3. Len(Append(cola_new, q)) = Len(cola_new) + 1
    BY <1>2, <1>5
  <2> QED BY <2>1, <2>2, <2>3
<1>7. \A p : p # q => (Admitido(p)' <=> Admitido(p)) /\ (Admitido(p) => PcbDe(p)' = PcbDe(p))
  <2>1. ASSUME NEW p, p # q
        PROVE  (Admitido(p)' <=> Admitido(p)) /\ (Admitido(p) => PcbDe(p)' = PcbDe(p))
    <3>1. EnCpuEsta(p)' <=> EnCpuEsta(p)
      BY DEF EnCpuEsta
    <3>2. (p \in DOMAIN pcbs' <=> p \in DOMAIN pcbs)
          /\ (p \in Elems(cola_new)' <=> p \in Elems(cola_new))
      BY <1>4, <1>6, <2>1
    <3>3. Vive(p)' <=> Vive(p)
      BY <3>1, <3>2 DEF Vive
    <3>4. Admitido(p)' <=> Vive(p)' /\ p \notin Elems(cola_new)'
      BY DEF Admitido, Elems
    <3>5. Admitido(p)' <=> Admitido(p)
      BY <3>2, <3>3, <3>4, AdmitidoEs
    <3>6. Vive(p) => PcbDe(p)' = PcbDe(p)
      BY <1>4, <2>1, <3>1 DEF Vive, PcbDe, EnCpuEsta
    <3> QED BY <3>5, <3>6, AdmitidoEs
  <2> QED BY <2>1
<1>8. ~(Admitido(q)')
  <2>1. Admitido(q)' <=> Vive(q)' /\ q \notin Elems(cola_new)'
    BY DEF Admitido, Elems
  <2> QED BY <1>6, <2>1
<1>9. /\ EsMemoria(memoria') /\ BuenaMemoria(memoria') /\ RespetaA(memoria, memoria', q)
      /\ \A m : memoria'.marcos[m] \in {PidLibre, memoria.marcos[m], q}
  BY MemoriaIgual
<1>10. \A m \in Marcos : memoria'.marcos[m] # q
  <2>1. ASSUME NEW m \in Marcos, memoria.marcos[m] = q PROVE FALSE
    <3>1. SinFugas /\ Pcbs
      BY DEF InvM, InvE
    <3>2. Vive(q)
      BY <1>3, <2>1, <3>1, PidsEnteros DEF SinFugas, Admitido
    <3> QED BY <1>1, <1>2, <3>1, <3>2, Vivos
  <2> QED BY <2>1
<1>11. \A p \in Elems(cola_new)' :
          PorAdmitir(pcbs'[p]) \/ (p \in Elems(cola_new) /\ pcbs'[p] = pcbs[p])
  BY <1>1, <1>4, <1>6 DEF EnUnLugar
<1>12. hilo'[q] # "page fault" /\ hilo' = hilo
  <2>1. q \notin DOMAIN pcbs
    BY <1>1, <1>2
  <2>2. q \notin Bloqueados
    BY <1>1, <2>1 DEF EnUnLugar
  <2> QED BY <1>3, <2>2 DEF Bloqueados
<1>13. \A p \in Pids : p # q /\ hilo'[p] = "page fault" =>
              hilo[p] = "page fault" /\ pcbs'[p] = pcbs[p]
  <2>1. ASSUME NEW p \in Pids, p # q, hilo'[p] = "page fault"
        PROVE  hilo[p] = "page fault" /\ pcbs'[p] = pcbs[p]
    <3>1. hilo[p] = "page fault"
      BY <1>12, <2>1
    <3>2. p \in Bloqueados
      BY <3>1 DEF Bloqueados
    <3>3. p \in DOMAIN pcbs
      BY <1>1, <3>2 DEF EnUnLugar
    <3> QED BY <1>4, <2>1, <3>1, <3>3
  <2> QED BY <2>1
<1>14. TablasDeAdmitidos'
  <2>1. TablasDeAdmitidos
    BY DEF InvM
  <2>2. ASSUME NEW k \in DOMAIN memoria'.tablas
        PROVE  memoria'.tablas[k].pid \in (1..pid_actual') \ Elems(cola_new)'
    <3>1. memoria.tablas[k].pid \in (1..pid_actual) \ Elems(cola_new)
      BY <2>1, <2>2 DEF TablasDeAdmitidos
    <3> QED BY <1>2, <1>6, <3>1
  <2>3. pid_actual' - Len(cola_new') = pid_actual - Len(cola_new)
    BY <1>1, <1>2, <1>5, <1>6
  <2>4. Len(memoria'.tablas) * Cardinality(Consolas)
           <= ((Modulo \div 2) - 1) * (pid_actual' - Len(cola_new'))
    BY <2>1, <2>3 DEF TablasDeAdmitidos
  <2> QED BY <2>2, <2>4 DEF TablasDeAdmitidos
<1>15. BuenaTlb(tlb')
  BY DEF InvM
<1>16. \A p \in Elems(cola_exit)' : p = q \/ p \in Elems(cola_exit)
  BY <1>6
<1> QED BY <1>2, <1>7, <1>8, <1>9, <1>10, <1>11, <1>12, <1>13, <1>14, <1>15, <1>16, AlMover

\* RecibirProceso keeps InvM, with a program or without.
LEMMA TrasRecibir == ASSUME InvE, InvM, RecibirProceso PROVE InvM'
<1>1. PICK fd : fd = aceptado
  OBVIOUS
<1>2. InvE'
  BY AlRecibir
<1>3. /\ aceptado # Ninguno /\ UNCHANGED <<cola_exit, hilo, cpu, memoria, tlb>>
      /\ \/ /\ HayDatos(fd)
            /\ IF Operacion(Flujo(fd)) = "PROCESO"
               THEN /\ Guardar(pcb_create(deserializar_proceso(Buffer(Flujo(fd))),
                                          pid_actual + 1, fd))
                    /\ cola_new' = Append(cola_new, pid_actual + 1)
                    /\ pid_actual' = pid_actual + 1
               ELSE UNCHANGED <<pcbs, cola_new, pid_actual>>
         \/ UNCHANGED <<pcbs, cola_new, pid_actual>>
  BY <1>1 DEF RecibirProceso, PuedeRecibir
<1>4. CASE UNCHANGED <<pcbs, cola_new, pid_actual>>
  BY <1>3, <1>4, MemoriaQuieta
<1>5. CASE /\ HayDatos(fd)
           /\ Guardar(pcb_create(deserializar_proceso(Buffer(Flujo(fd))), pid_actual + 1, fd))
           /\ cola_new' = Append(cola_new, pid_actual + 1)
           /\ pid_actual' = pid_actual + 1
  <2>1. PICK c \in Consolas : c = fds[fd] /\ c \notin Elems(consolaDe)
    BY <1>1, <1>3 DEF InvE, Conexiones, AceptadoSinProceso
  <2>2. PICK k : k = haciaKernel[c]
    OBVIOUS
  <2>3. Flujo(fd) = k /\ k # <<>>
    BY <1>5, <2>1, <2>2 DEF Flujo, HayDatos
  <2>4. Programa(c, k)
    BY <2>1, <2>2, <2>3, SegunTrato DEF SinProceso
  <2>5. PICK q : q = pid_actual + 1
    OBVIOUS
  <2>6. PICK n : n = pcb_create(deserializar_proceso(Buffer(k)), q, fd)
    OBVIOUS
  <2>7. PorAdmitir(n)
    BY <2>4, <2>6, ProgramaDireccionable
  <2>8. n.pid = q
    BY <2>6 DEF pcb_create
  <2>9. Guardar(n) /\ cola_new' = Append(cola_new, q) /\ pid_actual' = q
    BY <1>5, <2>3, <2>5, <2>6
  <2> QED BY <1>2, <1>3, <2>5, <2>7, <2>8, <2>9, TrasNacer
<1> QED BY <1>3, <1>4, <1>5

-----------------------------------------------------------------------------
(* No frame is leaked *)

\* At the start no frame has an owner, and there is no table and no process.
LEMMA AlEmpezarMemoria == ASSUME Init PROVE InvM
<1>1. pid_actual = 0 /\ cola_new = <<>> /\ cola_exit = <<>>
  BY Zenon DEF Init
<1>2. memoria = MemoriaVacia /\ tlb = TlbVacia
  BY Zenon DEF Init
<1>3. hilo = [p \in Pids |-> "ninguno"]
  BY Zenon DEF Init
<1>4. DOMAIN <<>> = {} /\ Len(<<>>) = 0
  OBVIOUS
<1>5. /\ memoria.tablas = <<>> /\ DOMAIN memoria.marcos = Marcos
      /\ \A m \in Marcos : memoria.marcos[m] = PidLibre
  BY <1>2 DEF MemoriaVacia
<1>6. SinFugas
  BY <1>5 DEF SinFugas
<1>7. BuenaMemoria(memoria)
  <2>1. 0..(Len(memoria.tablas) - 1) = {}
    BY <1>4, <1>5
  <2>2. LasPaginas(memoria) = {}
    BY <2>1 DEF LasPaginas
  <2>3. DOMAIN memoria.tablas = {}
    BY <1>4, <1>5
  <2> QED BY <1>5, <2>2, <2>3 DEF BuenaMemoria
<1>8. Elems(cola_new) = {}
  BY <1>1, <1>4 DEF Elems
<1>9. TablasDeAdmitidos
  <2>1. Len(memoria.tablas) = 0 /\ DOMAIN memoria.tablas = {} /\ Len(cola_new) = 0
    BY <1>1, <1>4, <1>5
  <2>2. Cardinality(Consolas) \in Nat /\ Modulo \div 2 \in Nat
    BY EjecucionAssumption, FS_CardinalityType, ModuloAssumption
  <2>3. 0 * Cardinality(Consolas) = 0 /\ ((Modulo \div 2) - 1) * (0 - 0) = 0
    BY <2>2
  <2> QED BY <1>1, <2>1, <2>3 DEF TablasDeAdmitidos
<1>10. 1..pid_actual = {}
  BY <1>1
<1>11. \A p \in Pids : hilo[p] # "page fault"
  BY <1>3
<1>12. BuenaTlb(tlb)
  <2>1. DOMAIN TlbVacia.marco = {}
    BY DEF TlbVacia
  <2> QED BY <1>2, <2>1 DEF BuenaTlb, Claves
<1> QED BY <1>6, <1>7, <1>8, <1>9, <1>10, <1>11, <1>12 DEF InvM

\* The steps of consoles, of their sockets and of the question a thread asks touch no memory.
LEMMA TrasSocket ==
    ASSUME InvE, InvM,
           \/ AceptarConsola \/ UNCHANGED vars
           \/ \E c \in Consolas : Conectar(c) \/ DeConsola(c) \/ Sigint(c)
           \/ \E q \in Pids : Pedir(q)
    PROVE  InvM'
<1>1. UNCHANGED <<pid_actual, pcbs, cola_new, cola_exit, cpu, memoria, tlb>>
  BY DEF AceptarConsola, vars, DeConsola, Conectar, EnviarPrograma, Atender, ContestarPantalla,
         Sigint, Pedir, deKernel, colas
<1>2. \A p \in Pids : hilo'[p] = "page fault" => hilo[p] = "page fault"
  <2>1. hilo' = hilo \/ \E q \in Pids : hilo' = [hilo EXCEPT ![q] = "contestar"]
    BY DEF AceptarConsola, vars, DeConsola, Conectar, EnviarPrograma, Atender, ContestarPantalla,
           Sigint, Pedir, deKernel
  <2>2. DOMAIN hilo = Pids
    BY NoSeMueve
  <2> QED BY <2>1, <2>2
<1> QED BY <1>1, <1>2, MemoriaQuieta

\* InvM is inductive, given InvE: one step for each action of the system.
LEMMA AlPasoMemoria == ASSUME InvE, InvM, [Next]_vars PROVE InvM'
<1>1. CASE UNCHANGED vars
  BY <1>1, TrasSocket
<1>2. ASSUME NEW c \in Consolas, Conectar(c) \/ DeConsola(c) \/ Sigint(c) PROVE InvM'
  BY <1>2, TrasSocket
<1>3. CASE AceptarConsola
  BY <1>3, TrasSocket
<1>4. CASE RecibirProceso
  BY <1>4, TrasRecibir
<1>5. CASE CrearEstructuras
  BY <1>5, TrasCrear
<1>6. CASE Despachar
  BY <1>6, TrasDespachar
<1>7. CASE EjecutarInstruccion
  BY <1>7, TrasEjecutar
<1>8. CASE Devolver
  BY <1>8, TrasDevolver
<1>9. CASE Rajar
  BY <1>9, TrasRajar
<1>10. CASE FinDispositivo
  BY <1>10, TrasDispositivo
<1>11. ASSUME NEW p \in Pids, AtenderPageFault(p) PROVE InvM'
  BY <1>11, TrasPageFault
<1>12. ASSUME NEW p \in Pids, Pedir(p) PROVE InvM'
  BY <1>12, TrasSocket
<1>13. ASSUME NEW p \in Pids, Contestar(p) PROVE InvM'
  BY <1>13, TrasContestar
<1> QED BY <1>1, <1>2, <1>3, <1>4, <1>5, <1>6, <1>7, <1>8, <1>9, <1>10, <1>11, <1>12, <1>13
        DEF Next, Hilo

\* The frames, the tables, the PCBs and the TLB agree in every state of the system.
THEOREM InvarianteMemoria == ASSUME ~Reuso PROVE Spec => [](InvE /\ InvM)
<1>1. Init => InvE /\ InvM
  BY AlEmpezar, AlEmpezarMemoria
<1>2. (InvE /\ InvM) /\ [Next]_vars => (InvE /\ InvM)'
  BY AlPaso, AlPasoMemoria
<1> QED BY <1>1, <1>2, PTL DEF Spec

\* Every frame that is taken is of a process that was admitted and has not gone to EXIT,
\* whatever the programs, the page faults, the replacements and the deaths of the consoles.
THEOREM SinFugasSiempre == ASSUME ~Reuso PROVE Spec => []SinFugas
<1>1. InvM => SinFugas
  BY DEF InvM
<1> QED BY <1>1, InvarianteMemoria, PTL

=============================================================================
