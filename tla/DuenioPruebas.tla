--------------------------- MODULE DuenioPruebas ---------------------------
(***************************************************************************)
(* Proofs about who holds each PCB, for any constants and no race of       *)
(* Carreras: IDuenio says that a PCB is in one place, allocated, with its  *)
(* flags cleared before it runs again, and in nobody's hands but the       *)
(* dispatcher's while it is directed. From it come DuenioUnico,            *)
(* SinUsoIndebido and PageFaultRespetado. The hypothesis cannot be         *)
(* dropped: with either race open DuenioUnico and SinUsoIndebido fail, and *)
(* run kernel_swap_rapido shows how PageFaultRespetado does.               *)
(*                                                                         *)
(* Then, with Grado = 1 besides: one process at a time, so that one thread *)
(* at most talks to the memory (IUno) and reads the answer to its request. *)
(*                                                                         *)
(* And, with any degree, the scheduler implements CicloDeVida. The state   *)
(* of a process in the life cycle is told by the place its PCB is in       *)
(* (EstadoEnSitio, EstadoSuelto), which IDuenio makes unique; each step of *)
(* a thread moves at most one PCB, leaves the others where they were       *)
(* (AjenosDe), and what it does to that one is an edge of the life cycle   *)
(* or nothing (PasoDelCiclo).                                              *)
(***************************************************************************)
EXTENDS PlanificacionPruebas

-----------------------------------------------------------------------------
(* Places, and the PCBs in them. *)

LEMMA SitiosDe ==
    /\ Hilos \subseteq Sitios
    /\ \A q \in Colas : EnLaCola(q) \in Sitios /\ EnLaCola(q) \notin Hilos
    /\ \A d \in Dispositivos : EnDispositivo(d) \in Sitios /\ EnDispositivo(d) \notin Hilos
    /\ \A q \in Colas, d \in Dispositivos : EnLaCola(q) # EnDispositivo(d)
    /\ \A q, c \in Colas : EnLaCola(q) = EnLaCola(c) => q = c
    /\ \A d, e \in Dispositivos : EnDispositivo(d) = EnDispositivo(e) => d = e
    /\ \A s \in Sitios : \/ s \in Hilos
                         \/ \E q \in Colas : s = EnLaCola(q)
                         \/ \E d \in Dispositivos : s = EnDispositivo(d)
BY DEF Sitios, EnLaCola, EnDispositivo, Colas, Hilos, Conexiones, LargoPlazo, CortoPlazo,
       Rajar, DeDispositivo, DePageFault, DeConsola, ES, PF, IO, NULO

LEMMA TieneDe ==
    /\ \A k \in Hilos : \A r : Tiene(k, r) <=> ptr[k] = r /\ pc[k] \in EnHilo(k)
    /\ \A q \in Colas : \A r : Tiene(EnLaCola(q), r) <=> EnCola(r, cola[q])
    /\ \A d \in Dispositivos : \A r :
          Tiene(EnDispositivo(d), r) <=> EnCola(r, cola_dispositivo[d])
<1>1. \A k \in Hilos : \A r : Tiene(k, r) <=> ptr[k] = r /\ pc[k] \in EnHilo(k)
  BY SitiosDe DEF Tiene
<1>2. \A q \in Colas : \A r : Tiene(EnLaCola(q), r) <=> EnCola(r, cola[q])
  BY SitiosDe DEF Tiene
<1>3. \A d \in Dispositivos : \A r :
          Tiene(EnDispositivo(d), r) <=> EnCola(r, cola_dispositivo[d])
  BY SitiosDe DEF Tiene
<1>4. QED
  BY <1>1, <1>2, <1>3

\* The same, after a step.
LEMMA TieneDespues ==
    /\ \A k \in Hilos : \A r : Tiene(k, r)' <=> ptr'[k] = r /\ pc'[k] \in EnHilo(k)
    /\ \A q \in Colas : \A r : Tiene(EnLaCola(q), r)' <=> EnCola(r, cola'[q])
    /\ \A d \in Dispositivos : \A r :
          Tiene(EnDispositivo(d), r)' <=> EnCola(r, cola_dispositivo'[d])
<1>1. (/\ \A k \in Hilos : \A r : Tiene(k, r) <=> ptr[k] = r /\ pc[k] \in EnHilo(k)
       /\ \A q \in Colas : \A r : Tiene(EnLaCola(q), r) <=> EnCola(r, cola[q])
       /\ \A d \in Dispositivos : \A r :
             Tiene(EnDispositivo(d), r) <=> EnCola(r, cola_dispositivo[d]))'
  BY TieneDe, PTL
<1>2. QED
  BY <1>1 DEF EnCola, EnLaCola, EnDispositivo, EnHilo

LEMMA EnHiloDe ==
    /\ EnHilo(Conexiones) = {} /\ EnHilo(Rajar) = {}
    /\ EnHilo(LargoPlazo) = {"pedir", "resp", "resp_indices", "push_ready"}
    /\ EnHilo(CortoPlazo) = {"enviar", "destruir", "push_ready"}
    /\ \A h \in DeDispositivo : EnHilo(h) = {"push_ready"}
    /\ \A h \in DePageFault : EnHilo(h) = {"espera", "pedir", "resp", "push_ready"}
    /\ \A h \in DeConsola : EnHilo(h) = {"solicitud", "push_ready"}
    /\ \A h \in Hilos : {"limpiar", "post_ready", "no_creado", "fin", "muerto"} \cap EnHilo(h) = {}
<1>1. /\ EnHilo(Conexiones) = {} /\ EnHilo(Rajar) = {}
      /\ EnHilo(LargoPlazo) = {"pedir", "resp", "resp_indices", "push_ready"}
      /\ EnHilo(CortoPlazo) = {"enviar", "destruir", "push_ready"}
      /\ \A h \in DeDispositivo : EnHilo(h) = {"push_ready"}
      /\ \A h \in DePageFault : EnHilo(h) = {"espera", "pedir", "resp", "push_ready"}
      /\ \A h \in DeConsola : EnHilo(h) = {"solicitud", "push_ready"}
  BY HilosFijos DEF EnHilo
<1>2. QED
  BY <1>1 DEF Hilos

\* A queue without repetitions that gains an element it did not have, or loses its first.
LEMMA EnColaAppend ==
    ASSUME NEW S, NEW q \in Seq(S), NEW e \in S
    PROVE  /\ \A r : EnCola(r, Append(q, e)) <=> EnCola(r, q) \/ r = e
           /\ SinRepetir(q) /\ ~EnCola(e, q) => SinRepetir(Append(q, e))
<1> DEFINE t == Append(q, e)
           n == Len(q)
<1>1. /\ n \in Nat /\ DOMAIN q = 1..n /\ DOMAIN t = 1..(n + 1)
      /\ \A i \in 1..n : t[i] = q[i]
      /\ t[n + 1] = e
  BY AlEncolar
<1> HIDE DEF t, n
<1>2. \A i \in 1..(n + 1) : i \in 1..n \/ i = n + 1
  BY <1>1
<1>3. \A i \in 1..n : i \in 1..(n + 1)
  BY <1>1
<1>4. n + 1 \in 1..(n + 1)
  BY <1>1
<1>5. \A r : EnCola(r, t) <=> EnCola(r, q) \/ r = e
  BY <1>1, <1>2, <1>3, <1>4 DEF EnCola
<1>6. SinRepetir(q) /\ ~EnCola(e, q) => SinRepetir(t)
  BY <1>1, <1>2 DEF EnCola, SinRepetir
<1>7. QED
  BY <1>5, <1>6 DEF t

LEMMA EnColaTail ==
    ASSUME NEW S, NEW q \in Seq(S), q # <<>>
    PROVE  /\ \A r : EnCola(r, q) <=> EnCola(r, Tail(q)) \/ r = Head(q)
           /\ SinRepetir(q) => SinRepetir(Tail(q)) /\ ~EnCola(Head(q), Tail(q))
<1> DEFINE t == Tail(q)
           n == Len(q)
           e == Head(q)
<1>1. /\ n \in Nat /\ n >= 1 /\ DOMAIN q = 1..n /\ DOMAIN t = 1..(n - 1)
      /\ \A i \in 1..(n - 1) : t[i] = q[i + 1]
      /\ e = q[1]
  BY AlDesencolar
<1> HIDE DEF t, n, e
<1>2. \A i \in 1..n : i = 1 \/ (i - 1 \in 1..(n - 1) /\ (i - 1) + 1 = i)
  BY <1>1
<1>3. \A i \in 1..(n - 1) : i + 1 \in 1..n /\ i + 1 # 1
  BY <1>1
<1>4. 1 \in 1..n
  BY <1>1
<1>5. \A r : EnCola(r, q) <=> EnCola(r, t) \/ r = e
  <2>1. ASSUME NEW r, EnCola(r, q), r # e PROVE EnCola(r, t)
    <3>1. PICK i \in 1..n : q[i] = r
      BY <1>1, <2>1 DEF EnCola
    <3>2. i # 1
      BY <1>1, <2>1, <3>1
    <3>3. i - 1 \in 1..(n - 1) /\ t[i - 1] = r
      BY <1>1, <1>2, <3>1, <3>2
    <3>4. QED
      BY <1>1, <3>3 DEF EnCola
  <2>2. ASSUME NEW r, EnCola(r, t) PROVE EnCola(r, q)
    BY <1>1, <1>3, <2>2 DEF EnCola
  <2>3. EnCola(e, q)
    BY <1>1, <1>4 DEF EnCola
  <2>4. QED
    BY <2>1, <2>2, <2>3
<1>6. ASSUME SinRepetir(q) PROVE SinRepetir(t) /\ ~EnCola(e, t)
  <2>1. \A i \in 1..(n - 1) : t[i] # e
    BY <1>1, <1>3, <1>4, <1>6 DEF SinRepetir
  <2>2. ASSUME NEW i \in 1..(n - 1), NEW j \in 1..(n - 1), t[i] = t[j] PROVE i = j
    <3>1. q[i + 1] = q[j + 1] /\ i + 1 \in 1..n /\ j + 1 \in 1..n
      BY <1>1, <1>3, <2>2
    <3>2. i + 1 = j + 1
      BY <1>1, <1>6, <3>1 DEF SinRepetir
    <3>3. QED
      BY <1>1, <3>2
  <2>3. QED
    BY <1>1, <2>1, <2>2 DEF EnCola, SinRepetir
<1>7. QED
  BY <1>5, <1>6 DEF t, e

-----------------------------------------------------------------------------
(* What a step does to the owners. *)

\* Nobody gets a PCB, or only s1 gets r0.
SinNuevos == \A r \in Refs \cup {NULO} : \A s \in Sitios : Tiene(s, r)' => Tiene(s, r)
SoloRecibe(s1, r0) ==
    \A r \in Refs \cup {NULO} : \A s \in Sitios :
        Tiene(s, r)' => Tiene(s, r) \/ (s = s1 /\ r = r0)

LEMMA UnSoloQuieto == UnSoloSitio /\ SinNuevos => UnSoloSitio'
BY DEF UnSoloSitio, SinNuevos

\* A PCB that passes from s0 to s1, and one that nobody had and s1 gets.
LEMMA UnSoloTraspaso ==
    ASSUME UnSoloSitio, NEW r0 \in Refs, NEW s0 \in Sitios, NEW s1 \in Sitios,
           SoloRecibe(s1, r0), Tiene(s0, r0), ~Tiene(s0, r0)'
    PROVE  UnSoloSitio'
BY DEF UnSoloSitio, SoloRecibe

LEMMA UnSoloNuevo ==
    ASSUME UnSoloSitio, NEW r0 \in Refs, NEW s1 \in Sitios, SoloRecibe(s1, r0),
           \A s \in Sitios : ~Tiene(s, r0)
    PROVE  UnSoloSitio'
BY DEF UnSoloSitio, SoloRecibe

\* What a thread that moves has before and after, the queues being as they were.
LEMMA TieneMueve ==
    ASSUME TypeOK, NEW h \in Hilos, NEW l \in Lugares(h), Ir(h, l),
           \A k \in Hilos : k # h => ptr'[k] = ptr[k]
    PROVE  /\ \A k \in Hilos : k # h => \A r : Tiene(k, r)' <=> Tiene(k, r)
           /\ \A r : Tiene(h, r)' <=> ptr'[h] = r /\ l \in EnHilo(h)
<1>1. pc'[h] = l /\ \A k \in Hilos : k # h => pc'[k] = pc[k]
  BY IrTipo
<1>2. \A k \in Hilos : \A r : Tiene(k, r)' <=> ptr'[k] = r /\ pc'[k] \in EnHilo(k)
  BY TieneDespues
<1>3. QED
  BY <1>1, <1>2, TieneDe

\* The queues that did not change.
LEMMA TieneColas ==
    /\ \A q \in Colas : cola'[q] = cola[q] =>
          \A r : Tiene(EnLaCola(q), r)' <=> Tiene(EnLaCola(q), r)
    /\ \A d \in Dispositivos : cola_dispositivo'[d] = cola_dispositivo[d] =>
          \A r : Tiene(EnDispositivo(d), r)' <=> Tiene(EnDispositivo(d), r)
BY TieneDe, TieneDespues DEF EnCola

-----------------------------------------------------------------------------
(* Ownership: what a step that does not touch a part of it leaves as it was. *)

Posesion == UnSoloSitio /\ SinRepetidos /\ SoloValidos /\ PublicadoAparte /\ SinEstrenar

\* A step that publishes no PCB, and after which the dispatcher directs no other one.
LEMMA PublicadoSigue ==
    ASSUME PublicadoAparte, rafagas' = rafagas,
           \A k \in Hilos : pc'[k] = "limpiar" => pc[k] = "limpiar" /\ ptr'[k] = ptr[k],
           pc'[CortoPlazo] = "dirigir" =>
              pc[CortoPlazo] = "dirigir" /\ ptr'[CortoPlazo] = ptr[CortoPlazo]
    PROVE  PublicadoAparte'
BY DEF PublicadoAparte

\* A thread that only moves, and gets no PCB by it.
LEMMA PosesionMueve ==
    ASSUME TypeOK, Posesion, NEW h \in Hilos, NEW l \in Lugares(h), Ir(h, l),
           UNCHANGED <<cola, cola_dispositivo, vida, rafagas, ptr>>,
           pc[h] \in EnHilo(h) \/ l \notin EnHilo(h), l \notin {"limpiar", "dirigir"}
    PROVE  Posesion' /\ SinNuevos
<1>1. SinNuevos
  BY SitiosDe, TieneDe, TieneMueve, TieneColas DEF SinNuevos
<1>2. UnSoloSitio'
  BY <1>1, UnSoloQuieto DEF Posesion
<1>3. SoloValidos'
  BY <1>1 DEF Posesion, SoloValidos, SinNuevos, Valido
<1>4. SinRepetidos' /\ SinEstrenar'
  BY DEF Posesion, SinRepetidos, SinEstrenar
<1>5. /\ \A k \in Hilos : pc'[k] = "limpiar" => pc[k] = "limpiar"
      /\ pc'[CortoPlazo] = "dirigir" => pc[CortoPlazo] = "dirigir"
  BY IrTipo, HilosFijos
<1>6. PublicadoAparte'
  BY <1>5, PublicadoSigue DEF Posesion
<1>7. QED
  BY <1>1, <1>2, <1>3, <1>4, <1>6 DEF Posesion

LEMMA LimpiosMueve ==
    ASSUME TypeOK, Limpios, NEW h \in Hilos, NEW l \in Lugares(h), Ir(h, l),
           UNCHANGED <<cola, ptr, pcb, cpu>>, l # "enviar"
    PROVE  Limpios'
<1>1. pc'[CortoPlazo] = "enviar" => pc[CortoPlazo] = "enviar"
  BY IrTipo, HilosFijos
<1>2. QED
  BY <1>1 DEF Limpios, EnReady, EnCola

LEMMA SocketMueve ==
    ASSUME TypeOK, SocketTomado, NEW h \in Hilos, NEW l \in Lugares(h), Ir(h, l),
           conexion_memoria_mutex' = conexion_memoria_mutex,
           l \notin {"resp", "resp_indices"} \/ h \notin {LargoPlazo} \cup DePageFault
    PROVE  SocketTomado'
<1>1. \A k \in Hilos : EnElSocket(k)' => EnElSocket(k)
  BY IrTipo DEF EnElSocket
<1>2. QED
  BY <1>1 DEF SocketTomado

\* The PCB the dispatcher directs stays its own: what a step must leave alone.
DirigidoIgual(r) ==
    /\ Valido(r)'
    /\ \A p \in Pids : p = r[1] =>
          /\ pcb'[p].page_fault = pcb[p].page_fault
          /\ pcb'[p].segmentation_fault = pcb[p].segmentation_fault
          /\ pcb'[p].ultima = pcb[p].ultima
    /\ \A s \in Sitios : Tiene(s, r)' => \E t \in Sitios : Tiene(t, r)
    /\ \/ pc'[PF(r)] = pc[PF(r)]
       \/ pc[PF(r)] = "espera" /\ pc'[PF(r)] = "pedir"
    /\ pc'[PF(r)] = "resp" => PaginaPedida(r)'

LEMMA DirigirSigue ==
    ASSUME ADirigir,
           pc'[CortoPlazo] = "dirigir" =>
              /\ pc[CortoPlazo] = "dirigir" /\ ptr'[CortoPlazo] = ptr[CortoPlazo]
              /\ \A r \in Refs : r = ptr[CortoPlazo] => DirigidoIgual(r),
           TypeOK
    PROVE  ADirigir'
<1> SUFFICES ASSUME pc'[CortoPlazo] = "dirigir" PROVE ADirigir'
  BY DEF ADirigir
<1>1. CortoPlazo \in Hilos
  BY HilosFijos
<1>2. pc[CortoPlazo] = "dirigir" /\ ptr'[CortoPlazo] = ptr[CortoPlazo]
  OBVIOUS
<1>3. Valido(ptr[CortoPlazo])
  BY <1>2 DEF ADirigir
<1>4. PICK r \in Refs : r = ptr[CortoPlazo]
  BY <1>1, <1>3, ValidoRef
<1>5. PICK p \in Pids : p = r[1]
  BY <1>1, <1>3, <1>4, ValidoRef
<1>6. /\ DirigidoIgual(r) /\ Encaminable(pcb[p])
      /\ pcb[p].page_fault => pc[PF(r)] \in {"espera", "pedir", "resp"} /\ PaginaPedida(r)
      /\ ~pcb[p].page_fault => pc[PF(r)] = "no_creado" /\ \A s \in Sitios : ~Tiene(s, r)
  BY <1>2, <1>4, <1>5 DEF ADirigir
<1>7. Valido(r)' /\ Encaminable(pcb'[p])
  BY <1>5, <1>6 DEF DirigidoIgual, Encaminable, SinFallo
<1>8. pcb'[p].page_fault => pc'[PF(r)] \in {"espera", "pedir", "resp"} /\ PaginaPedida(r)'
  BY <1>5, <1>6 DEF DirigidoIgual, PaginaPedida
<1>9. ~pcb'[p].page_fault => pc'[PF(r)] = "no_creado" /\ \A s \in Sitios : ~Tiene(s, r)'
  BY <1>5, <1>6 DEF DirigidoIgual
<1>10. ptr'[CortoPlazo] = r /\ pcb'[ptr'[CortoPlazo][1]] = pcb'[p]
  BY <1>2, <1>4, <1>5
<1>11. ASSUME NEW u, u = r, NEW v, v = pcb'[p]
       PROVE  /\ Valido(u)' /\ Encaminable(v)
              /\ v.page_fault => pc'[PF(u)] \in {"espera", "pedir", "resp"} /\ PaginaPedida(u)'
              /\ ~v.page_fault => pc'[PF(u)] = "no_creado" /\ \A s \in Sitios : ~Tiene(s, u)'
  BY <1>7, <1>8, <1>9, <1>11
<1>12. QED
  BY <1>10, <1>11 DEF ADirigir, Valido, Encaminable, SinFallo, PaginaPedida, Tiene

LEMMA IDuenioDe ==
    IDuenio <=> Posesion /\ Limpios /\ SocketTomado /\ ADirigir /\ SinUsoIndebido
BY DEF IDuenio, Posesion

LEMMA IDuenioTras ==
    ASSUME Posesion', Limpios', SocketTomado', ADirigir', SinUsoIndebido'
    PROVE  IDuenio'
BY DEF IDuenio, Posesion

\* Only the thread of its page fault may have the PCB the dispatcher directs.
LEMMA ElDirigido ==
    ASSUME TypeOK, PunterosFijos, UnSoloSitio, ADirigir, pc[CortoPlazo] = "dirigir",
           NEW r \in Refs, r = ptr[CortoPlazo]
    PROVE  /\ Valido(r)
           /\ pc[PF(r)] \in {"espera", "pedir", "resp", "no_creado"}
           /\ \A s \in Sitios : Tiene(s, r) => s = PF(r)
           /\ pc[PF(r)] = "resp" => PaginaPedida(r)
<1> DEFINE c == pcb[r[1]]
<1>1. /\ Valido(r)
      /\ c.page_fault => pc[PF(r)] \in {"espera", "pedir", "resp"} /\ PaginaPedida(r)
      /\ ~c.page_fault => pc[PF(r)] = "no_creado" /\ \A s \in Sitios : ~Tiene(s, r)
  BY DEF ADirigir
<1> HIDE DEF c
<1>2. PF(r) \in DePageFault /\ PF(r) \in Hilos /\ PF(r) \in Sitios
  BY HilosPorIndice, SitiosDe
<1>3. ASSUME pc[PF(r)] \in {"espera", "pedir", "resp"}
      PROVE  \A s \in Sitios : Tiene(s, r) => s = PF(r)
  <2>1. Tiene(PF(r), r)
    BY <1>2, <1>3, TieneDe, EnHiloDe DEF PunterosFijos
  <2>2. QED
    BY <1>2, <2>1 DEF UnSoloSitio
<1>4. QED
  BY <1>1, <1>3

LEMMA DeIDuenio ==
    ASSUME IDuenio
    PROVE  Posesion /\ Limpios /\ SocketTomado /\ ADirigir /\ SinUsoIndebido /\ UnSoloSitio
BY DEF IDuenio, Posesion

\* A step that only moves a thread.
LEMMA MovidaDuenio ==
    ASSUME IInv, PunterosFijos, IDuenio, NEW h \in Hilos, NEW l \in Lugares(h), Ir(h, l),
           UNCHANGED <<cola, cola_dispositivo, vida, rafagas, ptr, pcb, cpu, falla>>,
           UNCHANGED <<conexion_memoria_mutex, pedidos, respuestas>>,
           pc[h] \in EnHilo(h) \/ l \notin EnHilo(h),
           l \notin {"limpiar", "enviar", "dirigir"}, pc[h] # "limpiar",
           l \notin {"resp", "resp_indices"} \/ h \notin {LargoPlazo} \cup DePageFault,
           h \in DePageFault => \/ pc[h] = "espera" /\ l = "pedir"
                                \/ pc[h] \notin {"espera", "pedir", "resp", "no_creado"}
    PROVE  IDuenio'
<1>1. /\ TypeOK /\ Posesion /\ Limpios /\ SocketTomado /\ ADirigir /\ SinUsoIndebido
      /\ UnSoloSitio
  BY DeIDuenio DEF IInv
<1>2. Posesion' /\ SinNuevos
  BY <1>1, PosesionMueve
<1>3. Limpios' /\ SocketTomado' /\ SinUsoIndebido'
  BY <1>1, LimpiosMueve, SocketMueve DEF SinUsoIndebido
<1>4. pc'[h] = l /\ \A k \in Hilos : k # h => pc'[k] = pc[k]
  BY <1>1, IrTipo
<1>5. ADirigir'
  <2> SUFFICES ASSUME pc'[CortoPlazo] = "dirigir" PROVE ADirigir'
    BY DEF ADirigir
  <2>1. CortoPlazo \in Hilos /\ h # CortoPlazo /\ pc[CortoPlazo] = "dirigir"
    BY <1>4, HilosFijos
  <2>2. ASSUME NEW r \in Refs, r = ptr[CortoPlazo] PROVE DirigidoIgual(r)
    <3>1. /\ Valido(r) /\ pc[PF(r)] \in {"espera", "pedir", "resp", "no_creado"}
          /\ pc[PF(r)] = "resp" => PaginaPedida(r)
      BY <1>1, <2>1, <2>2, ElDirigido
    <3>x. PF(r) \in Hilos /\ PF(r) \in DePageFault
      BY HilosPorIndice
    <3>2. pc'[PF(r)] = pc[PF(r)] \/ (pc[PF(r)] = "espera" /\ pc'[PF(r)] = "pedir")
      <4>1. CASE h # PF(r)
        BY <1>4, <3>x, <4>1
      <4>2. CASE h = PF(r)
        BY <1>4, <3>1, <3>x, <4>2
      <4>3. QED
        BY <4>1, <4>2
    <3>3. Valido(r)'
      BY <3>1 DEF Valido
    <3>4. pc'[PF(r)] = "resp" => PaginaPedida(r)'
      BY <3>1, <3>2 DEF PaginaPedida
    <3>5. QED
      BY <1>2, <3>2, <3>3, <3>4 DEF DirigidoIgual, SinNuevos
  <2>3. QED
    BY <1>1, <2>1, <2>2, DirigirSigue
<1>6. QED
  BY <1>2, <1>3, <1>5, IDuenioTras

LEMMA EsperarDuenio ==
    ASSUME IInv, PunterosFijos, IDuenio, NEW h \in Hilos, NEW l \in Lugares(h), NEW de, NEW s,
           Esperar(h, de, s, l) \/ Avisar(h, de, s, l),
           de \in EnHilo(h) \/ l \notin EnHilo(h),
           l \notin {"limpiar", "enviar", "dirigir", "resp", "resp_indices"}, de # "limpiar",
           h \in DePageFault => \/ de = "espera" /\ l = "pedir"
                                \/ de \notin {"espera", "pedir", "resp", "no_creado"}
    PROVE  IDuenio'
<1>1. /\ Ir(h, l) /\ pc[h] = de
      /\ UNCHANGED <<cola, cola_dispositivo, vida, rafagas, ptr, pcb, cpu, falla>>
      /\ UNCHANGED <<conexion_memoria_mutex, pedidos, respuestas>>
  BY DEF Esperar, Avisar, En, dispositivos, procesos, memoria, entorno
<1>2. QED
  BY <1>1, MovidaDuenio

LEMMA SeguirDuenio ==
    ASSUME IInv, PunterosFijos, IDuenio, NEW h \in Hilos \ DePageFault, NEW l \in Lugares(h),
           Seguir(h, l), pc[h] \in EnHilo(h) \/ l \notin EnHilo(h),
           l \notin {"limpiar", "enviar", "dirigir", "resp", "resp_indices"}, pc[h] # "limpiar"
    PROVE  IDuenio'
<1>1. /\ Ir(h, l)
      /\ UNCHANGED <<cola, cola_dispositivo, vida, rafagas, ptr, pcb, cpu, falla>>
      /\ UNCHANGED <<conexion_memoria_mutex, pedidos, respuestas>>
  BY DEF Seguir, dispositivos, procesos, memoria, entorno
<1>2. QED
  BY <1>1, MovidaDuenio

\* What stops the behaviour, without moving anything.
LEMMA FallarDuenio ==
    ASSUME IDuenio, \/ UNCHANGED vars
                    \/ \E f : Fallar(f) /\ f \notin {"uso_tras_liberar", "instruccion_nula"}
    PROVE  IDuenio'
<1>1. /\ UNCHANGED <<cola, cola_dispositivo, vida, rafagas, ptr, pcb, cpu, pc>>
      /\ UNCHANGED <<conexion_memoria_mutex, pedidos, respuestas>>
      /\ SinUsoIndebido'
  BY DeIDuenio DEF vars, Fallar, dispositivos, procesos, memoria, entorno, SinUsoIndebido
<1>2. Posesion'
  BY <1>1, DeIDuenio DEF Posesion, UnSoloSitio, SinRepetidos, SoloValidos, PublicadoAparte,
         SinEstrenar, Tiene, Valido, EnReady, EnCola
<1>3. Limpios' /\ SocketTomado'
  BY <1>1, DeIDuenio DEF Limpios, SocketTomado, EnElSocket, EnReady, EnCola
<1>4. ADirigir'
  BY <1>1, DeIDuenio DEF ADirigir, PaginaPedida, Tiene, Valido, EnCola
<1>5. QED
  BY <1>1, <1>2, <1>3, <1>4, IDuenioTras

-----------------------------------------------------------------------------
(* Ownership: the push to a ready queue and the flags cleared after it. *)

\* A step that writes nothing the dispatcher directs a PCB by, and one that at most
\* clears flags.
MismasBanderas ==
    \A p \in Pids : /\ pcb'[p].page_fault = pcb[p].page_fault
                    /\ pcb'[p].segmentation_fault = pcb[p].segmentation_fault
                    /\ pcb'[p].ultima = pcb[p].ultima
SinFallosNuevos == \A p \in Pids : SinFallo(pcb[p]) => SinFallo(pcb'[p])

LEMMA EscribeBanderas ==
    ASSUME TypeOK, NEW p \in Pids
    PROVE  /\ \A b : pcb' = [pcb EXCEPT ![p].con_desalojo = b] => MismasBanderas
           /\ \A e : pcb' = [pcb EXCEPT ![p].estado = e] => MismasBanderas
           /\ MismasBanderas => SinFallosNuevos
<1>1. pcb \in [Pids -> Pcb] /\ \A c \in Pcb : c = [c EXCEPT !.estado = c.estado]
  BY DEF TypeOK, Pcb
<1>2. \A b : pcb' = [pcb EXCEPT ![p].con_desalojo = b] => MismasBanderas
  BY <1>1 DEF MismasBanderas, Pcb
<1>3. \A e : pcb' = [pcb EXCEPT ![p].estado = e] => MismasBanderas
  BY <1>1 DEF MismasBanderas, Pcb
<1>4. MismasBanderas => SinFallosNuevos
  BY DEF MismasBanderas, SinFallosNuevos, SinFallo
<1>5. QED
  BY <1>2, <1>3, <1>4

\* The PCB the dispatcher is about to send is one it has.
LEMMA ElEnviado ==
    ASSUME TypeOK, SoloValidos, pc[CortoPlazo] \in {"enviar", "destruir", "push_ready"}
    PROVE  /\ ptr[CortoPlazo] \in Refs /\ ptr[CortoPlazo][1] \in Pids /\ Valido(ptr[CortoPlazo])
           /\ Tiene(CortoPlazo, ptr[CortoPlazo])
<1>1. CortoPlazo \in Hilos /\ CortoPlazo \in Sitios /\ ptr[CortoPlazo] \in Refs \cup {NULO}
  BY HilosFijos, SitiosDe DEF TypeOK
<1>2. Tiene(CortoPlazo, ptr[CortoPlazo])
  BY <1>1, TieneDe, EnHiloDe
<1>3. Valido(ptr[CortoPlazo])
  BY <1>1, <1>2 DEF SoloValidos
<1>4. QED
  BY <1>1, <1>2, <1>3, ValidoRef

LEMMA LimpiosSigue ==
    ASSUME TypeOK, Limpios, SoloValidos, SinFallosNuevos, cpu' = cpu,
           pc'[CortoPlazo] = "enviar" => pc[CortoPlazo] = "enviar" /\ ptr'[CortoPlazo] = ptr[CortoPlazo],
           \A r \in Refs : EnReady(r)' => EnReady(r)
    PROVE  Limpios'
<1>1. \A r \in Refs : EnReady(r)' => SinFallo(pcb'[r[1]])
  BY DEF Limpios, SinFallosNuevos, Refs
<1>2. pc'[CortoPlazo] = "enviar" => SinFallo(pcb'[ptr'[CortoPlazo][1]])
  BY ElEnviado DEF Limpios, SinFallosNuevos
<1>3. /\ cpu'.fase = "ejecutando" => SinFallo(cpu'.pcb)
      /\ cpu'.fase = "lista" => Encaminable(cpu'.pcb)
  BY DEF Limpios
<1>4. QED
  BY <1>1, <1>2, <1>3 DEF Limpios, SinFallo, Encaminable

LEMMA PasadorTiene == \A h \in Pasadores : "push_ready" \in EnHilo(h)
BY EnHiloDe DEF Pasadores

\* A process has one PCB at a time.
LEMMA ValidoUnico ==
    ASSUME NEW r \in Refs, NEW s \in Refs, Valido(r), Valido(s), r[1] = s[1]
    PROVE  r = s
<1>1. r = <<r[1], r[2]>> /\ s = <<s[1], s[2]>>
  BY DEF Refs
<1>2. r[2] = s[2]
  BY DEF Valido
<1>3. QED
  BY <1>1, <1>2

\* The pusher stores the flags with the push when nobody gets in between.
LEMMA EscribePublicado ==
    ASSUME TypeOK, Carreras = {}, NEW h \in Hilos, PushReady(h), NEW p0 \in Pids, p0 = ptr[h][1]
    PROVE  /\ SinFallo(pcb'[p0]) /\ SinFallosNuevos
           /\ \A p \in Pids : p # p0 => pcb'[p] = pcb[p]
<1>1. pcb' = [pcb EXCEPT ![p0] =
                [@ EXCEPT !.con_desalojo = Preemptible(ptr[h]), !.interrupcion = FALSE,
                          !.page_fault = FALSE, !.segmentation_fault = FALSE]]
  BY DEF PushReady
<1>2. pcb \in [Pids -> Pcb]
  BY DEF TypeOK
<1>3. SinFallo(pcb'[p0]) /\ \A p \in Pids : p # p0 => pcb'[p] = pcb[p]
  BY <1>1, <1>2 DEF Pcb, SinFallo
<1>4. QED
  BY <1>3 DEF SinFallosNuevos

LEMMA PushReadyDuenio ==
    ASSUME IInv, PunterosFijos, IDuenio, Carreras = {}, NEW h \in Pasadores, PushReady(h)
    PROVE  IDuenio'
<1>1. /\ TypeOK /\ Posesion /\ Limpios /\ SocketTomado /\ ADirigir /\ SinUsoIndebido
      /\ UnSoloSitio /\ SinRepetidos /\ SoloValidos /\ PublicadoAparte /\ SinEstrenar
      /\ h \in Hilos /\ "limpiar" \in Lugares(h) /\ h \in Sitios
  BY DeIDuenio, PasadoresDe, SitiosDe DEF IInv, Posesion
<1>2. /\ Ir(h, "limpiar") /\ pc[h] = "push_ready" /\ Valido(ptr[h])
      /\ UNCHANGED <<cola_dispositivo, vida, rafagas, ptr, cpu, falla>>
      /\ UNCHANGED <<conexion_memoria_mutex, pedidos, respuestas>>
  BY DEF PushReady, En, dispositivos, memoria, entorno
<1>3. PICK r0 \in Refs : r0 = ptr[h]
  BY <1>1, <1>2, ValidoRef
<1>4. PICK p0 \in Pids : p0 = r0[1]
  BY <1>3 DEF Refs
<1>5. PICK q0 \in {"rr", "fifo"} : cola' = [cola EXCEPT ![q0] = Append(@, r0)]
  BY <1>3 DEF PushReady
<1>6. /\ q0 \in Colas /\ cola[q0] \in Seq(Refs) /\ cola'[q0] = Append(cola[q0], r0)
      /\ \A q \in Colas : q # q0 => cola'[q] = cola[q]
  BY <1>1, <1>5 DEF TypeOK, Colas
<1>7. /\ SinFallo(pcb'[p0]) /\ SinFallosNuevos
      /\ \A p \in Pids : p # p0 => pcb'[p] = pcb[p]
  BY <1>1, <1>3, <1>4, EscribePublicado
<1>8. pc'[h] = "limpiar" /\ \A k \in Hilos : k # h => pc'[k] = pc[k]
  BY <1>1, <1>2, IrTipo
<1>9. Tiene(h, r0) /\ ~Tiene(h, r0)'
  BY <1>1, <1>2, <1>3, <1>8, TieneDe, TieneDespues, PasadorTiene, EnHiloDe
<1>10. EnLaCola(q0) \in Sitios /\ EnLaCola(q0) # h
  BY <1>1, <1>6, SitiosDe
<1>11. ~EnCola(r0, cola[q0])
  BY <1>1, <1>6, <1>9, <1>10, TieneDe DEF UnSoloSitio
<1>12. SinRepetir(cola'[q0]) /\ \A r : EnCola(r, cola'[q0]) <=> EnCola(r, cola[q0]) \/ r = r0
  BY <1>1, <1>6, <1>11, EnColaAppend DEF SinRepetidos
<1>13. SoloRecibe(EnLaCola(q0), r0)
  <2> SUFFICES ASSUME NEW r \in Refs \cup {NULO}, NEW s \in Sitios, Tiene(s, r)'
               PROVE  Tiene(s, r) \/ (s = EnLaCola(q0) /\ r = r0)
    BY DEF SoloRecibe
  <2>1. CASE s \in Hilos
    BY <1>1, <1>2, <2>1, TieneMueve, EnHiloDe
  <2>2. ASSUME NEW q \in Colas, s = EnLaCola(q) PROVE Tiene(s, r) \/ (s = EnLaCola(q0) /\ r = r0)
    <3>1. CASE q = q0
      BY <1>6, <1>12, <2>2, <3>1, TieneDe, TieneDespues
    <3>2. CASE q # q0
      BY <1>6, <2>2, <3>2, TieneColas
    <3>3. QED
      BY <3>1, <3>2
  <2>3. ASSUME NEW d \in Dispositivos, s = EnDispositivo(d) PROVE Tiene(s, r)
    BY <1>2, <2>3, TieneColas
  <2>4. QED
    BY <2>1, <2>2, <2>3, SitiosDe
<1>14. UnSoloSitio'
  BY <1>1, <1>9, <1>10, <1>13, UnSoloTraspaso
<1>15. SinRepetidos' /\ SinEstrenar'
  BY <1>1, <1>2, <1>6, <1>12 DEF SinRepetidos, SinRepetir, SinEstrenar
<1>16. SoloValidos'
  <2>1. \A r : Valido(r)' <=> Valido(r)
    BY <1>2 DEF Valido
  <2>2. ASSUME NEW r \in Refs \cup {NULO}, NEW s \in Sitios, Tiene(s, r)' PROVE Valido(r)'
    BY <1>1, <1>2, <1>3, <1>13, <2>1, <2>2 DEF SoloRecibe, SoloValidos
  <2>3. QED
    BY <2>2 DEF SoloValidos
<1>17. /\ \A r : EnReady(r) => EnReady(r)'
       /\ EnReady(r0)'
       /\ \A r : EnReady(r)' => EnReady(r) \/ r = r0
  <2>1. \A q \in Colas : \A r : EnCola(r, cola'[q]) <=> EnCola(r, cola[q]) \/ (q = q0 /\ r = r0)
    BY <1>6, <1>12
  <2>2. \A r : EnReady(r)' <=> EnCola(r, cola'["rr"]) \/ EnCola(r, cola'["fifo"])
    BY DEF EnReady, EnCola
  <2>3. {"rr", "fifo"} \subseteq Colas
    BY DEF Colas
  <2>4. QED
    BY <2>1, <2>2, <2>3 DEF EnReady
<1>18. PublicadoAparte'
  <2>1. r0[2] <= rafagas[p0]
    BY <1>1, <1>2, <1>3, <1>4 DEF Valido, TypeOK
  <2>2. ASSUME pc'[CortoPlazo] = "dirigir" PROVE pc[CortoPlazo] = "dirigir" /\ r0 # ptr[CortoPlazo]
    <3>1. pc[CortoPlazo] = "dirigir" /\ h # CortoPlazo
      BY <1>8, <2>2, HilosFijos
    <3>2. CASE r0 = ptr[CortoPlazo]
      <4>1. h = PF(r0) /\ pc[PF(r0)] \in {"espera", "pedir", "resp", "no_creado"}
        BY <1>1, <1>9, <3>1, <3>2, ElDirigido
      <4>2. QED
        BY <1>2, <4>1
    <3>3. QED
      BY <3>1, <3>2
  <2>3. ASSUME NEW k \in Hilos, pc'[k] = "limpiar"
        PROVE  /\ ptr'[k] \in Refs /\ ptr'[k][2] <= rafagas'[ptr'[k][1]]
               /\ pc'[CortoPlazo] = "dirigir" => ptr'[k] # ptr'[CortoPlazo]
    <3>1. CASE k = h
      BY <1>2, <1>3, <1>4, <2>1, <2>2, <3>1
    <3>2. CASE k # h
      BY <1>1, <1>2, <1>8, <2>2, <2>3, <3>2 DEF PublicadoAparte
    <3>3. QED
      BY <3>1, <3>2
  <2>4. QED
    BY <2>3 DEF PublicadoAparte
<1>19. Limpios'
  <2>1. ASSUME NEW r \in Refs, EnReady(r)' PROVE SinFallo(pcb'[r[1]])
    <3>1. CASE r = r0
      BY <1>4, <1>7, <3>1
    <3>2. CASE r # r0
      <4>1. SinFallo(pcb[r[1]]) /\ r[1] \in Pids
        BY <1>1, <1>17, <2>1, <3>2 DEF Limpios, Refs
      <4>2. QED
        BY <1>7, <4>1 DEF SinFallosNuevos
    <3>3. QED
      BY <3>1, <3>2
  <2>2. pc'[CortoPlazo] = "enviar" => SinFallo(pcb'[ptr'[CortoPlazo][1]])
    <3>1. pc'[CortoPlazo] = "enviar" => pc[CortoPlazo] = "enviar"
      BY <1>8, HilosFijos
    <3>2. QED
      BY <1>1, <1>2, <1>7, <3>1, ElEnviado DEF Limpios, SinFallosNuevos
  <2>3. /\ cpu'.fase = "ejecutando" => SinFallo(cpu'.pcb)
        /\ cpu'.fase = "lista" => Encaminable(cpu'.pcb)
    BY <1>1, <1>2 DEF Limpios
  <2>4. QED
    BY <2>1, <2>2, <2>3 DEF Limpios, SinFallo, Encaminable
<1>20. SocketTomado' /\ SinUsoIndebido'
  BY <1>1, <1>2, SocketMueve DEF SinUsoIndebido
<1>21. ADirigir'
  <2> SUFFICES ASSUME pc'[CortoPlazo] = "dirigir" PROVE ADirigir'
    BY DEF ADirigir
  <2>1. CortoPlazo \in Hilos /\ h # CortoPlazo /\ pc[CortoPlazo] = "dirigir"
    BY <1>8, HilosFijos
  <2>2. ASSUME NEW r \in Refs, r = ptr[CortoPlazo] PROVE DirigidoIgual(r)
    <3>1. /\ Valido(r) /\ pc[PF(r)] \in {"espera", "pedir", "resp", "no_creado"}
          /\ \A s \in Sitios : Tiene(s, r) => s = PF(r)
          /\ pc[PF(r)] = "resp" => PaginaPedida(r)
      BY <1>1, <2>1, <2>2, ElDirigido
    <3>2. PF(r) \in Hilos /\ h # PF(r) /\ r # r0
      BY <1>1, <1>2, <1>9, <3>1, HilosPorIndice
    <3>3. pc'[PF(r)] = pc[PF(r)]
      BY <1>8, <3>2
    <3>4. Valido(r)'
      BY <1>2, <3>1 DEF Valido
    <3>5. pc'[PF(r)] = "resp" => PaginaPedida(r)'
      BY <1>2, <3>1, <3>3 DEF PaginaPedida
    <3>6. \A s \in Sitios : Tiene(s, r)' => Tiene(s, r)
      BY <1>13, <3>2 DEF SoloRecibe
    <3>7. r[1] # p0
      BY <1>2, <1>3, <1>4, <3>1, <3>2, ValidoUnico
    <3>8. QED
      BY <1>7, <3>3, <3>4, <3>5, <3>6, <3>7 DEF DirigidoIgual
  <2>3. QED
    BY <1>1, <1>2, <2>1, <2>2, DirigirSigue
<1>22. QED
  BY <1>14, <1>15, <1>16, <1>18, <1>19, <1>20, <1>21, IDuenioTras DEF Posesion

\* A PCB in a ready queue is not the one the dispatcher directs.
LEMMA EnReadyAjeno ==
    ASSUME TypeOK, PunterosFijos, UnSoloSitio, ADirigir, pc[CortoPlazo] = "dirigir",
           NEW r \in Refs, r = ptr[CortoPlazo]
    PROVE  ~EnReady(r) /\ ~EnCola(r, cola["exit"]) /\ ~EnCola(r, cola["new"])
<1>1. \A s \in Sitios : Tiene(s, r) => s = PF(r)
  BY ElDirigido
<1>2. PF(r) \in Hilos /\ {"rr", "fifo", "exit", "new"} \subseteq Colas
  BY HilosPorIndice DEF Colas
<1>3. \A q \in {"rr", "fifo", "exit", "new"} : ~EnCola(r, cola[q])
  BY <1>1, <1>2, SitiosDe, TieneDe
<1>4. QED
  BY <1>3 DEF EnReady

LEMMA EnReadyValido ==
    ASSUME SoloValidos, NEW r \in Refs \cup {NULO}, EnReady(r)
    PROVE  Valido(r)
<1>1. {"rr", "fifo"} \subseteq Colas
  BY DEF Colas
<1>2. \A q \in {"rr", "fifo"} : EnLaCola(q) \in Sitios /\ (Tiene(EnLaCola(q), r) <=> EnCola(r, cola[q]))
  BY <1>1, SitiosDe, TieneDe
<1>3. QED
  BY <1>2 DEF SoloValidos, EnReady

LEMMA LimpiarDuenio ==
    ASSUME IInv, PunterosFijos, IDuenio, NEW h \in Pasadores, LimpiarBanderas(h)
    PROVE  IDuenio'
<1>1. /\ TypeOK /\ Posesion /\ Limpios /\ SocketTomado /\ ADirigir /\ SinUsoIndebido
      /\ UnSoloSitio /\ SoloValidos /\ PublicadoAparte
      /\ h \in Hilos /\ "post_ready" \in Lugares(h)
  BY DeIDuenio, PasadoresDe DEF IInv, Posesion
<1>2. /\ Ir(h, "post_ready") /\ pc[h] = "limpiar" /\ Valido(ptr[h])
      /\ UNCHANGED <<cola, cola_dispositivo, vida, rafagas, ptr, cpu, falla>>
      /\ UNCHANGED <<conexion_memoria_mutex, pedidos, respuestas>>
  BY DEF LimpiarBanderas, En, dispositivos, memoria, entorno
<1>3. PICK r0 \in Refs : r0 = ptr[h]
  BY <1>1, <1>2, ValidoRef
<1>4. PICK p0 \in Pids : p0 = r0[1]
  BY <1>3 DEF Refs
<1>5. pc'[h] = "post_ready" /\ \A k \in Hilos : k # h => pc'[k] = pc[k]
  BY <1>1, <1>2, IrTipo
<1>6. SinFallo(pcb'[p0]) /\ \A p \in Pids : p # p0 => pcb'[p] = pcb[p]
  <2>1. pcb' = [pcb EXCEPT ![p0] =
                  [@ EXCEPT !.interrupcion = FALSE, !.page_fault = FALSE,
                            !.segmentation_fault = FALSE, !.estado = "READY"]]
    BY <1>3, <1>4 DEF LimpiarBanderas
  <2>2. pcb \in [Pids -> Pcb]
    BY <1>1 DEF TypeOK
  <2>3. QED
    BY <2>1, <2>2 DEF Pcb, SinFallo
<1>7. SinFallosNuevos
  BY <1>6 DEF SinFallosNuevos
<1>8. Posesion' /\ SinNuevos
  BY <1>1, <1>2, PosesionMueve, EnHiloDe
<1>9. \A r \in Refs : r[1] = p0 /\ Valido(r) => r = r0
  BY <1>2, <1>3, <1>4, ValidoUnico
<1>10. Limpios'
  <2>1. \A r \in Refs : EnReady(r)' => EnReady(r)
    BY <1>2 DEF EnReady, EnCola
  <2>2. pc'[CortoPlazo] = "enviar" => pc[CortoPlazo] = "enviar"
    BY <1>5, HilosFijos
  <2>3. QED
    BY <1>1, <1>2, <1>7, <2>1, <2>2, LimpiosSigue
<1>11. SocketTomado' /\ SinUsoIndebido'
  BY <1>1, <1>2, SocketMueve DEF SinUsoIndebido
<1>12. ADirigir'
  <2> SUFFICES ASSUME pc'[CortoPlazo] = "dirigir" PROVE ADirigir'
    BY DEF ADirigir
  <2>1. CortoPlazo \in Hilos /\ h # CortoPlazo /\ pc[CortoPlazo] = "dirigir"
    BY <1>5, HilosFijos
  <2>2. ASSUME NEW r \in Refs, r = ptr[CortoPlazo] PROVE DirigidoIgual(r)
    <3>1. /\ Valido(r) /\ pc[PF(r)] \in {"espera", "pedir", "resp", "no_creado"}
          /\ pc[PF(r)] = "resp" => PaginaPedida(r)
      BY <1>1, <2>1, <2>2, ElDirigido
    <3>2. r # r0
      BY <1>1, <1>2, <1>3, <2>1, <2>2 DEF PublicadoAparte
    <3>4. r[1] # p0 /\ r[1] \in Pids
      BY <1>9, <3>1, <3>2 DEF Refs
    <3>5. PF(r) \in Hilos /\ h # PF(r)
      BY <1>2, <3>1, HilosPorIndice
    <3>6. pc'[PF(r)] = pc[PF(r)]
      BY <1>5, <3>5
    <3>7. Valido(r)'
      BY <1>2, <3>1 DEF Valido
    <3>8. pc'[PF(r)] = "resp" => PaginaPedida(r)'
      BY <1>2, <3>1, <3>6 DEF PaginaPedida
    <3>9. QED
      BY <1>6, <1>8, <3>4, <3>6, <3>7, <3>8 DEF DirigidoIgual, SinNuevos
  <2>3. QED
    BY <1>1, <1>2, <2>1, <2>2, DirigirSigue
<1>13. QED
  BY <1>8, <1>10, <1>11, <1>12, IDuenioTras

LEMMA PasarAReadyDuenio ==
    ASSUME IInv, PunterosFijos, IDuenio, Carreras = {}, NEW h \in Pasadores, PasarAReady(h)
    PROVE  IDuenio'
<1>1. /\ TypeOK /\ h \in Hilos /\ TrasReady(h) \in Lugares(h)
      /\ SoloValidos /\ PublicadoAparte /\ h \in Sitios /\ ptr[h] \in Refs \cup {NULO}
  BY DeIDuenio, PasadoresDe, SitiosDe DEF IInv, Posesion, TypeOK
<1>2. CASE PushReady(h)
  BY <1>2, PushReadyDuenio
<1>3. CASE LimpiarBanderas(h)
  BY <1>3, LimpiarDuenio
<1>4. CASE (En(h, "push_ready") \/ En(h, "limpiar")) /\ UsoTrasLiberar(h)
  <2>1. CASE pc[h] = "push_ready"
    <3>1. Tiene(h, ptr[h])
      BY <1>1, <2>1, TieneDe, PasadorTiene
    <3>2. QED
      BY <1>1, <1>4, <3>1 DEF SoloValidos, UsoTrasLiberar
  <2>2. CASE pc[h] = "limpiar"
    BY <1>4, <2>2, FallarDuenio DEF UsoTrasLiberar
  <2>3. QED
    BY <1>4, <2>1, <2>2 DEF En
<1>5. CASE Avisar(h, "post_ready", "procesos_ready", TrasReady(h))
  <2>1. /\ TrasReady(h) \in {"espera_new", "espera_ready", "espera", "fin"}
        /\ TrasReady(h) \notin EnHilo(h)
    <3>1. CASE h = LargoPlazo
      BY <3>1, TrasReadyDe, EnHiloDe
    <3>2. CASE h = CortoPlazo
      BY <3>2, TrasReadyDe, EnHiloDe
    <3>3. CASE h \in DeDispositivo
      BY <3>3, TrasReadyDe, EnHiloDe
    <3>4. CASE h \in DePageFault \cup DeConsola
      BY <1>1, <3>4, TrasReadyDe, EnHiloDe
    <3>5. QED
      BY <3>1, <3>2, <3>3, <3>4 DEF Pasadores
  <2>2. QED
    BY <1>1, <1>5, <2>1, EsperarDuenio
<1>6. QED
  BY <1>2, <1>3, <1>4, <1>5 DEF PasarAReady

-----------------------------------------------------------------------------
(* Ownership: the socket to the memory. *)

\* Nobody waits for a code when the dispatcher is directing and the mutex is free: no
\* request and no code are under way.
LEMMA NadieEspera ==
    ASSUME IEspera, SocketTomado, conexion_memoria_mutex = "libre", pc[CortoPlazo] = "dirigir"
    PROVE  pedidos = <<>> /\ \A i \in DOMAIN respuestas : respuestas[i].cod = "INDICES"
<1>1. TypeOK /\ pedidos \in Seq(Pedido) /\ respuestas \in Seq(Respuesta)
  BY DEF IEspera, IInv, TypeOK, Pedido, Respuesta
<1>2. Esperando = {}
  <2>1. \A h \in Hilos : /\ "resp" \in Lugares(h) => h \in {LargoPlazo} \cup DePageFault
                         /\ "resp_liberar" \in Lugares(h) => h = CortoPlazo
    BY LugaresDe DEF Hilos
  <2>2. \A h \in Hilos : pc[h] \in Lugares(h)
    BY <1>1 DEF TypeOK
  <2>3. QED
    BY <2>1, <2>2 DEF Esperando, SocketTomado, EnElSocket
<1> DEFINE n == Len(pedidos)
           c == Cardinality(ConCodigo(respuestas))
<1>3. n \in Nat /\ c \in Nat /\ IsFiniteSet(ConCodigo(respuestas))
  BY <1>1, ConCodigoFinito
<1>4. n + c = 0
  BY <1>2, FS_EmptySet DEF IEspera, Sumas
<1>5. n = 0 /\ c = 0
  <2> HIDE DEF n, c
  <2>1. QED
    BY ONLY <1>3, <1>4
<1>6. ConCodigo(respuestas) = {}
  BY <1>3, <1>5, FS_EmptySet
<1>7. pedidos = <<>>
  BY <1>1, <1>5
<1>8. QED
  BY <1>6, <1>7 DEF ConCodigo

LEMMA PedirDuenio ==
    ASSUME IEspera, PunterosFijos, IDuenio, NEW h \in {LargoPlazo} \cup DePageFault, NEW cod,
           h \in DePageFault => cod = "PAGINA", Pedir(h, cod)
    PROVE  IDuenio'
<1>1. /\ TypeOK /\ Posesion /\ Limpios /\ SocketTomado /\ ADirigir /\ SinUsoIndebido
      /\ UnSoloSitio /\ h \in Hilos /\ "resp" \in Lugares(h) /\ "resp" \in EnHilo(h) /\ "pedir" \in EnHilo(h)
      /\ h # CortoPlazo /\ IInv
  BY DeIDuenio, LugaresDe, HilosFijos, EnHiloDe DEF IInv, IEspera, Hilos
<1>2. /\ Ir(h, "resp") /\ pc[h] = "pedir" /\ conexion_memoria_mutex = "libre"
      /\ conexion_memoria_mutex' = h[1]
      /\ pedidos' = Append(pedidos, [cod |-> cod, pid |-> ptr[h][1]])
      /\ UNCHANGED <<cola, cola_dispositivo, vida, rafagas, ptr, pcb, cpu, falla, respuestas>>
  BY DEF Pedir, En, dispositivos, procesos, entorno
<1>3. pc'[h] = "resp" /\ \A k \in Hilos : k # h => pc'[k] = pc[k]
  BY <1>1, <1>2, IrTipo
<1>4. Posesion' /\ SinNuevos
  BY <1>1, <1>2, PosesionMueve
<1>5. Limpios' /\ SinUsoIndebido'
  BY <1>1, <1>2, LimpiosMueve DEF SinUsoIndebido
<1>6. SocketTomado'
  <2>1. \A k \in Hilos : ~EnElSocket(k)
    BY <1>1, <1>2 DEF SocketTomado
  <2>2. \A k \in Hilos : EnElSocket(k)' => k = h
    BY <1>3, <2>1 DEF EnElSocket
  <2>3. h[1] # "libre"
    BY DEF LargoPlazo, DePageFault, PF
  <2>4. QED
    BY <1>2, <2>2, <2>3 DEF SocketTomado
<1>7. ADirigir'
  <2> SUFFICES ASSUME pc'[CortoPlazo] = "dirigir" PROVE ADirigir'
    BY DEF ADirigir
  <2>1. pc[CortoPlazo] = "dirigir"
    BY <1>1, <1>3, HilosFijos
  <2>2. ASSUME NEW r \in Refs, r = ptr[CortoPlazo],
               pc[PF(r)] \in {"espera", "resp", "no_creado"} PROVE DirigidoIgual(r)
    <3>1. Valido(r) /\ PF(r) \in Hilos /\ PF(r) \in DePageFault
      BY <1>1, <2>1, <2>2, ElDirigido, HilosPorIndice
    <3>2. pc[PF(r)] # "resp"
      BY <1>1, <1>2, <3>1 DEF SocketTomado, EnElSocket
    <3>3. pc'[PF(r)] = pc[PF(r)]
      BY <1>2, <1>3, <2>2, <3>1
    <3>4. Valido(r)'
      BY <1>2, <3>1 DEF Valido
    <3>5. QED
      BY <1>2, <1>4, <3>2, <3>3, <3>4 DEF DirigidoIgual, SinNuevos
  <2>3. ASSUME NEW r \in Refs, r = ptr[CortoPlazo], pc[PF(r)] = "pedir", h # PF(r)
        PROVE  DirigidoIgual(r)
    <3>1. Valido(r) /\ PF(r) \in Hilos /\ PF(r) \in DePageFault
      BY <1>1, <2>1, <2>3, ElDirigido, HilosPorIndice
    <3>2. pc'[PF(r)] = pc[PF(r)] /\ pc'[PF(r)] # "resp"
      BY <1>3, <2>3, <3>1
    <3>3. Valido(r)'
      BY <1>2, <3>1 DEF Valido
    <3>4. QED
      BY <1>2, <1>4, <3>2, <3>3 DEF DirigidoIgual, SinNuevos
  <2>4. PICK r \in Refs : r = ptr[CortoPlazo]
    <3>1. Valido(ptr[CortoPlazo])
      BY <2>1, <1>1 DEF ADirigir
    <3>2. QED
      BY <1>1, <3>1, HilosFijos, ValidoRef
  <2>5. CASE h = PF(r) /\ pc[PF(r)] = "pedir"
    <3>1. Valido(r) /\ PF(r) \in Hilos /\ PF(r) \in DePageFault
      BY <1>1, <2>1, <2>4, ElDirigido, HilosPorIndice
    <3>2. /\ pedidos = <<>>
          /\ \A i \in DOMAIN respuestas : respuestas[i].cod = "INDICES"
      BY <1>1, <1>2, <2>1, NadieEspera
    <3>3. ptr[h] = r /\ cod = "PAGINA"
      BY <2>5, <3>1 DEF PunterosFijos
    <3>4. pedidos' = <<[cod |-> "PAGINA", pid |-> r[1]]>>
      BY <1>2, <3>2, <3>3
    <3>5. PaginaPedida(r)'
      BY <1>2, <3>2, <3>4 DEF PaginaPedida
    <3>6. Encaminable(pcb[r[1]]) /\ pcb[r[1]].page_fault
      BY <2>1, <2>4, <2>5, <1>1 DEF ADirigir
    <3>7. Valido(r)'
      BY <1>2, <3>1 DEF Valido
    <3>8. ptr'[CortoPlazo] = r /\ pcb' = pcb
      BY <1>2, <2>4
    <3>9. ASSUME NEW u, u = r, NEW v, v = pcb'[r[1]]
          PROVE  /\ Valido(u)' /\ Encaminable(v)
                 /\ v.page_fault => pc'[PF(u)] \in {"espera", "pedir", "resp"} /\ PaginaPedida(u)'
                 /\ ~v.page_fault => pc'[PF(u)] = "no_creado" /\ \A s \in Sitios : ~Tiene(s, u)'
      BY <1>3, <2>5, <3>5, <3>6, <3>7, <3>8, <3>9
    <3>10. QED
      BY <3>8, <3>9 DEF ADirigir, Valido, Encaminable, SinFallo, PaginaPedida, Tiene
  <2>6. CASE h # PF(r) \/ pc[PF(r)] # "pedir"
    <3>1. pc[PF(r)] \in {"espera", "pedir", "resp", "no_creado"}
      BY <1>1, <2>1, <2>4, ElDirigido
    <3>2. DirigidoIgual(r)
      BY <2>2, <2>3, <2>4, <2>6, <3>1
    <3>3. QED
      BY <1>1, <1>2, <2>1, <2>4, <3>2, DirigirSigue
  <2>7. QED
    BY <2>5, <2>6
<1>8. QED
  BY <1>4, <1>5, <1>6, <1>7, IDuenioTras

\* A thread that reads a code of its own, holding the mutex or releasing it.
LEMMA RecibirDuenio ==
    ASSUME IInv, PunterosFijos, IDuenio, NEW h \in {LargoPlazo} \cup DePageFault,
           NEW l \in {"resp_indices", "push_ready", "muerto"}, l \in Lugares(h), NEW m, Recibir(h, l, m),
           pc[h] \in {"resp", "resp_indices"}, respuestas # <<>>,
           h \in DePageFault => Head(respuestas).cod # "INDICES",
           l = "resp_indices" => m = conexion_memoria_mutex
    PROVE  IDuenio'
<1>1. /\ TypeOK /\ Posesion /\ Limpios /\ SocketTomado /\ ADirigir /\ SinUsoIndebido
      /\ UnSoloSitio /\ h \in Hilos /\ h # CortoPlazo /\ pc[h] \in Lugares(h)
  BY DeIDuenio, HilosFijos DEF IInv, Hilos, TypeOK
<1>2. /\ Ir(h, l) /\ conexion_memoria_mutex' = m /\ respuestas' = Tail(respuestas)
      /\ UNCHANGED <<cola, cola_dispositivo, vida, rafagas, ptr, pcb, cpu, falla, pedidos>>
  BY DEF Recibir, dispositivos, procesos, entorno
<1>3. pc'[h] = l /\ \A k \in Hilos : k # h => pc'[k] = pc[k]
  BY <1>1, <1>2, IrTipo
<1>4. pc[h] \in EnHilo(h)
  BY <1>1, EnHiloDe, LugaresDe
<1>5. Posesion' /\ SinNuevos
  BY <1>1, <1>2, <1>4, PosesionMueve
<1>6. Limpios' /\ SinUsoIndebido'
  BY <1>1, <1>2, LimpiosMueve DEF SinUsoIndebido
<1>7. EnElSocket(h) /\ \A k \in Hilos : EnElSocket(k) => k = h
  BY <1>1 DEF SocketTomado, EnElSocket
<1>8. SocketTomado'
  <2>1. \A k \in Hilos : EnElSocket(k)' => k = h /\ l = "resp_indices"
    BY <1>3, <1>7 DEF EnElSocket
  <2>2. QED
    BY <1>1, <1>2, <1>7, <2>1 DEF SocketTomado
<1>9. ADirigir'
  <2> SUFFICES ASSUME pc'[CortoPlazo] = "dirigir" PROVE ADirigir'
    BY DEF ADirigir
  <2>1. pc[CortoPlazo] = "dirigir"
    BY <1>1, <1>3, HilosFijos
  <2>2. ASSUME NEW r \in Refs, r = ptr[CortoPlazo] PROVE DirigidoIgual(r)
    <3>1. /\ Valido(r) /\ PF(r) \in Hilos /\ PF(r) \in DePageFault
          /\ pc[PF(r)] = "resp" => PaginaPedida(r)
      BY <1>1, <2>1, <2>2, ElDirigido, HilosPorIndice
    <3>2. pc[PF(r)] # "resp"
      <4> SUFFICES ASSUME pc[PF(r)] = "resp" PROVE FALSE
        OBVIOUS
      <4>1. h = PF(r)
        BY <1>7, <3>1 DEF EnElSocket
      <4>2. Head(respuestas).cod = "INDICES"
        <5>1. respuestas \in Seq(Respuesta)
          BY <1>1 DEF TypeOK, Respuesta
        <5>2. 1 \in DOMAIN respuestas /\ Head(respuestas) = respuestas[1]
          BY <5>1, AlDesencolar
        <5>3. QED
          BY <3>1, <5>2 DEF PaginaPedida
      <4>3. QED
        BY <3>1, <4>1, <4>2
    <3>3. pc[PF(r)] \in {"espera", "pedir", "resp", "no_creado"}
      BY <1>1, <2>1, <2>2, ElDirigido
    <3>4. h # PF(r)
      <4>1. PF(r) \in DePageFault => pc[PF(r)] # "resp_indices"
        BY <3>3
      <4>2. QED
        BY <3>2, <3>3
    <3>5. pc'[PF(r)] = pc[PF(r)] /\ pc'[PF(r)] # "resp"
      BY <1>3, <3>1, <3>2, <3>4
    <3>6. Valido(r)'
      BY <1>2, <3>1 DEF Valido
    <3>7. QED
      BY <1>2, <1>5, <3>5, <3>6 DEF DirigidoIgual, SinNuevos
  <2>3. QED
    BY <1>1, <1>2, <2>1, <2>2, DirigirSigue
<1>10. QED
  BY <1>5, <1>6, <1>8, <1>9, IDuenioTras

-----------------------------------------------------------------------------
(* Ownership: pushes and pops of the queues. *)

\* A thread pushes r0 to a queue.
LEMMA EntraEnCola ==
    ASSUME TypeOK, NEW h \in Hilos, NEW l \in Lugares(h), Ir(h, l),
           ptr' = ptr, cola_dispositivo' = cola_dispositivo,
           pc[h] \in EnHilo(h) \/ l \notin EnHilo(h),
           NEW q0 \in Colas, NEW r0 \in Refs, cola' = [cola EXCEPT ![q0] = Append(@, r0)]
    PROVE  /\ SoloRecibe(EnLaCola(q0), r0)
           /\ SinRepetidos /\ ~EnCola(r0, cola[q0]) => SinRepetidos'
           /\ \A q \in Colas : q # q0 => cola'[q] = cola[q]
<1>1. /\ cola[q0] \in Seq(Refs) /\ cola'[q0] = Append(cola[q0], r0)
      /\ \A q \in Colas : q # q0 => cola'[q] = cola[q]
  BY DEF TypeOK
<1>2. /\ \A r : EnCola(r, cola'[q0]) <=> EnCola(r, cola[q0]) \/ r = r0
      /\ SinRepetir(cola[q0]) /\ ~EnCola(r0, cola[q0]) => SinRepetir(cola'[q0])
  BY <1>1, EnColaAppend
<1>3. SoloRecibe(EnLaCola(q0), r0)
  <2> SUFFICES ASSUME NEW r \in Refs \cup {NULO}, NEW s \in Sitios, Tiene(s, r)'
               PROVE  Tiene(s, r) \/ (s = EnLaCola(q0) /\ r = r0)
    BY DEF SoloRecibe
  <2>1. CASE s \in Hilos
    BY <2>1, TieneMueve, TieneDe
  <2>2. ASSUME NEW q \in Colas, s = EnLaCola(q) PROVE Tiene(s, r) \/ (s = EnLaCola(q0) /\ r = r0)
    <3>1. CASE q = q0
      BY <1>1, <1>2, <2>2, <3>1, TieneDe, TieneDespues
    <3>2. CASE q # q0
      BY <1>1, <2>2, <3>2, TieneColas
    <3>3. QED
      BY <3>1, <3>2
  <2>3. ASSUME NEW d \in Dispositivos, s = EnDispositivo(d) PROVE Tiene(s, r)
    BY <2>3, TieneColas
  <2>4. QED
    BY <2>1, <2>2, <2>3, SitiosDe
<1>4. SinRepetidos /\ ~EnCola(r0, cola[q0]) => SinRepetidos'
  BY <1>1, <1>2 DEF SinRepetidos, SinRepetir
<1>5. QED
  BY <1>1, <1>3, <1>4

\* A thread pops r0 from a queue.
Saca(h, l, q0, r0) ==
    /\ TypeOK /\ SinRepetidos /\ h \in Hilos /\ l \in Lugares(h) /\ pc[h] \notin EnHilo(h)
    /\ Ir(h, l) /\ cola_dispositivo' = cola_dispositivo
    /\ q0 \in Colas /\ cola[q0] # <<>> /\ cola' = [cola EXCEPT ![q0] = Tail(@)]
    /\ r0 = Head(cola[q0]) /\ \A k \in Hilos : k # h => ptr'[k] = ptr[k]
    /\ ptr'[h] = r0 \/ l \notin EnHilo(h)

\* The queue no longer holds r0, and nobody but the thread has got it.
Sacado(h, l, q0, r0) ==
    /\ r0 \in Refs /\ SoloRecibe(h, r0) /\ SinRepetidos'
    /\ l \notin EnHilo(h) => SinNuevos
    /\ EnLaCola(q0) \in Sitios /\ Tiene(EnLaCola(q0), r0) /\ ~Tiene(EnLaCola(q0), r0)'
    /\ \A q \in Colas : q # q0 => cola'[q] = cola[q]
    /\ \A q \in Colas : \A r : EnCola(r, cola'[q]) <=> EnCola(r, cola[q]) /\ (q # q0 \/ r # r0)

\* What a thread pops it has if the line it goes to says so, and it gives nothing else.
LEMMA SaleDeCola ==
    ASSUME NEW h, NEW l, NEW q0, NEW r0, Saca(h, l, q0, r0)
    PROVE  Sacado(h, l, q0, r0)
<1>0. /\ TypeOK /\ SinRepetidos /\ h \in Hilos /\ l \in Lugares(h) /\ pc[h] \notin EnHilo(h)
      /\ Ir(h, l) /\ cola_dispositivo' = cola_dispositivo
      /\ q0 \in Colas /\ cola[q0] # <<>> /\ cola' = [cola EXCEPT ![q0] = Tail(@)]
      /\ r0 = Head(cola[q0]) /\ \A k \in Hilos : k # h => ptr'[k] = ptr[k]
      /\ ptr'[h] = r0 \/ l \notin EnHilo(h)
  BY DEF Saca
<1>1. /\ cola[q0] \in Seq(Refs) /\ cola'[q0] = Tail(cola[q0]) /\ r0 \in Refs
      /\ \A q \in Colas : q # q0 => cola'[q] = cola[q]
  BY <1>0 DEF TypeOK
<1>2. /\ \A r : EnCola(r, cola[q0]) <=> EnCola(r, cola'[q0]) \/ r = r0
      /\ SinRepetir(cola'[q0]) /\ ~EnCola(r0, cola'[q0])
  BY <1>0, <1>1, EnColaTail DEF SinRepetidos
<1>3. \A r : Tiene(h, r)' <=> ptr'[h] = r /\ l \in EnHilo(h)
  BY <1>0, TieneMueve
<1>4. ASSUME NEW r \in Refs \cup {NULO}, NEW s \in Sitios, Tiene(s, r)'
      PROVE  Tiene(s, r) \/ (s = h /\ r = r0 /\ l \in EnHilo(h))
  <2>1. CASE s \in Hilos
    BY <1>0, <1>3, <1>4, <2>1, TieneMueve
  <2>2. ASSUME NEW q \in Colas, s = EnLaCola(q) PROVE Tiene(s, r)
    <3>1. CASE q = q0
      BY <1>0, <1>1, <1>2, <1>4, <2>2, <3>1, TieneDe, TieneDespues
    <3>2. CASE q # q0
      BY <1>0, <1>1, <1>4, <2>2, <3>2, TieneColas
    <3>3. QED
      BY <3>1, <3>2
  <2>3. ASSUME NEW d \in Dispositivos, s = EnDispositivo(d) PROVE Tiene(s, r)
    BY <1>0, <1>4, <2>3, TieneColas
  <2>4. QED
    BY <2>1, <2>2, <2>3, SitiosDe
<1>5. SoloRecibe(h, r0) /\ (l \notin EnHilo(h) => SinNuevos)
  BY <1>4 DEF SoloRecibe, SinNuevos
<1>6. SinRepetidos'
  BY <1>0, <1>1, <1>2 DEF SinRepetidos, SinRepetir
<1>7. EnLaCola(q0) \in Sitios /\ Tiene(EnLaCola(q0), r0) /\ ~Tiene(EnLaCola(q0), r0)'
  BY <1>0, <1>2, SitiosDe, TieneDe, TieneDespues
<1>8. \A q \in Colas : \A r : EnCola(r, cola'[q]) <=> EnCola(r, cola[q]) /\ (q # q0 \/ r # r0)
  BY <1>0, <1>1, <1>2
<1>9. QED
  BY <1>1, <1>5, <1>6, <1>7, <1>8 DEF Sacado

\* A step of a thread that is not the dispatcher's nor a page fault's, and leaves the
\* directed PCB alone.
LEMMA DirigirAjeno ==
    ASSUME TypeOK, PunterosFijos, UnSoloSitio, ADirigir, NEW h \in Hilos, NEW l \in Lugares(h),
           Ir(h, l), h # CortoPlazo, h \notin DePageFault,
           ptr'[CortoPlazo] = ptr[CortoPlazo], UNCHANGED <<pedidos, respuestas>>,
           \A r \in Refs : pc[CortoPlazo] = "dirigir" /\ r = ptr[CortoPlazo] =>
              /\ Valido(r)'
              /\ \A p \in Pids : p = r[1] =>
                    /\ pcb'[p].page_fault = pcb[p].page_fault
                    /\ pcb'[p].segmentation_fault = pcb[p].segmentation_fault
                    /\ pcb'[p].ultima = pcb[p].ultima
              /\ \A s \in Sitios : Tiene(s, r)' => \E t \in Sitios : Tiene(t, r)
    PROVE  ADirigir'
<1> SUFFICES ASSUME pc'[CortoPlazo] = "dirigir" PROVE ADirigir'
  BY DEF ADirigir
<1>1. pc[CortoPlazo] = "dirigir" /\ \A k \in Hilos : k # h => pc'[k] = pc[k]
  BY IrTipo, HilosFijos
<1>2. ASSUME NEW r \in Refs, r = ptr[CortoPlazo] PROVE DirigidoIgual(r)
  <2>1. /\ pc[PF(r)] = "resp" => PaginaPedida(r)
        /\ PF(r) \in Hilos /\ PF(r) \in DePageFault
    BY <1>1, <1>2, ElDirigido, HilosPorIndice
  <2>2. pc'[PF(r)] = pc[PF(r)]
    BY <1>1, <2>1
  <2>3. pc'[PF(r)] = "resp" => PaginaPedida(r)'
    BY <2>1, <2>2 DEF PaginaPedida
  <2>4. QED
    BY <1>1, <1>2, <2>2, <2>3 DEF DirigidoIgual
<1>3. QED
  BY <1>1, <1>2, DirigirSigue

-----------------------------------------------------------------------------
(* Ownership: the long term. *)

LEMMA AtenderNuevaConsolaDuenio ==
    ASSUME IInv, PunterosFijos, NewEnOrden, IDuenio, AtenderNuevaConsola
    PROVE  IDuenio'
<1>p. PICK p0 : p0 = pid_actual + 1
  OBVIOUS
<1>r. PICK r0 : r0 = <<p0, 0>>
  OBVIOUS
<1>1. /\ TypeOK /\ Posesion /\ Limpios /\ SocketTomado /\ ADirigir /\ SinUsoIndebido
      /\ UnSoloSitio /\ SinRepetidos /\ SoloValidos /\ PublicadoAparte /\ SinEstrenar
      /\ Conexiones \in Hilos /\ "post_new" \in Lugares(Conexiones) /\ Conexiones # CortoPlazo
      /\ Conexiones \notin DePageFault /\ "new" \in Colas
  BY DeIDuenio, HilosFijos, LugaresDe DEF IInv, Posesion, Colas
<1>2. p0 \in Pids /\ r0 \in Refs /\ pid_actual < p0
  <2>1. pid_actual \in Nat /\ pid_actual < MaxPid
    BY <1>1 DEF AtenderNuevaConsola, TypeOK
  <2>2. p0 \in 1..MaxPid /\ pid_actual < p0
    BY ONLY <1>p, <2>1, LimitesAssumption
  <2>3. r0 \in Refs
    BY ONLY <1>r, <2>2, LimitesAssumption DEF Refs, Pids
  <2> QED BY ONLY <2>2, <2>3 DEF Pids
<1>3. /\ Ir(Conexiones, "post_new") /\ pc[Conexiones] = "esperar_cliente"
      /\ cola' = [cola EXCEPT !["new"] = Append(@, r0)]
      /\ UNCHANGED <<cola_dispositivo, rafagas, ptr, cpu, falla>>
      /\ UNCHANGED <<conexion_memoria_mutex, pedidos, respuestas>>
  BY <1>p, <1>r DEF AtenderNuevaConsola, En, dispositivos, memoria
<1>4. /\ vida'[p0] = "viva" /\ SinFallo(pcb'[p0])
      /\ \A q \in Pids : q # p0 => vida'[q] = vida[q] /\ pcb'[q] = pcb[q]
  BY <1>p, <1>1, <1>2 DEF AtenderNuevaConsola, TypeOK, SinFallo, PcbNuevo
<1>5. vida[p0] = "sin_crear" /\ rafagas[p0] = 0
  BY <1>1, <1>2 DEF NewEnOrden, SinEstrenar
<1>6. r0[1] = p0 /\ r0[2] = 0
  BY <1>r
<1>7. \A s \in Sitios : ~Tiene(s, r0)
  BY <1>1, <1>2, <1>5, <1>6 DEF SoloValidos, Valido
<1>8. EnLaCola("new") \in Sitios /\ ~EnCola(r0, cola["new"])
  BY <1>1, <1>7, SitiosDe, TieneDe
<1>9. SoloRecibe(EnLaCola("new"), r0) /\ SinRepetidos' /\ \A q \in Colas : q # "new" => cola'[q] = cola[q]
  BY <1>1, <1>2, <1>3, <1>8, EntraEnCola, EnHiloDe
<1>10. UnSoloSitio'
  BY <1>1, <1>2, <1>7, <1>8, <1>9, UnSoloNuevo
<1>11. \A r \in Refs \cup {NULO} : Valido(r) => Valido(r)' /\ r[1] # p0 /\ r[1] \in Pids
  <2>1. ASSUME NEW r \in Refs \cup {NULO}, Valido(r)
        PROVE  Valido(r)' /\ r[1] # p0 /\ r[1] \in Pids
    <3>1. r[1] \in Pids /\ vida[r[1]] = "viva" /\ rafagas[r[1]] = r[2]
      BY <2>1 DEF Valido
    <3>2. r[1] # p0
      BY <1>5, <3>1
    <3>3. vida'[r[1]] = vida[r[1]] /\ rafagas' = rafagas
      BY <1>3, <1>4, <3>1, <3>2
    <3>4. QED
      BY <3>1, <3>2, <3>3 DEF Valido
  <2>2. QED
    BY <2>1
<1>12. Valido(r0)'
  BY <1>2, <1>3, <1>4, <1>5, <1>6 DEF Valido
<1>13. SoloValidos'
  <2>1. ASSUME NEW r \in Refs \cup {NULO}, NEW s \in Sitios, Tiene(s, r)' PROVE Valido(r)'
    <3>1. CASE r = r0
      BY <1>12, <3>1 DEF Valido
    <3>2. CASE Tiene(s, r)
      BY <1>1, <1>11, <2>1, <3>2 DEF SoloValidos
    <3>3. QED
      BY <1>9, <2>1, <3>1, <3>2 DEF SoloRecibe
  <2>2. QED
    BY <2>1 DEF SoloValidos
<1>14. pc'[Conexiones] = "post_new" /\ \A k \in Hilos : k # Conexiones => pc'[k] = pc[k]
  BY <1>1, <1>3, IrTipo
<1>15. \A k \in Hilos : pc'[k] = "limpiar" <=> pc[k] = "limpiar"
  BY <1>3, <1>14
<1>16. /\ cola'["rr"] = cola["rr"] /\ cola'["fifo"] = cola["fifo"]
       /\ \A r : EnReady(r)' <=> EnReady(r)
  <2>1. "rr" \in Colas /\ "fifo" \in Colas /\ "rr" # "new" /\ "fifo" # "new"
    BY DEF Colas
  <2>2. cola'["rr"] = cola["rr"] /\ cola'["fifo"] = cola["fifo"]
    <3>1. \A q \in Colas : q # "new" => cola'[q] = cola[q]
      BY <1>9
    <3>2. QED
      BY <2>1, <3>1
  <2>3. QED
    BY <2>2 DEF EnReady, EnCola
<1>17. PublicadoAparte'
  <2>1. pc'[CortoPlazo] = pc[CortoPlazo]
    BY <1>1, <1>14, HilosFijos
  <2>2. QED
    BY <1>1, <1>3, <1>15, <2>1, PublicadoSigue
<1>18. SinEstrenar'
  BY <1>1, <1>3, <1>4 DEF SinEstrenar
<1>19. SinFallosNuevos
  BY <1>4 DEF SinFallosNuevos
<1>20. Limpios'
  <2>1. pc'[CortoPlazo] = pc[CortoPlazo]
    BY <1>1, <1>14, HilosFijos
  <2>2. \A r \in Refs : EnReady(r)' => EnReady(r)
    BY <1>3, <1>15, <1>16
  <2>3. QED
    BY <1>1, <1>3, <1>19, <2>1, <2>2, LimpiosSigue
<1>21. SocketTomado' /\ SinUsoIndebido'
  BY <1>1, <1>3, SocketMueve DEF SinUsoIndebido
<1>22. ADirigir'
  <2>1. ASSUME NEW r \in Refs, pc[CortoPlazo] = "dirigir", r = ptr[CortoPlazo]
        PROVE  /\ Valido(r)' /\ r[1] # p0 /\ r # r0
    BY <1>1, <1>6, <1>11, <2>1, ElDirigido
  <2>2. ASSUME NEW r \in Refs, r # r0, NEW s \in Sitios, Tiene(s, r)' PROVE Tiene(s, r)
    BY <1>9, <2>2 DEF SoloRecibe
  <2>3. QED
    BY <1>1, <1>3, <1>4, <2>1, <2>2, DirigirAjeno
<1>23. QED
  BY <1>9, <1>10, <1>13, <1>17, <1>18, <1>20, <1>21, <1>22, IDuenioTras DEF Posesion

LEMMA SacarNewDuenio ==
    ASSUME IInv, PunterosFijos, IDuenio, SacarNew
    PROVE  IDuenio'
<1>1. /\ TypeOK /\ Posesion /\ Limpios /\ SocketTomado /\ ADirigir /\ SinUsoIndebido
      /\ UnSoloSitio /\ SinRepetidos /\ SoloValidos /\ PublicadoAparte /\ SinEstrenar
      /\ LargoPlazo \in Hilos /\ "pedir" \in Lugares(LargoPlazo) /\ LargoPlazo # CortoPlazo
      /\ LargoPlazo \notin DePageFault /\ "new" \in Colas /\ LargoPlazo \in Sitios
      /\ pc[LargoPlazo] = "sacar_new" /\ "sacar_new" \notin EnHilo(LargoPlazo)
  BY DeIDuenio, HilosFijos, LugaresDe, SitiosDe, EnHiloDe DEF IInv, Posesion, Colas, SacarNew, En
<1>2. CASE PopIndebido(cola["new"])
  <2>1. CASE cola["new"] = <<>> /\ Fallar("cola_vacia")
    BY <2>1, FallarDuenio
  <2>2. CASE cola["new"] # <<>> /\ ~Valido(Head(cola["new"]))
    <3>1. cola["new"] \in Seq(Refs) /\ Head(cola["new"]) \in Refs
      BY <1>1, <2>2 DEF TypeOK
    <3>2. Tiene(EnLaCola("new"), Head(cola["new"])) /\ EnLaCola("new") \in Sitios
      BY <1>1, <2>2, <3>1, EnColaTail, TieneDe, SitiosDe
    <3>3. QED
      BY <1>1, <2>2, <3>1, <3>2 DEF SoloValidos
  <2>3. QED
    BY <1>2, <2>1, <2>2 DEF PopIndebido
<1>3. CASE ~PopIndebido(cola["new"])
  <2>1. PICK r0 : r0 = Head(cola["new"])
    OBVIOUS
  <2>2. /\ cola["new"] # <<>> /\ Ir(LargoPlazo, "pedir") /\ ptr' = [ptr EXCEPT ![LargoPlazo] = r0]
        /\ cola' = [cola EXCEPT !["new"] = Tail(@)]
        /\ UNCHANGED <<cola_dispositivo, vida, rafagas, pcb, cpu, falla>>
        /\ UNCHANGED <<conexion_memoria_mutex, pedidos, respuestas>>
    BY <1>3, <2>1 DEF SacarNew, PopPosible, dispositivos, procesos, memoria, entorno
  <2>3. ptr'[LargoPlazo] = r0 /\ \A k \in Hilos : k # LargoPlazo => ptr'[k] = ptr[k]
    BY <1>1, <2>2 DEF TypeOK
  <2>4. /\ r0 \in Refs /\ SoloRecibe(LargoPlazo, r0) /\ SinRepetidos'
        /\ EnLaCola("new") \in Sitios /\ Tiene(EnLaCola("new"), r0) /\ ~Tiene(EnLaCola("new"), r0)'
        /\ \A q \in Colas : q # "new" => cola'[q] = cola[q]
    <3>1. /\ TypeOK /\ SinRepetidos /\ pc[LargoPlazo] \notin EnHilo(LargoPlazo)
          /\ LargoPlazo \in Hilos /\ "pedir" \in Lugares(LargoPlazo) /\ "new" \in Colas
      BY <1>1
    <3>2. /\ Ir(LargoPlazo, "pedir") /\ cola_dispositivo' = cola_dispositivo
          /\ cola["new"] # <<>> /\ cola' = [cola EXCEPT !["new"] = Tail(@)]
      BY ONLY <2>2
    <3>3. Saca(LargoPlazo, "pedir", "new", r0)
      BY ONLY <2>1, <2>3, <3>1, <3>2 DEF Saca
    <3>4. Sacado(LargoPlazo, "pedir", "new", r0)
      BY ONLY <3>3, SaleDeCola
    <3> QED BY ONLY <3>4 DEF Sacado
  <2>5. UnSoloSitio'
    BY <1>1, <2>4, UnSoloTraspaso
  <2>6. \A r : Valido(r)' <=> Valido(r)
    BY <2>2 DEF Valido
  <2>7. SoloValidos'
    <3>1. ASSUME NEW r \in Refs \cup {NULO}, NEW s \in Sitios, Tiene(s, r)' PROVE Valido(r)'
      BY <1>1, <2>4, <2>6, <3>1 DEF SoloRecibe, SoloValidos
    <3>2. QED
      BY <3>1 DEF SoloValidos
  <2>8. pc'[LargoPlazo] = "pedir" /\ \A k \in Hilos : k # LargoPlazo => pc'[k] = pc[k]
    BY <1>1, <2>2, IrTipo
  <2>9. cola'["rr"] = cola["rr"] /\ cola'["fifo"] = cola["fifo"]
    BY <2>4 DEF Colas
  <2>10. PublicadoAparte' /\ SinEstrenar'
    BY <1>1, <2>2, <2>3, <2>8, HilosFijos, PublicadoSigue DEF SinEstrenar
  <2>11. Limpios'
    <3>1. pc'[CortoPlazo] = pc[CortoPlazo] /\ ptr'[CortoPlazo] = ptr[CortoPlazo]
      BY <1>1, <2>3, <2>8, HilosFijos
    <3>2. \A r \in Refs : EnReady(r)' => EnReady(r)
      BY <1>1, <2>3, <2>8, <2>9 DEF EnReady, EnCola
    <3>3. SinFallosNuevos
      BY <2>2 DEF SinFallosNuevos
    <3>4. QED
      BY <1>1, <2>2, <3>1, <3>2, <3>3, LimpiosSigue
  <2>12. SocketTomado' /\ SinUsoIndebido'
    BY <1>1, <2>2, SocketMueve DEF SinUsoIndebido
  <2>13. ADirigir'
    <3>1. ASSUME NEW r \in Refs, pc[CortoPlazo] = "dirigir", r = ptr[CortoPlazo]
          PROVE  Valido(r)' /\ r # r0
      BY <1>1, <2>4, <2>6, <3>1, ElDirigido, EnReadyAjeno, TieneDe
    <3>2. ASSUME NEW r \in Refs, r # r0, NEW s \in Sitios, Tiene(s, r)' PROVE Tiene(s, r)
      BY <2>4, <3>2 DEF SoloRecibe
    <3>3. ptr'[CortoPlazo] = ptr[CortoPlazo]
      BY <1>1, <2>3, HilosFijos
    <3>4. QED
      BY <1>1, <2>2, <3>1, <3>2, <3>3, DirigirAjeno
  <2>14. QED
    BY <2>4, <2>5, <2>7, <2>10, <2>11, <2>12, <2>13, IDuenioTras DEF Posesion
<1>4. QED
  BY <1>2, <1>3

LEMMA NewAReadyDuenio ==
    ASSUME IEspera, PunterosFijos, IDuenio, Carreras = {}, NewAReady
    PROVE  IDuenio'
<1>1. /\ IInv /\ LargoPlazo \in Hilos /\ LargoPlazo \in Pasadores /\ LargoPlazo \notin DePageFault
      /\ {"espera_grado", "sacar_new", "resp_indices", "push_ready", "muerto"} \subseteq Lugares(LargoPlazo)
      /\ {"espera_new", "espera_grado", "sacar_new"} \cap EnHilo(LargoPlazo) = {}
  BY HilosFijos, LugaresDe, EnHiloDe DEF IEspera, Pasadores
<1>2. CASE EsperarNew
  BY <1>1, <1>2, EsperarDuenio DEF EsperarNew
<1>3. CASE EsperarGrado
  BY <1>1, <1>3, EsperarDuenio DEF EsperarGrado
<1>4. CASE SacarNew
  BY <1>1, <1>4, SacarNewDuenio
<1>5. CASE Pedir(LargoPlazo, "ESTRUCTURAS")
  BY <1>1, <1>5, PedirDuenio
<1>6. CASE RecibirEstructuras
  <2>1. CASE TramaCortada
    BY <2>1, FallarDuenio DEF TramaCortada
  <2>2. CASE Recibir(LargoPlazo, "resp_indices", conexion_memoria_mutex)
    BY <1>1, <1>6, <2>2, RecibirDuenio DEF RecibirEstructuras, En
  <2>3. CASE Recibir(LargoPlazo, "muerto", "libre")
    BY <1>1, <1>6, <2>3, RecibirDuenio DEF RecibirEstructuras, En
  <2>4. QED
    BY <1>6, <2>1, <2>2, <2>3 DEF RecibirEstructuras
<1>7. CASE RecibirIndices
  <2>1. CASE Head(respuestas).cod = "INDICES"
    BY <1>1, <1>7, <2>1, RecibirDuenio DEF RecibirIndices, En
  <2>2. CASE Head(respuestas).cod # "INDICES"
    BY <1>7, <2>2, FallarDuenio DEF RecibirIndices
  <2>3. QED
    BY <2>1, <2>2
<1>8. CASE PasarAReady(LargoPlazo)
  BY <1>1, <1>8, PasarAReadyDuenio
<1>9. QED
  BY <1>2, <1>3, <1>4, <1>5, <1>6, <1>7, <1>8 DEF NewAReady

-----------------------------------------------------------------------------
(* Ownership: a PCB that leaves the kernel. *)

\* The PCB that leaves was in one place, and is nowhere else.
LEMMA ValidosSin ==
    ASSUME SoloValidos, UnSoloSitio, SinNuevos, SinEstrenar,
           NEW r0 \in Refs, NEW s0 \in Sitios, Tiene(s0, r0), ~Tiene(s0, r0)',
           rafagas' = rafagas, NEW e, e # "sin_crear",
           \A q \in Pids : vida'[q] = IF q = r0[1] THEN e ELSE vida[q]
    PROVE  /\ SoloValidos' /\ UnSoloSitio' /\ SinEstrenar'
           /\ \A r \in Refs : Valido(r) /\ r # r0 => Valido(r)' /\ r[1] # r0[1]
<1>1. Valido(r0)
  BY DEF SoloValidos
<1>2. ASSUME NEW r \in Refs, Valido(r), r # r0 PROVE Valido(r)' /\ r[1] # r0[1]
  <2>1. r[1] # r0[1]
    BY <1>1, <1>2, ValidoUnico
  <2>2. QED
    BY <1>2, <2>1 DEF Valido
<1>3. ASSUME NEW r \in Refs \cup {NULO}, NEW s \in Sitios, Tiene(s, r)' PROVE Valido(r)'
  <2>1. Tiene(s, r) /\ Valido(r)
    BY <1>3 DEF SinNuevos, SoloValidos
  <2>2. r \in Refs
    BY <2>1 DEF Valido, NULO, Pids
  <2>3. r # r0
    <3>1. CASE s = s0
      <4>1. ASSUME NEW u, u = r0 PROVE ~Tiene(s, u)'
        BY <3>1, <4>1
      <4>2. QED
        BY <1>3, <4>1
    <3>2. CASE s # s0
      BY <2>1, <3>2 DEF UnSoloSitio
    <3>3. QED
      BY <3>1, <3>2
  <2>4. QED
    BY <1>2, <2>1, <2>2, <2>3
<1>4. SoloValidos'
  BY <1>3 DEF SoloValidos
<1>5. UnSoloSitio'
  BY UnSoloQuieto
<1>6. SinEstrenar'
  BY DEF SinEstrenar
<1>7. QED
  BY <1>2, <1>4, <1>5, <1>6

LEMMA SacarExitDuenio ==
    ASSUME IInv, PunterosFijos, IDuenio, SacarExit
    PROVE  IDuenio'
<1>1. /\ TypeOK /\ Posesion /\ Limpios /\ SocketTomado /\ ADirigir /\ SinUsoIndebido
      /\ UnSoloSitio /\ SinRepetidos /\ SoloValidos /\ PublicadoAparte /\ SinEstrenar
      /\ Rajar \in Hilos /\ "post_grado" \in Lugares(Rajar) /\ Rajar # CortoPlazo
      /\ Rajar \notin DePageFault /\ "exit" \in Colas /\ pc[Rajar] = "sacar_exit"
      /\ EnHilo(Rajar) = {}
  BY DeIDuenio, HilosFijos, LugaresDe, EnHiloDe DEF IInv, Posesion, Colas, SacarExit, En
<1>2. CASE PopIndebido(cola["exit"])
  <2>1. CASE cola["exit"] = <<>> /\ Fallar("cola_vacia")
    BY <2>1, FallarDuenio
  <2>2. CASE cola["exit"] # <<>> /\ ~Valido(Head(cola["exit"]))
    <3>1. cola["exit"] \in Seq(Refs) /\ Head(cola["exit"]) \in Refs
      BY <1>1, <2>2 DEF TypeOK
    <3>2. Tiene(EnLaCola("exit"), Head(cola["exit"])) /\ EnLaCola("exit") \in Sitios
      BY <1>1, <2>2, <3>1, EnColaTail, TieneDe, SitiosDe
    <3>3. QED
      BY <1>1, <2>2, <3>1, <3>2 DEF SoloValidos
  <2>3. QED
    BY <1>2, <2>1, <2>2 DEF PopIndebido
<1>3. CASE ~PopIndebido(cola["exit"])
  <2>1. PICK r0 : r0 = Head(cola["exit"])
    OBVIOUS
  <2>2. /\ cola["exit"] # <<>> /\ Ir(Rajar, "post_grado") /\ ptr' = ptr
        /\ cola' = [cola EXCEPT !["exit"] = Tail(@)]
        /\ vida' = [vida EXCEPT ![r0[1]] = "destruida"]
        /\ UNCHANGED <<cola_dispositivo, rafagas, pcb, cpu, falla>>
        /\ UNCHANGED <<conexion_memoria_mutex, pedidos, respuestas>>
    BY <1>3, <2>1 DEF SacarExit, PopPosible, dispositivos, memoria, entorno
  <2>3. /\ r0 \in Refs /\ SinNuevos /\ SinRepetidos'
        /\ EnLaCola("exit") \in Sitios /\ Tiene(EnLaCola("exit"), r0) /\ ~Tiene(EnLaCola("exit"), r0)'
        /\ \A q \in Colas : q # "exit" => cola'[q] = cola[q]
    <3>1. Saca(Rajar, "post_grado", "exit", r0)
      BY <1>1, <2>1, <2>2 DEF Saca
    <3>2. Sacado(Rajar, "post_grado", "exit", r0)
      BY ONLY <3>1, SaleDeCola
    <3> QED BY <1>1, <3>2 DEF Sacado
  <2>4. \A q \in Pids : vida'[q] = IF q = r0[1] THEN "destruida" ELSE vida[q]
    BY <1>1, <2>2 DEF TypeOK
  <2>5. /\ SoloValidos' /\ UnSoloSitio' /\ SinEstrenar'
        /\ \A r \in Refs : Valido(r) /\ r # r0 => Valido(r)' /\ r[1] # r0[1]
    BY <1>1, <2>2, <2>3, <2>4, ValidosSin
  <2>6. pc'[Rajar] = "post_grado" /\ \A k \in Hilos : k # Rajar => pc'[k] = pc[k]
    BY <1>1, <2>2, IrTipo
  <2>7. /\ cola'["rr"] = cola["rr"] /\ cola'["fifo"] = cola["fifo"]
        /\ \A r : EnReady(r)' <=> EnReady(r)
    <3>1. "rr" \in Colas /\ "fifo" \in Colas /\ "rr" # "exit" /\ "fifo" # "exit"
      BY DEF Colas
    <3>2. \A q \in Colas : q # "exit" => cola'[q] = cola[q]
      BY <2>3
    <3>3. cola'["rr"] = cola["rr"] /\ cola'["fifo"] = cola["fifo"]
      BY <3>1, <3>2
    <3>4. QED
      BY <3>3 DEF EnReady, EnCola
  <2>8. \A k \in Hilos : pc'[k] = "limpiar" <=> pc[k] = "limpiar"
    BY <1>1, <2>6
  <2>9. PublicadoAparte'
    <3>1. pc'[CortoPlazo] = pc[CortoPlazo]
      BY <1>1, <2>6, HilosFijos
    <3>2. QED
      BY <1>1, <2>2, <2>8, <3>1, PublicadoSigue
  <2>10. Limpios'
    <3>1. pc'[CortoPlazo] = pc[CortoPlazo]
      BY <1>1, <2>6, HilosFijos
    <3>2. \A r \in Refs : EnReady(r)' => EnReady(r)
      BY <2>2, <2>7, <2>8
    <3>3. SinFallosNuevos
      BY <2>2 DEF SinFallosNuevos
    <3>4. QED
      BY <1>1, <2>2, <3>1, <3>2, <3>3, LimpiosSigue
  <2>11. SocketTomado' /\ SinUsoIndebido'
    BY <1>1, <2>2, SocketMueve DEF SinUsoIndebido
  <2>12. ADirigir'
    <3>1. ASSUME NEW r \in Refs, pc[CortoPlazo] = "dirigir", r = ptr[CortoPlazo]
          PROVE  Valido(r)'
      <4>1. EnCola(r0, cola["exit"])
        BY <1>1, <2>3, TieneDe
      <4>2. r # r0 /\ Valido(r)
        BY <1>1, <3>1, <4>1, ElDirigido, EnReadyAjeno
      <4>3. QED
        BY <2>5, <4>2
    <3>2. \A r \in Refs : \A s \in Sitios : Tiene(s, r)' => Tiene(s, r)
      BY <2>3 DEF SinNuevos
    <3>3. QED
      BY <1>1, <2>2, <3>1, <3>2, DirigirAjeno
  <2>13. QED
    BY <2>3, <2>5, <2>9, <2>10, <2>11, <2>12, IDuenioTras DEF Posesion
<1>4. QED
  BY <1>2, <1>3

LEMMA RajarPcbDuenio ==
    ASSUME IInv, PunterosFijos, IDuenio, RajarPcb
    PROVE  IDuenio'
<1>1. /\ Rajar \in Hilos /\ Rajar \notin DePageFault
      /\ {"sacar_exit", "espera_finalizados"} \subseteq Lugares(Rajar) /\ EnHilo(Rajar) = {}
  BY HilosFijos, LugaresDe, EnHiloDe
<1>2. CASE EsperarFinalizados
  BY <1>1, <1>2, EsperarDuenio DEF EsperarFinalizados
<1>3. CASE SacarExit
  BY <1>3, SacarExitDuenio
<1>4. CASE AvisarGrado
  BY <1>1, <1>4, EsperarDuenio DEF AvisarGrado
<1>5. QED
  BY <1>2, <1>3, <1>4 DEF RajarPcb

-----------------------------------------------------------------------------
(* Ownership: the dispatcher takes a PCB and sends it. *)

LEMMA SacarReadyDuenio ==
    ASSUME IInv, PunterosFijos, IDuenio, Carreras = {},
           NEW lugar \in {"sacar_rr", "sacar_fifo"}, NEW q0 \in {"rr", "fifo"}, SacarReady(lugar, q0)
    PROVE  IDuenio'
<1>1. /\ TypeOK /\ Posesion /\ Limpios /\ SocketTomado /\ ADirigir /\ SinUsoIndebido
      /\ UnSoloSitio /\ SinRepetidos /\ SoloValidos /\ PublicadoAparte /\ SinEstrenar
      /\ CortoPlazo \in Hilos /\ "enviar" \in Lugares(CortoPlazo) /\ CortoPlazo \in Sitios
      /\ q0 \in Colas /\ pc[CortoPlazo] = lugar
      /\ "enviar" \in EnHilo(CortoPlazo) /\ lugar \notin EnHilo(CortoPlazo)
  BY DeIDuenio, HilosFijos, LugaresDe, EnHiloDe, SitiosDe DEF IInv, Posesion, Colas, SacarReady, En
<1>2. CASE PopIndebido(cola[q0])
  <2>1. CASE cola[q0] = <<>> /\ Fallar("cola_vacia")
    BY <2>1, FallarDuenio
  <2>2. CASE cola[q0] # <<>> /\ ~Valido(Head(cola[q0]))
    <3>1. cola[q0] \in Seq(Refs) /\ Head(cola[q0]) \in Refs
      BY <1>1, <2>2 DEF TypeOK
    <3>2. Tiene(EnLaCola(q0), Head(cola[q0])) /\ EnLaCola(q0) \in Sitios
      BY <1>1, <2>2, <3>1, EnColaTail, TieneDe, SitiosDe
    <3>3. QED
      BY <1>1, <2>2, <3>1, <3>2 DEF SoloValidos
  <2>3. QED
    BY <1>2, <2>1, <2>2 DEF PopIndebido
<1>3. CASE ~PopIndebido(cola[q0])
  <2>1. PICK r0 : r0 = Head(cola[q0])
    OBVIOUS
  <2>2. /\ cola[q0] # <<>> /\ Ir(CortoPlazo, "enviar") /\ ptr' = [ptr EXCEPT ![CortoPlazo] = r0]
        /\ cola' = [cola EXCEPT ![q0] = Tail(@)]
        /\ pcb' = [pcb EXCEPT ![r0[1]].estado = "EXEC"]
        /\ UNCHANGED <<cola_dispositivo, vida, rafagas, cpu, falla>>
        /\ UNCHANGED <<conexion_memoria_mutex, pedidos, respuestas>>
    BY <1>3, <2>1 DEF SacarReady, PopPosible, dispositivos, memoria, entorno
  <2>3. ptr'[CortoPlazo] = r0 /\ \A k \in Hilos : k # CortoPlazo => ptr'[k] = ptr[k]
    BY <1>1, <2>2 DEF TypeOK
  <2>4. /\ r0 \in Refs /\ SoloRecibe(CortoPlazo, r0) /\ SinRepetidos'
        /\ EnLaCola(q0) \in Sitios /\ Tiene(EnLaCola(q0), r0) /\ ~Tiene(EnLaCola(q0), r0)'
        /\ \A q \in Colas : \A r : EnCola(r, cola'[q]) <=> EnCola(r, cola[q]) /\ (q # q0 \/ r # r0)
    <3>1. /\ TypeOK /\ CortoPlazo \in Hilos /\ "enviar" \in Lugares(CortoPlazo)
          /\ Ir(CortoPlazo, "enviar") /\ SinRepetidos /\ pc[CortoPlazo] \notin EnHilo(CortoPlazo)
          /\ cola_dispositivo' = cola_dispositivo /\ q0 \in Colas /\ cola[q0] # <<>>
          /\ cola' = [cola EXCEPT ![q0] = Tail(@)] /\ r0 = Head(cola[q0])
          /\ \A k \in Hilos : k # CortoPlazo => ptr'[k] = ptr[k]
          /\ ptr'[CortoPlazo] = r0
      BY <1>1, <2>1, <2>2, <2>3
    <3>2. /\ r0 \in Refs /\ SoloRecibe(CortoPlazo, r0) /\ SinRepetidos'
          /\ EnLaCola(q0) \in Sitios /\ Tiene(EnLaCola(q0), r0) /\ ~Tiene(EnLaCola(q0), r0)'
      <4>1. Saca(CortoPlazo, "enviar", q0, r0)
        BY ONLY <3>1 DEF Saca
      <4>2. Sacado(CortoPlazo, "enviar", q0, r0)
        BY ONLY <4>1, SaleDeCola
      <4> QED BY ONLY <4>2 DEF Sacado
    <3>3. \A q \in Colas : \A r : EnCola(r, cola'[q]) <=> EnCola(r, cola[q]) /\ (q # q0 \/ r # r0)
      <4>1. /\ cola[q0] \in Seq(Refs) /\ cola'[q0] = Tail(cola[q0])
            /\ \A q \in Colas : q # q0 => cola'[q] = cola[q]
        BY <3>1 DEF TypeOK
      <4>2. /\ \A r : EnCola(r, cola[q0]) <=> EnCola(r, cola'[q0]) \/ r = r0
            /\ ~EnCola(r0, cola'[q0])
        BY <3>1, <4>1, EnColaTail DEF SinRepetidos
      <4>3. ASSUME NEW q \in Colas, NEW r
            PROVE  EnCola(r, cola'[q]) <=> EnCola(r, cola[q]) /\ (q # q0 \/ r # r0)
        BY <4>1, <4>2
      <4>4. QED
        BY <4>3
    <3>4. QED
      BY <3>2, <3>3
  <2>5. UnSoloSitio'
    BY <1>1, <2>4, UnSoloTraspaso
  <2>6. \A r : Valido(r)' <=> Valido(r)
    BY <2>2 DEF Valido
  <2>7. SoloValidos'
    <3>1. ASSUME NEW r \in Refs \cup {NULO}, NEW s \in Sitios, Tiene(s, r)' PROVE Valido(r)'
      BY <1>1, <2>4, <2>6, <3>1 DEF SoloRecibe, SoloValidos
    <3>2. QED
      BY <3>1 DEF SoloValidos
  <2>8. pc'[CortoPlazo] = "enviar" /\ \A k \in Hilos : k # CortoPlazo => pc'[k] = pc[k]
    BY <1>1, <2>2, IrTipo
  <2>9. \A r : EnReady(r)' => EnReady(r)
    <3>1. "rr" \in Colas /\ "fifo" \in Colas
      BY DEF Colas
    <3>2. \A r : EnReady(r)' <=> EnCola(r, cola'["rr"]) \/ EnCola(r, cola'["fifo"])
      BY DEF EnReady, EnCola
    <3>3. QED
      BY <2>4, <3>1, <3>2 DEF EnReady
  <2>11. EnReady(r0)
    <3>1. EnCola(r0, cola[q0])
      BY <1>1, <2>4, TieneDe
    <3>2. QED
      BY <3>1 DEF EnReady
  <2>12. \A k \in Hilos : pc'[k] = "limpiar" <=> pc[k] = "limpiar"
    BY <1>1, <2>8
  <2>13. PublicadoAparte'
    <3>1. \A k \in Hilos : pc'[k] = "limpiar" => pc[k] = "limpiar" /\ ptr'[k] = ptr[k]
      BY <2>3, <2>8, <2>12
    <3>2. QED
      BY <1>1, <2>2, <2>8, <3>1, PublicadoSigue
  <2>14. SinEstrenar'
    BY <1>1, <2>2 DEF SinEstrenar
  <2>15. MismasBanderas /\ SinFallosNuevos /\ r0[1] \in Pids
    <3>1. r0[1] \in Pids
      BY <2>4 DEF Refs
    <3>2. QED
      BY <1>1, <2>2, <3>1, EscribeBanderas
  <2>16. Limpios'
    <3>1. ASSUME NEW r \in Refs, EnReady(r)' PROVE SinFallo(pcb'[r[1]])
      <4>1. SinFallo(pcb[r[1]]) /\ r[1] \in Pids
        BY <1>1, <2>9, <3>1 DEF Limpios, Refs
      <4>2. QED
        BY <2>15, <4>1 DEF SinFallosNuevos
    <3>2. SinFallo(pcb[r0[1]])
      BY <1>1, <2>2, <2>4, <2>11 DEF Limpios
    <3>3. SinFallo(pcb'[ptr'[CortoPlazo][1]])
      BY <2>3, <2>15, <3>2 DEF SinFallosNuevos
    <3>4. /\ cpu'.fase = "ejecutando" => SinFallo(cpu'.pcb)
          /\ cpu'.fase = "lista" => Encaminable(cpu'.pcb)
      BY <1>1, <2>2 DEF Limpios
    <3>5. QED
      BY <3>1, <3>3, <3>4 DEF Limpios, SinFallo, Encaminable
  <2>17. SocketTomado' /\ SinUsoIndebido'
    BY <1>1, <2>2, SocketMueve DEF SinUsoIndebido
  <2>18. ADirigir'
    BY <2>8 DEF ADirigir
  <2>19. QED
    BY <2>4, <2>5, <2>7, <2>13, <2>14, <2>16, <2>17, <2>18, IDuenioTras DEF Posesion
<1>4. QED
  BY <1>2, <1>3

LEMMA EnviarPcbDuenio ==
    ASSUME IInv, PunterosFijos, IDuenio, EnviarPcb
    PROVE  IDuenio'
<1>1. /\ TypeOK /\ Posesion /\ Limpios /\ SocketTomado /\ ADirigir /\ SinUsoIndebido
      /\ UnSoloSitio /\ SoloValidos
      /\ CortoPlazo \in Hilos /\ "destruir" \in Lugares(CortoPlazo)
      /\ pc[CortoPlazo] = "enviar" /\ "enviar" \in EnHilo(CortoPlazo) /\ CortoPlazo \notin DePageFault
      /\ CortoPlazo # LargoPlazo
  BY DeIDuenio, HilosFijos, LugaresDe, EnHiloDe DEF IInv, Posesion, EnviarPcb, En
<1>2. Valido(ptr[CortoPlazo])
  BY <1>1, ElEnviado
<1>3. /\ Ir(CortoPlazo, "destruir") /\ cpu'.fase = "ejecutando" /\ cpu'.pcb = pcb[ptr[CortoPlazo][1]]
      /\ UNCHANGED <<cola, cola_dispositivo, vida, rafagas, ptr, pcb, falla>>
      /\ UNCHANGED <<conexion_memoria_mutex, pedidos, respuestas>>
  BY <1>2 DEF EnviarPcb, UsoTrasLiberar, dispositivos, procesos, memoria
<1>4. pc'[CortoPlazo] = "destruir" /\ \A k \in Hilos : k # CortoPlazo => pc'[k] = pc[k]
  BY <1>1, <1>3, IrTipo
<1>5. Posesion'
  BY <1>1, <1>3, PosesionMueve
<1>6. Limpios'
  <2>2. \A r \in Refs : EnReady(r)' <=> EnReady(r)
    BY <1>3 DEF EnReady, EnCola
  <2>3. \A r \in Refs : EnReady(r)' => SinFallo(pcb'[r[1]])
    BY <1>1, <1>3, <2>2 DEF Limpios
  <2>4. SinFallo(cpu'.pcb)
    BY <1>1, <1>3 DEF Limpios
  <2>5. QED
    BY <1>3, <1>4, <2>3, <2>4 DEF Limpios, SinFallo, Encaminable
<1>7. SocketTomado' /\ SinUsoIndebido'
  BY <1>1, <1>3, SocketMueve DEF SinUsoIndebido
<1>8. ADirigir'
  BY <1>4 DEF ADirigir
<1>9. QED
  BY <1>5, <1>6, <1>7, <1>8, IDuenioTras

LEMMA DestruirPcbDuenio ==
    ASSUME IInv, PunterosFijos, IDuenio, DestruirPcb
    PROVE  IDuenio'
<1>1. /\ TypeOK /\ Posesion /\ Limpios /\ SocketTomado /\ ADirigir /\ SinUsoIndebido
      /\ UnSoloSitio /\ SinRepetidos /\ SoloValidos /\ PublicadoAparte /\ SinEstrenar
      /\ CortoPlazo \in Hilos /\ "recibir" \in Lugares(CortoPlazo) /\ CortoPlazo \in Sitios
      /\ pc[CortoPlazo] = "destruir" /\ "recibir" \notin EnHilo(CortoPlazo)
      /\ CortoPlazo \notin DePageFault /\ CortoPlazo # LargoPlazo
  BY DeIDuenio, HilosFijos, LugaresDe, EnHiloDe, SitiosDe DEF IInv, Posesion, DestruirPcb, En
<1>2. Valido(ptr[CortoPlazo]) /\ Tiene(CortoPlazo, ptr[CortoPlazo]) /\ ptr[CortoPlazo] \in Refs
  BY <1>1, ElEnviado
<1>3. PICK r0 \in Refs : r0 = ptr[CortoPlazo]
  BY <1>2
<1>4. /\ Ir(CortoPlazo, "recibir") /\ vida' = [vida EXCEPT ![r0[1]] = "en_cpu"]
      /\ UNCHANGED <<cola, cola_dispositivo, rafagas, ptr, pcb, cpu, falla>>
      /\ UNCHANGED <<conexion_memoria_mutex, pedidos, respuestas>>
  BY <1>2, <1>3 DEF DestruirPcb, UsoTrasLiberar, dispositivos, memoria, entorno
<1>5. pc'[CortoPlazo] = "recibir" /\ \A k \in Hilos : k # CortoPlazo => pc'[k] = pc[k]
  BY <1>1, <1>4, IrTipo
<1>6. SinNuevos /\ Tiene(CortoPlazo, r0) /\ ~Tiene(CortoPlazo, r0)'
  BY <1>1, <1>2, <1>3, <1>4, SitiosDe, TieneMueve, TieneColas DEF SinNuevos
<1>7. \A q \in Pids : vida'[q] = IF q = r0[1] THEN "en_cpu" ELSE vida[q]
  BY <1>1, <1>4 DEF TypeOK
<1>8. SoloValidos' /\ UnSoloSitio' /\ SinEstrenar'
  BY <1>1, <1>4, <1>6, <1>7, ValidosSin
<1>9. \A k \in Hilos : pc'[k] = "limpiar" <=> pc[k] = "limpiar"
  BY <1>1, <1>5
<1>10. SinRepetidos' /\ PublicadoAparte'
  BY <1>1, <1>4, <1>5, <1>9, PublicadoSigue DEF SinRepetidos
<1>11. Limpios'
  <2>1. SinFallosNuevos
    BY <1>4 DEF SinFallosNuevos
  <2>2. \A r \in Refs : EnReady(r)' => EnReady(r)
    BY <1>4, <1>9 DEF EnReady, EnCola
  <2>3. QED
    BY <1>1, <1>4, <1>5, <2>1, <2>2, LimpiosSigue
<1>12. SocketTomado' /\ SinUsoIndebido'
  BY <1>1, <1>4, SocketMueve DEF SinUsoIndebido
<1>13. ADirigir'
  BY <1>5 DEF ADirigir
<1>14. QED
  BY <1>8, <1>10, <1>11, <1>12, <1>13, IDuenioTras DEF Posesion

LEMMA RecibirPcbDuenio ==
    ASSUME IInv, PunterosFijos, PcbEnCpu, IDuenio, RecibirPcb
    PROVE  IDuenio'
<1>1. /\ TypeOK /\ Posesion /\ Limpios /\ SocketTomado /\ ADirigir /\ SinUsoIndebido
      /\ UnSoloSitio /\ SinRepetidos /\ SoloValidos /\ PublicadoAparte /\ SinEstrenar
      /\ CortoPlazo \in Hilos /\ CortoPlazo \notin DePageFault /\ CortoPlazo # LargoPlazo
      /\ pc[CortoPlazo] = "recibir"
  BY DeIDuenio, HilosFijos DEF IInv, Posesion, RecibirPcb, En
<1>2. PICK p0 \in Pids, r0 \in Refs :
              /\ p0 = cpu.pid /\ r0 = <<p0, rafagas[p0] + 1>> /\ r0[1] = p0 /\ r0[2] = rafagas[p0] + 1
              /\ cpu.fase = "lista" /\ falla = "ninguna"
              /\ pc[CortoPlazo] = "recibir" /\ pc[PF(r0)] = "no_creado" /\ pc[IO(r0)] = "no_creado"
              /\ pc'[CortoPlazo] = "dirigir"
              /\ pc'[PF(r0)] = IF cpu.pcb.page_fault THEN "espera" ELSE "no_creado"
              /\ \A h \in Hilos : h # CortoPlazo /\ h # PF(r0) => pc'[h] = pc[h]
              /\ ptr'[CortoPlazo] = r0 /\ \A h \in Hilos : h # CortoPlazo => ptr'[h] = ptr[h]
              /\ vida'[p0] = "viva" /\ \A q \in Pids : q # p0 => vida'[q] = vida[q]
              /\ rafagas'[p0] = r0[2] /\ \A q \in Pids : q # p0 => rafagas'[q] = rafagas[q]
              /\ cpu'.fase = "libre" /\ cpu'.pid = p0
              /\ \A q \in Pids : q # p0 => pcb'[q] = pcb[q]
              /\ pcb'[p0].page_fault = cpu.pcb.page_fault
              /\ pcb'[p0].segmentation_fault = cpu.pcb.segmentation_fault
              /\ pcb'[p0].ultima = cpu.pcb.ultima
              /\ UNCHANGED <<cola, dispositivos, memoria, falla>>
  BY RecibirPcbDe
<1>3. UNCHANGED <<cola_dispositivo, conexion_memoria_mutex, pedidos, respuestas>>
  BY <1>2 DEF dispositivos, memoria
<1>4. PF(r0) \in Hilos /\ PF(r0) \in DePageFault /\ PF(r0) \in Sitios /\ PF(r0) # CortoPlazo
  BY <1>1, HilosPorIndice, SitiosDe
<1>5. \A r \in Refs \cup {NULO} : Valido(r) => r[1] # p0 /\ r[1] \in Pids
  BY <1>1, <1>2 DEF PcbEnCpu, Valido
<1>6. \A r \in Refs \cup {NULO} : \A s \in Sitios : Tiene(s, r) => r[1] # p0 /\ r[1] \in Pids /\ Valido(r)
  BY <1>1, <1>5 DEF SoloValidos
<1>7. ASSUME NEW r \in Refs \cup {NULO}, NEW s \in Sitios, Tiene(s, r)'
      PROVE  Tiene(s, r) \/ (s = PF(r0) /\ r = r0 /\ cpu.pcb.page_fault)
  <2>1. CASE s \in Hilos
    <3>1. ptr'[s] = r /\ pc'[s] \in EnHilo(s)
      BY <1>7, <2>1, TieneDespues
    <3>2. CASE s = CortoPlazo
      BY <1>2, <3>1, <3>2, EnHiloDe
    <3>3. CASE s = PF(r0)
      <4>1. ptr'[s] = r0
        BY <1>2, <1>4, <3>3 DEF PunterosFijos
      <4>2. cpu.pcb.page_fault
        BY <1>2, <1>4, <3>1, <3>3, EnHiloDe
      <4>3. QED
        BY <3>1, <3>3, <4>1, <4>2
    <3>4. CASE s # CortoPlazo /\ s # PF(r0)
      BY <1>2, <2>1, <3>1, <3>4, TieneDe
    <3>5. QED
      BY <3>2, <3>3, <3>4
  <2>2. ASSUME NEW q \in Colas, s = EnLaCola(q) PROVE Tiene(s, r)
    BY <1>2, <1>7, <2>2, TieneColas
  <2>3. ASSUME NEW d \in Dispositivos, s = EnDispositivo(d) PROVE Tiene(s, r)
    BY <1>3, <1>7, <2>3, TieneColas
  <2>4. QED
    BY <2>1, <2>2, <2>3, SitiosDe
<1>8. SoloRecibe(PF(r0), r0) /\ \A s \in Sitios : ~Tiene(s, r0)
  BY <1>2, <1>6, <1>7 DEF SoloRecibe
<1>9. UnSoloSitio'
  BY <1>1, <1>4, <1>8, UnSoloNuevo
<1>10. \A r \in Refs \cup {NULO} : Valido(r) => Valido(r)'
  <2>1. ASSUME NEW r \in Refs \cup {NULO}, Valido(r) PROVE Valido(r)'
    <3>1. r[1] # p0 /\ r[1] \in Pids
      BY <1>5, <2>1
    <3>2. vida'[r[1]] = vida[r[1]] /\ rafagas'[r[1]] = rafagas[r[1]]
      BY <1>2, <3>1
    <3>3. QED
      BY <2>1, <3>2 DEF Valido
  <2>2. QED
    BY <2>1
<1>11. Valido(r0)'
  BY <1>2 DEF Valido
<1>12. SoloValidos'
  <2>1. ASSUME NEW r \in Refs \cup {NULO}, NEW s \in Sitios, Tiene(s, r)' PROVE Valido(r)'
    <3>1. CASE r = r0
      BY <1>11, <3>1
    <3>2. CASE Tiene(s, r)
      BY <1>6, <1>10, <3>2
    <3>3. QED
      BY <1>7, <2>1, <3>1, <3>2
  <2>2. QED
    BY <2>1 DEF SoloValidos
<1>13. \A k \in Hilos : pc'[k] = "limpiar" <=> pc[k] = "limpiar" /\ k # CortoPlazo
  BY <1>1, <1>2
<1>14. \A r : EnReady(r)' <=> EnReady(r)
  BY <1>2 DEF EnReady, EnCola
<1>15. SinRepetidos' /\ PublicadoAparte' /\ SinEstrenar'
  <2>1. PublicadoAparte'
    <3>1. ASSUME NEW k \in Hilos, pc'[k] = "limpiar"
          PROVE  /\ ptr'[k] \in Refs /\ ptr'[k][2] <= rafagas'[ptr'[k][1]]
                 /\ ptr'[k] # ptr'[CortoPlazo]
      <4>1. PICK r \in Refs : r = ptr[k]
        BY <1>1, <1>13, <3>1 DEF PublicadoAparte
      <4>2. r[2] <= rafagas[r[1]] /\ ptr'[k] = r /\ r[1] \in Pids
        BY <1>1, <1>2, <1>13, <3>1, <4>1 DEF PublicadoAparte, Refs
      <4>3. rafagas[p0] \in Nat /\ r[2] \in Nat
        BY <1>1, <1>2 DEF TypeOK, Refs
      <4>4. r[2] <= rafagas'[r[1]] /\ r # r0
        BY <1>2, <4>2, <4>3
      <4>5. QED
        BY <1>2, <4>2, <4>4
    <3>2. QED
      BY <3>1 DEF PublicadoAparte
  <2>2. SinRepetidos'
    BY <1>1, <1>2, <1>3 DEF SinRepetidos
  <2>3. SinEstrenar'
    BY <1>1, <1>2 DEF SinEstrenar
  <2>4. QED
    BY <2>1, <2>2, <2>3
<1>16. Limpios'
  <2>1. ASSUME NEW r \in Refs, EnReady(r)' PROVE SinFallo(pcb'[r[1]])
    <3>1. EnReady(r) /\ Valido(r)
      BY <1>1, <1>14, <2>1, EnReadyValido
    <3>2. r[1] # p0 /\ r[1] \in Pids
      BY <1>5, <3>1
    <3>4. SinFallo(pcb[r[1]])
      BY <1>1, <3>1 DEF Limpios
    <3>5. QED
      BY <1>2, <3>2, <3>4
  <2>2. QED
    BY <1>2, <2>1 DEF Limpios, SinFallo
<1>17. SocketTomado'
  <2>1. \A k \in Hilos : EnElSocket(k)' => EnElSocket(k)
    BY <1>2, <1>4 DEF EnElSocket
  <2>2. QED
    BY <1>1, <1>3, <2>1 DEF SocketTomado
<1>18. ADirigir'
  <2>1. Encaminable(cpu.pcb)
    BY <1>1, <1>2 DEF Limpios
  <2>2. Encaminable(pcb'[p0])
    BY <1>2, <2>1 DEF Encaminable, SinFallo
  <2>3. pcb'[p0].page_fault => pc'[PF(r0)] = "espera"
    BY <1>2
  <2>4. ~pcb'[p0].page_fault => pc'[PF(r0)] = "no_creado" /\ \A s \in Sitios : ~Tiene(s, r0)'
    <3>1. SUFFICES ASSUME ~pcb'[p0].page_fault
                   PROVE  pc'[PF(r0)] = "no_creado" /\ \A s \in Sitios : ~Tiene(s, r0)'
      OBVIOUS
    <3>2. ~cpu.pcb.page_fault
      BY <1>2, <3>1
    <3>3. \A s \in Sitios : ~Tiene(s, r0)'
      BY <1>7, <1>8, <3>2
    <3>4. QED
      BY <1>2, <3>2, <3>3
  <2>5. ASSUME NEW u, u = r0, NEW v, v = pcb'[p0]
        PROVE  /\ Valido(u)' /\ Encaminable(v)
               /\ v.page_fault => pc'[PF(u)] \in {"espera", "pedir", "resp"} /\ PaginaPedida(u)'
               /\ ~v.page_fault => pc'[PF(u)] = "no_creado" /\ \A s \in Sitios : ~Tiene(s, u)'
    <3>1. pc'[PF(u)] = "espera" => PaginaPedida(u)'
      BY DEF PaginaPedida
    <3>2. QED
      BY <1>11, <2>2, <2>3, <2>4, <2>5, <3>1
  <2>6. ptr'[CortoPlazo] = r0 /\ ptr'[CortoPlazo][1] = p0
    BY <1>2
  <2>7. QED
    BY <2>5, <2>6 DEF ADirigir, Valido, Encaminable, SinFallo, PaginaPedida, Tiene
<1>19. SinUsoIndebido'
  BY <1>1, <1>2 DEF SinUsoIndebido
<1>20. QED
  BY <1>9, <1>12, <1>15, <1>16, <1>17, <1>18, <1>19, IDuenioTras DEF Posesion

-----------------------------------------------------------------------------
(* Ownership: the dispatcher directs a PCB. *)

\* A PCB without a page fault, which nobody has, goes to the place s1.
LEMMA DirigidoPasa ==
    ASSUME IInv, PunterosFijos, IDuenio, pc[CortoPlazo] = "dirigir",
           NEW r0 \in Refs, r0 = ptr[CortoPlazo], ~pcb[r0[1]].page_fault,
           NEW s1 \in Sitios, SoloRecibe(s1, r0), SinRepetidos', MismasBanderas,
           UNCHANGED <<vida, rafagas, ptr, cpu, falla, conexion_memoria_mutex>>,
           pc'[CortoPlazo] \notin {"enviar", "dirigir"},
           \A k \in Hilos : pc'[k] = "limpiar" <=> pc[k] = "limpiar",
           \A k \in Hilos : pc'[k] \in {"resp", "resp_indices"} => pc'[k] = pc[k] \/ k = CortoPlazo,
           cola'["rr"] = cola["rr"], cola'["fifo"] = cola["fifo"]
    PROVE  IDuenio'
<1>1. /\ TypeOK /\ Posesion /\ Limpios /\ SocketTomado /\ ADirigir /\ SinUsoIndebido
      /\ UnSoloSitio /\ SoloValidos /\ PublicadoAparte /\ SinEstrenar
      /\ CortoPlazo \in Hilos /\ CortoPlazo \notin DePageFault /\ CortoPlazo # LargoPlazo
  BY DeIDuenio, HilosFijos DEF IInv, Posesion
<1>2. Valido(r0) /\ \A s \in Sitios : ~Tiene(s, r0)
  BY <1>1 DEF ADirigir
<1>3. UnSoloSitio'
  BY <1>1, <1>2, UnSoloNuevo
<1>4. \A r : Valido(r)' <=> Valido(r)
  BY DEF Valido
<1>5. SoloValidos'
  <2>1. ASSUME NEW r \in Refs \cup {NULO}, NEW s \in Sitios, Tiene(s, r)' PROVE Valido(r)'
    BY <1>1, <1>2, <1>4, <2>1 DEF SoloRecibe, SoloValidos
  <2>2. QED
    BY <2>1 DEF SoloValidos
<1>6. \A r : EnReady(r)' <=> EnReady(r)
  BY DEF EnReady, EnCola
<1>7. PublicadoAparte' /\ SinEstrenar'
  BY <1>1, PublicadoSigue DEF SinEstrenar
<1>8. SinFallosNuevos
  BY DEF MismasBanderas, SinFallosNuevos, SinFallo
<1>9. Limpios'
  <2>1. \A r \in Refs : EnReady(r)' => EnReady(r)
    BY <1>6
  <2>2. QED
    BY <1>1, <1>8, <2>1, LimpiosSigue
<1>10. SocketTomado'
  <2>1. \A k \in Hilos : EnElSocket(k)' => EnElSocket(k)
    BY <1>1 DEF EnElSocket
  <2>2. QED
    BY <1>1, <2>1 DEF SocketTomado
<1>11. ADirigir' /\ SinUsoIndebido'
  BY <1>1 DEF ADirigir, SinUsoIndebido
<1>12. QED
  BY <1>3, <1>5, <1>7, <1>9, <1>10, <1>11, IDuenioTras DEF Posesion

LEMMA FinalizacionDuenio ==
    ASSUME IInv, PunterosFijos, IDuenio, pc[CortoPlazo] = "dirigir",
           NEW r0 \in Refs, r0 = ptr[CortoPlazo], ~pcb[r0[1]].page_fault,
           SolicitarFinalizacion(r0)
    PROVE  IDuenio'
<1>1. /\ TypeOK /\ ADirigir /\ SinRepetidos
      /\ CortoPlazo \in Hilos /\ "resp_liberar" \in Lugares(CortoPlazo) /\ "exit" \in Colas
      /\ "resp_liberar" \notin EnHilo(CortoPlazo) /\ r0[1] \in Pids
  BY DeIDuenio, HilosFijos, LugaresDe, EnHiloDe DEF IInv, Posesion, Colas, Refs
<1>2. /\ Ir(CortoPlazo, "resp_liberar") /\ cola' = [cola EXCEPT !["exit"] = Append(@, r0)]
      /\ pcb' = [pcb EXCEPT ![r0[1]].estado = "FINISH_EXIT"]
      /\ UNCHANGED <<cola_dispositivo, vida, rafagas, ptr, cpu, falla, conexion_memoria_mutex>>
  BY DEF SolicitarFinalizacion, dispositivos, entorno
<1>3. EnLaCola("exit") \in Sitios /\ ~EnCola(r0, cola["exit"])
  <2>1. EnLaCola("exit") \in Sitios
    BY <1>1, SitiosDe
  <2>2. ~Tiene(EnLaCola("exit"), r0)
    BY <1>1, <2>1 DEF ADirigir
  <2>3. QED
    BY <1>1, <2>1, <2>2, TieneDe
<1>4. /\ SoloRecibe(EnLaCola("exit"), r0) /\ SinRepetidos'
      /\ \A q \in Colas : q # "exit" => cola'[q] = cola[q]
  BY <1>1, <1>2, <1>3, EntraEnCola
<1>5. cola'["rr"] = cola["rr"] /\ cola'["fifo"] = cola["fifo"]
  <2>1. "rr" \in Colas /\ "fifo" \in Colas /\ "rr" # "exit" /\ "fifo" # "exit"
    BY DEF Colas
  <2>2. QED
    BY <1>4, <2>1
<1>6. pc'[CortoPlazo] = "resp_liberar" /\ \A k \in Hilos : k # CortoPlazo => pc'[k] = pc[k]
  BY <1>1, <1>2, IrTipo
<1>7. MismasBanderas
  BY <1>1, <1>2, EscribeBanderas
<1>8. /\ \A k \in Hilos : pc'[k] = "limpiar" <=> pc[k] = "limpiar"
      /\ \A k \in Hilos : pc'[k] \in {"resp", "resp_indices"} => pc'[k] = pc[k] \/ k = CortoPlazo
  BY <1>6
<1>9. QED
  BY <1>1, <1>2, <1>3, <1>4, <1>5, <1>6, <1>7, <1>8, DirigidoPasa

\* A thread queues r0 for a device.
LEMMA EntraEnDispositivo ==
    ASSUME TypeOK, NEW h \in Hilos, NEW l \in Lugares(h), Ir(h, l),
           ptr' = ptr, cola' = cola, pc[h] \in EnHilo(h) \/ l \notin EnHilo(h),
           NEW d0 \in Dispositivos, NEW r0 \in Refs,
           cola_dispositivo' = [cola_dispositivo EXCEPT ![d0] = Append(@, r0)]
    PROVE  /\ SoloRecibe(EnDispositivo(d0), r0)
           /\ SinRepetidos /\ ~EnCola(r0, cola_dispositivo[d0]) => SinRepetidos'
<1>1. /\ cola_dispositivo[d0] \in Seq(Refs) /\ cola_dispositivo'[d0] = Append(cola_dispositivo[d0], r0)
      /\ \A d \in Dispositivos : d # d0 => cola_dispositivo'[d] = cola_dispositivo[d]
  BY DEF TypeOK
<1>2. /\ \A r : EnCola(r, cola_dispositivo'[d0]) <=> EnCola(r, cola_dispositivo[d0]) \/ r = r0
      /\ SinRepetir(cola_dispositivo[d0]) /\ ~EnCola(r0, cola_dispositivo[d0])
            => SinRepetir(cola_dispositivo'[d0])
  BY <1>1, EnColaAppend
<1>3. SoloRecibe(EnDispositivo(d0), r0)
  <2> SUFFICES ASSUME NEW r \in Refs \cup {NULO}, NEW s \in Sitios, Tiene(s, r)'
               PROVE  Tiene(s, r) \/ (s = EnDispositivo(d0) /\ r = r0)
    BY DEF SoloRecibe
  <2>1. CASE s \in Hilos
    BY <2>1, TieneMueve, TieneDe
  <2>2. ASSUME NEW q \in Colas, s = EnLaCola(q) PROVE Tiene(s, r)
    BY <2>2, TieneColas
  <2>3. ASSUME NEW d \in Dispositivos, s = EnDispositivo(d)
        PROVE  Tiene(s, r) \/ (s = EnDispositivo(d0) /\ r = r0)
    <3>1. CASE d = d0
      BY <1>1, <1>2, <2>3, <3>1, TieneDe, TieneDespues
    <3>2. CASE d # d0
      BY <1>1, <2>3, <3>2, TieneColas
    <3>3. QED
      BY <3>1, <3>2
  <2>4. QED
    BY <2>1, <2>2, <2>3, SitiosDe
<1>4. SinRepetidos /\ ~EnCola(r0, cola_dispositivo[d0]) => SinRepetidos'
  BY <1>1, <1>2 DEF SinRepetidos, SinRepetir
<1>5. QED
  BY <1>3, <1>4

LEMMA SolicitarIODuenio ==
    ASSUME IInv, PunterosFijos, IDuenio, pc[CortoPlazo] = "dirigir",
           NEW r0 \in Refs, r0 = ptr[CortoPlazo], ~pcb[r0[1]].page_fault,
           SolicitarIO(r0)
    PROVE  IDuenio'
<1>1. /\ TypeOK /\ ADirigir /\ SinRepetidos
      /\ CortoPlazo \in Hilos /\ "espera_ready" \in Lugares(CortoPlazo)
      /\ "espera_ready" \notin EnHilo(CortoPlazo) /\ r0[1] \in Pids
      /\ IO(r0) \in Hilos /\ IO(r0) \in DeConsola /\ IO(r0) # CortoPlazo /\ pc[IO(r0)] = "no_creado"
      /\ IO(r0) \in Sitios /\ \A s \in Sitios : ~Tiene(s, r0)
  BY DeIDuenio, HilosFijos, HilosPorIndice, LugaresDe, EnHiloDe, SitiosDe
     DEF IInv, Posesion, Refs, Referencias, ADirigir
<1>2. /\ pcb' = [pcb EXCEPT ![r0[1]].estado = "BLOCK"]
      /\ UNCHANGED <<cola, vida, rafagas, ptr, cpu, falla, conexion_memoria_mutex>>
  BY DEF SolicitarIO, memoria, entorno
<1>3. MismasBanderas
  BY <1>1, <1>2, EscribeBanderas
<1>4. CASE /\ pc' = [pc EXCEPT ![CortoPlazo] = "espera_ready", ![IO(r0)] = "solicitud"]
           /\ UNCHANGED dispositivos
  <2>1. /\ pc'[CortoPlazo] = "espera_ready" /\ pc'[IO(r0)] = "solicitud"
        /\ \A k \in Hilos : k # CortoPlazo /\ k # IO(r0) => pc'[k] = pc[k]
        /\ cola_dispositivo' = cola_dispositivo
    BY <1>1, <1>4 DEF TypeOK, dispositivos
  <2>2. SoloRecibe(IO(r0), r0)
    <3> SUFFICES ASSUME NEW r \in Refs \cup {NULO}, NEW s \in Sitios, Tiene(s, r)'
                 PROVE  Tiene(s, r) \/ (s = IO(r0) /\ r = r0)
      BY DEF SoloRecibe
    <3>1. CASE s \in Hilos
      <4>1. ptr'[s] = r /\ pc'[s] \in EnHilo(s)
        BY <3>1, TieneDespues
      <4>2. CASE s = CortoPlazo
        BY <1>1, <2>1, <4>1, <4>2
      <4>3. CASE s = IO(r0)
        BY <1>2, <4>1, <4>3 DEF PunterosFijos
      <4>4. CASE s # CortoPlazo /\ s # IO(r0)
        BY <1>2, <2>1, <3>1, <4>1, <4>4, TieneDe
      <4>5. QED
        BY <4>2, <4>3, <4>4
    <3>2. ASSUME NEW q \in Colas, s = EnLaCola(q) PROVE Tiene(s, r)
      BY <1>2, <3>2, TieneColas
    <3>3. ASSUME NEW d \in Dispositivos, s = EnDispositivo(d) PROVE Tiene(s, r)
      BY <2>1, <3>3, TieneColas
    <3>4. QED
      BY <3>1, <3>2, <3>3, SitiosDe
  <2>3. SinRepetidos'
    BY <1>1, <1>2, <2>1 DEF SinRepetidos
  <2>4. /\ \A k \in Hilos : pc'[k] = "limpiar" <=> pc[k] = "limpiar"
        /\ \A k \in Hilos : pc'[k] \in {"resp", "resp_indices"} => pc'[k] = pc[k] \/ k = CortoPlazo
    BY <1>1, <2>1
  <2>5. QED
    BY <1>1, <1>2, <1>3, <2>1, <2>2, <2>3, <2>4, DirigidoPasa
<1>5. ASSUME NEW d0 \in Dispositivos,
             cola_dispositivo' = [cola_dispositivo EXCEPT ![d0] = Append(@, r0)],
             Ir(CortoPlazo, "espera_ready")
      PROVE  IDuenio'
  <2>1. EnDispositivo(d0) \in Sitios /\ ~EnCola(r0, cola_dispositivo[d0])
    BY <1>1, SitiosDe, TieneDe
  <2>2. SoloRecibe(EnDispositivo(d0), r0) /\ SinRepetidos'
    BY <1>1, <1>2, <1>5, <2>1, EntraEnDispositivo
  <2>3. pc'[CortoPlazo] = "espera_ready" /\ \A k \in Hilos : k # CortoPlazo => pc'[k] = pc[k]
    BY <1>1, <1>5, IrTipo
  <2>4. /\ \A k \in Hilos : pc'[k] = "limpiar" <=> pc[k] = "limpiar"
        /\ \A k \in Hilos : pc'[k] \in {"resp", "resp_indices"} => pc'[k] = pc[k] \/ k = CortoPlazo
    BY <2>3
  <2>5. QED
    BY <1>1, <1>2, <1>3, <2>1, <2>2, <2>3, <2>4, DirigidoPasa
<1>6. QED
  <2>1. Dispositivo(pcb[r0[1]].ultima) \in Dispositivos
    BY DispositivoTipo
  <2>2. QED
    BY <1>4, <1>5, <2>1 DEF SolicitarIO

LEMMA DirigirDuenio ==
    ASSUME IInv, PunterosFijos, IDuenio, DirigirProcesoEjecutado
    PROVE  IDuenio'
<1>1. /\ TypeOK /\ ADirigir /\ Posesion
      /\ CortoPlazo \in Hilos /\ CortoPlazo \notin DePageFault
      /\ {"espera_ready", "push_ready"} \subseteq Lugares(CortoPlazo) /\ CortoPlazo \in Sitios
      /\ "espera_ready" \notin EnHilo(CortoPlazo) /\ pc[CortoPlazo] = "dirigir"
      /\ "dirigir" \notin EnHilo(CortoPlazo)
  BY DeIDuenio, HilosFijos, LugaresDe, EnHiloDe, SitiosDe DEF IInv, DirigirProcesoEjecutado, En
<1>2. /\ Valido(ptr[CortoPlazo]) /\ Encaminable(pcb[ptr[CortoPlazo][1]])
      /\ ~pcb[ptr[CortoPlazo][1]].page_fault => \A s \in Sitios : ~Tiene(s, ptr[CortoPlazo])
  BY <1>1 DEF ADirigir
<1>3. PICK r0 \in Refs : r0 = ptr[CortoPlazo]
  BY <1>1, <1>2, ValidoRef
<1>4. PICK c : c = pcb[r0[1]]
  OBVIOUS
<1>5. Valido(r0) /\ Encaminable(c) /\ (~c.page_fault => \A s \in Sitios : ~Tiene(s, r0))
  BY <1>2, <1>3, <1>4
<1>6. \/ c.segmentation_fault /\ SolicitarFinalizacion(r0)
      \/ Seguir(CortoPlazo, "espera_ready")
      \/ ~c.segmentation_fault /\ ~c.page_fault /\ SolicitarFinalizacion(r0)
      \/ ~c.segmentation_fault /\ ~c.page_fault /\ SolicitarIO(r0)
      \/ ~c.segmentation_fault /\ ~c.page_fault /\ Seguir(CortoPlazo, "push_ready")
  BY <1>3, <1>4, <1>5 DEF DirigirProcesoEjecutado, UsoTrasLiberar, Encaminable, SinFallo
<1>7. CASE Seguir(CortoPlazo, "espera_ready")
  BY <1>1, <1>7, SeguirDuenio
<1>8. CASE SolicitarFinalizacion(r0) /\ ~c.page_fault
  BY <1>1, <1>3, <1>4, <1>8, FinalizacionDuenio
<1>9. CASE SolicitarIO(r0) /\ ~c.page_fault
  BY <1>1, <1>3, <1>4, <1>9, SolicitarIODuenio
<1>10. CASE Seguir(CortoPlazo, "push_ready") /\ ~c.page_fault
  <2>1. /\ Ir(CortoPlazo, "push_ready")
        /\ UNCHANGED <<cola, cola_dispositivo, vida, rafagas, ptr, pcb, cpu, falla>>
        /\ conexion_memoria_mutex' = conexion_memoria_mutex
    BY <1>10 DEF Seguir, dispositivos, procesos, memoria, entorno
  <2>2. pc'[CortoPlazo] = "push_ready" /\ \A k \in Hilos : k # CortoPlazo => pc'[k] = pc[k]
    BY <1>1, <2>1, IrTipo
  <2>3. SoloRecibe(CortoPlazo, r0)
    <3> SUFFICES ASSUME NEW r \in Refs \cup {NULO}, NEW s \in Sitios, Tiene(s, r)'
                 PROVE  Tiene(s, r) \/ (s = CortoPlazo /\ r = r0)
      BY DEF SoloRecibe
    <3>1. CASE s \in Hilos
      BY <1>1, <1>3, <2>1, <3>1, TieneMueve
    <3>2. ASSUME NEW q \in Colas, s = EnLaCola(q) PROVE Tiene(s, r)
      BY <2>1, <3>2, TieneColas
    <3>3. ASSUME NEW d \in Dispositivos, s = EnDispositivo(d) PROVE Tiene(s, r)
      BY <2>1, <3>3, TieneColas
    <3>4. QED
      BY <3>1, <3>2, <3>3, SitiosDe
  <2>4. SinRepetidos' /\ MismasBanderas
    BY <1>1, <2>1 DEF Posesion, SinRepetidos, MismasBanderas
  <2>5. /\ \A k \in Hilos : pc'[k] = "limpiar" <=> pc[k] = "limpiar"
        /\ \A k \in Hilos : pc'[k] \in {"resp", "resp_indices"} => pc'[k] = pc[k] \/ k = CortoPlazo
    BY <1>1, <2>2
  <2>6. QED
    BY <1>1, <1>3, <1>4, <1>10, <2>1, <2>2, <2>3, <2>4, <2>5, DirigidoPasa
<1>11. QED
  <2>1. c.segmentation_fault => ~c.page_fault
    BY <1>5 DEF Encaminable
  <2>2. QED
    BY <1>6, <1>7, <1>8, <1>9, <1>10, <2>1

LEMMA RecibirLiberarDuenio ==
    ASSUME IInv, PunterosFijos, IDuenio, RecibirLiberar
    PROVE  IDuenio'
<1>1. CASE TramaCortada
  BY <1>1, FallarDuenio DEF TramaCortada
<1>2. CASE ~TramaCortada
  <2>1. /\ TypeOK /\ Posesion /\ Limpios /\ SocketTomado /\ SinUsoIndebido
        /\ CortoPlazo \in Hilos /\ CortoPlazo \notin DePageFault /\ CortoPlazo # LargoPlazo
        /\ "espera_ready" \in Lugares(CortoPlazo) /\ "espera_ready" \notin EnHilo(CortoPlazo)
        /\ pc[CortoPlazo] = "resp_liberar"
    BY DeIDuenio, HilosFijos, LugaresDe, EnHiloDe DEF IInv, RecibirLiberar, En
  <2>2. /\ Ir(CortoPlazo, "espera_ready")
        /\ UNCHANGED <<cola, cola_dispositivo, vida, rafagas, ptr, pcb, cpu, falla>>
        /\ conexion_memoria_mutex' = conexion_memoria_mutex
    BY <1>2 DEF RecibirLiberar, dispositivos, procesos
  <2>3. Posesion'
    BY <2>1, <2>2, PosesionMueve
  <2>4. Limpios' /\ SocketTomado' /\ SinUsoIndebido'
    BY <2>1, <2>2, LimpiosMueve, SocketMueve DEF SinUsoIndebido
  <2>5. pc'[CortoPlazo] = "espera_ready"
    BY <2>1, <2>2, IrTipo
  <2>6. ADirigir'
    BY <2>5 DEF ADirigir
  <2>7. QED
    BY <2>3, <2>4, <2>6, IDuenioTras
<1>3. QED
  BY <1>1, <1>2

LEMMA MirarRRDuenio ==
    ASSUME IInv, PunterosFijos, IDuenio, MirarRR
    PROVE  IDuenio'
<1>1. /\ CortoPlazo \in Hilos \ DePageFault
      /\ {"sacar_rr", "sacar_fifo"} \subseteq Lugares(CortoPlazo)
      /\ {"sacar_rr", "sacar_fifo"} \cap EnHilo(CortoPlazo) = {}
      /\ pc[CortoPlazo] = "mirar_rr"
  BY HilosFijos, LugaresDe, EnHiloDe DEF MirarRR, En
<1>2. PICK l \in {"sacar_rr", "sacar_fifo"} : Seguir(CortoPlazo, l)
  BY DEF MirarRR
<1>3. QED
  BY <1>1, <1>2, SeguirDuenio

LEMMA PlanificarEjecucionDuenio ==
    ASSUME IEspera, PunterosFijos, PcbEnCpu, IDuenio, Carreras = {}, PlanificarEjecucion
    PROVE  IDuenio'
<1>1. /\ IInv /\ CortoPlazo \in Hilos /\ CortoPlazo \in Pasadores /\ CortoPlazo \notin DePageFault
      /\ "mirar_rr" \in Lugares(CortoPlazo) /\ "mirar_rr" \notin EnHilo(CortoPlazo)
  BY HilosFijos, LugaresDe, EnHiloDe DEF IEspera, Pasadores
<1>2. CASE EsperarReady
  BY <1>1, <1>2, EsperarDuenio DEF EsperarReady
<1>3. CASE MirarRR
  BY <1>1, <1>3, MirarRRDuenio
<1>4. CASE SacarReady("sacar_rr", "rr") \/ SacarReady("sacar_fifo", "fifo")
  BY <1>1, <1>4, SacarReadyDuenio
<1>5. CASE EnviarPcb
  BY <1>1, <1>5, EnviarPcbDuenio
<1>6. CASE DestruirPcb
  BY <1>1, <1>6, DestruirPcbDuenio
<1>7. CASE RecibirPcb
  BY <1>1, <1>7, RecibirPcbDuenio
<1>8. CASE DirigirProcesoEjecutado
  BY <1>1, <1>8, DirigirDuenio
<1>9. CASE RecibirLiberar
  BY <1>1, <1>9, RecibirLiberarDuenio
<1>10. CASE PasarAReady(CortoPlazo)
  BY <1>1, <1>10, PasarAReadyDuenio
<1>11. QED
  BY <1>2, <1>3, <1>4, <1>5, <1>6, <1>7, <1>8, <1>9, <1>10 DEF PlanificarEjecucion

-----------------------------------------------------------------------------
(* Ownership: the blocked processes. *)

\* A device takes r0 from its queue.
LEMMA SaleDeDispositivo ==
    ASSUME TypeOK, NEW h \in Hilos, NEW l \in Lugares(h), Ir(h, l), SinRepetidos,
           cola' = cola, pc[h] \notin EnHilo(h),
           NEW d0 \in Dispositivos, cola_dispositivo[d0] # <<>>,
           cola_dispositivo' = [cola_dispositivo EXCEPT ![d0] = Tail(@)],
           NEW r0, r0 = Head(cola_dispositivo[d0]),
           \A k \in Hilos : k # h => ptr'[k] = ptr[k], ptr'[h] = r0
    PROVE  /\ r0 \in Refs /\ SoloRecibe(h, r0) /\ SinRepetidos'
           /\ EnDispositivo(d0) \in Sitios
           /\ Tiene(EnDispositivo(d0), r0) /\ ~Tiene(EnDispositivo(d0), r0)'
<1>1. /\ cola_dispositivo[d0] \in Seq(Refs) /\ r0 \in Refs
      /\ cola_dispositivo'[d0] = Tail(cola_dispositivo[d0])
      /\ \A d \in Dispositivos : d # d0 => cola_dispositivo'[d] = cola_dispositivo[d]
  BY DEF TypeOK
<1>2. /\ \A r : EnCola(r, cola_dispositivo[d0]) <=> EnCola(r, cola_dispositivo'[d0]) \/ r = r0
      /\ SinRepetir(cola_dispositivo'[d0]) /\ ~EnCola(r0, cola_dispositivo'[d0])
  BY <1>1, EnColaTail DEF SinRepetidos
<1>3. ASSUME NEW r \in Refs \cup {NULO}, NEW s \in Sitios, Tiene(s, r)'
      PROVE  Tiene(s, r) \/ (s = h /\ r = r0)
  <2>1. CASE s \in Hilos
    BY <1>3, <2>1, TieneMueve
  <2>2. ASSUME NEW q \in Colas, s = EnLaCola(q) PROVE Tiene(s, r)
    BY <1>3, <2>2, TieneColas
  <2>3. ASSUME NEW d \in Dispositivos, s = EnDispositivo(d) PROVE Tiene(s, r)
    <3>1. CASE d = d0
      BY <1>1, <1>2, <1>3, <2>3, <3>1, TieneDe, TieneDespues
    <3>2. CASE d # d0
      BY <1>1, <1>3, <2>3, <3>2, TieneColas
    <3>3. QED
      BY <3>1, <3>2
  <2>4. QED
    BY <2>1, <2>2, <2>3, SitiosDe
<1>4. SoloRecibe(h, r0)
  BY <1>3 DEF SoloRecibe
<1>5. SinRepetidos'
  BY <1>1, <1>2 DEF SinRepetidos, SinRepetir
<1>6. EnDispositivo(d0) \in Sitios /\ Tiene(EnDispositivo(d0), r0) /\ ~Tiene(EnDispositivo(d0), r0)'
  BY <1>2, SitiosDe, TieneDe, TieneDespues
<1>7. QED
  BY <1>1, <1>4, <1>5, <1>6

LEMMA SacarDispositivoDuenio ==
    ASSUME IInv, PunterosFijos, IDuenio, NEW d0 \in Dispositivos, SacarDispositivo(d0)
    PROVE  IDuenio'
<1> DEFINE h == ES(d0)
<1>1. /\ TypeOK /\ Posesion /\ Limpios /\ SocketTomado /\ ADirigir /\ SinUsoIndebido
      /\ UnSoloSitio /\ SinRepetidos /\ SoloValidos /\ PublicadoAparte /\ SinEstrenar
      /\ h \in Hilos /\ h \in DeDispositivo /\ h # CortoPlazo /\ h # LargoPlazo
      /\ h \notin DePageFault /\ "push_ready" \in Lugares(h)
      /\ h \in Sitios /\ pc[h] = "sacar" /\ "sacar" \notin EnHilo(h)
  BY DeIDuenio, HilosFijos, HilosPorIndice, LugaresDe, SitiosDe, EnHiloDe
     DEF IInv, Posesion, SacarDispositivo, En
<1>2. CASE PopIndebido(cola_dispositivo[d0])
  <2>1. CASE cola_dispositivo[d0] = <<>> /\ Fallar("cola_vacia")
    BY <2>1, FallarDuenio
  <2>2. CASE cola_dispositivo[d0] # <<>> /\ ~Valido(Head(cola_dispositivo[d0]))
    <3>1. cola_dispositivo[d0] \in Seq(Refs) /\ Head(cola_dispositivo[d0]) \in Refs
      BY <1>1, <2>2 DEF TypeOK
    <3>2. /\ Tiene(EnDispositivo(d0), Head(cola_dispositivo[d0]))
          /\ EnDispositivo(d0) \in Sitios
      BY <1>1, <2>2, <3>1, EnColaTail, TieneDe, SitiosDe
    <3>3. QED
      BY <1>1, <2>2, <3>1, <3>2 DEF SoloValidos
  <2>3. QED
    BY <1>2, <2>1, <2>2 DEF PopIndebido
<1>3. CASE ~PopIndebido(cola_dispositivo[d0])
  <2>1. PICK r0 : r0 = Head(cola_dispositivo[d0])
    OBVIOUS
  <2>2. /\ cola_dispositivo[d0] # <<>> /\ Ir(h, "push_ready") /\ ptr' = [ptr EXCEPT ![h] = r0]
        /\ cola_dispositivo' = [cola_dispositivo EXCEPT ![d0] = Tail(@)]
        /\ UNCHANGED <<cola, vida, rafagas, pcb, cpu, falla>>
        /\ UNCHANGED <<conexion_memoria_mutex, pedidos, respuestas>>
    BY <1>3, <2>1 DEF SacarDispositivo, PopPosible, procesos, memoria, entorno
  <2> HIDE DEF h
  <2>3. ptr'[h] = r0 /\ \A k \in Hilos : k # h => ptr'[k] = ptr[k]
    BY <1>1, <2>2 DEF TypeOK
  <2>4. /\ r0 \in Refs /\ SoloRecibe(h, r0) /\ SinRepetidos' /\ EnDispositivo(d0) \in Sitios
        /\ Tiene(EnDispositivo(d0), r0) /\ ~Tiene(EnDispositivo(d0), r0)'
    BY <1>1, <2>1, <2>2, <2>3, SaleDeDispositivo
  <2>5. UnSoloSitio'
    BY <1>1, <2>4, UnSoloTraspaso
  <2>6. \A r : Valido(r)' <=> Valido(r)
    BY <2>2 DEF Valido
  <2>7. SoloValidos'
    <3>1. ASSUME NEW r \in Refs \cup {NULO}, NEW s \in Sitios, Tiene(s, r)' PROVE Valido(r)'
      BY <1>1, <2>4, <2>6, <3>1 DEF SoloRecibe, SoloValidos
    <3>2. QED
      BY <3>1 DEF SoloValidos
  <2>8. pc'[h] = "push_ready" /\ \A k \in Hilos : k # h => pc'[k] = pc[k]
    BY <1>1, <2>2, IrTipo
  <2>9. \A k \in Hilos : pc'[k] = "limpiar" <=> pc[k] = "limpiar"
    BY <1>1, <2>8
  <2>10. PublicadoAparte' /\ SinEstrenar'
    BY <1>1, <2>2, <2>3, <2>8, HilosFijos, PublicadoSigue DEF SinEstrenar
  <2>11. Limpios'
    <3>1. pc'[CortoPlazo] = pc[CortoPlazo] /\ ptr'[CortoPlazo] = ptr[CortoPlazo]
      BY <1>1, <2>3, <2>8, HilosFijos
    <3>2. \A r \in Refs : EnReady(r)' => EnReady(r)
      BY <1>1, <2>2, <2>3, <2>8 DEF EnReady, EnCola
    <3>3. SinFallosNuevos
      BY <2>2 DEF SinFallosNuevos
    <3>4. QED
      BY <1>1, <2>2, <3>1, <3>2, <3>3, LimpiosSigue
  <2>12. SocketTomado' /\ SinUsoIndebido'
    BY <1>1, <2>2, SocketMueve DEF SinUsoIndebido
  <2>13. ADirigir'
    <3>1. ASSUME NEW r \in Refs, pc[CortoPlazo] = "dirigir", r = ptr[CortoPlazo]
          PROVE  Valido(r)' /\ r # r0
      <4>1. Valido(r) /\ \A s \in Sitios : Tiene(s, r) => s = PF(r)
        BY <1>1, <3>1, ElDirigido
      <4>2. PF(r) # EnDispositivo(d0)
        BY HilosPorIndice, SitiosDe
      <4>3. QED
        BY <2>4, <2>6, <4>1, <4>2
    <3>2. ASSUME NEW r \in Refs, r # r0, NEW s \in Sitios, Tiene(s, r)' PROVE Tiene(s, r)
      BY <2>4, <3>2 DEF SoloRecibe
    <3>3. ptr'[CortoPlazo] = ptr[CortoPlazo]
      BY <1>1, <2>3, HilosFijos
    <3>4. QED
      BY <1>1, <2>2, <3>1, <3>2, <3>3, DirigirAjeno
  <2>14. QED
    BY <2>4, <2>5, <2>7, <2>10, <2>11, <2>12, <2>13, IDuenioTras DEF Posesion
<1>4. QED
  BY <1>2, <1>3

LEMMA EjecucionIODuenio ==
    ASSUME IInv, PunterosFijos, IDuenio, Carreras = {}, NEW d \in Dispositivos, EjecucionIO(d)
    PROVE  IDuenio'
<1>1. /\ ES(d) \in Hilos /\ ES(d) \in DeDispositivo /\ ES(d) \in Pasadores /\ ES(d) \notin DePageFault
      /\ "sacar" \in Lugares(ES(d)) /\ "sacar" \notin EnHilo(ES(d)) /\ ES(d) # LargoPlazo
  BY HilosFijos, HilosPorIndice, LugaresDe, EnHiloDe DEF Pasadores
<1>2. CASE EsperarDispositivo(d)
  <2>1. /\ Ir(ES(d), "sacar") /\ pc[ES(d)] = "espera"
        /\ UNCHANGED <<cola, cola_dispositivo, vida, rafagas, ptr, pcb, cpu, falla>>
        /\ UNCHANGED <<conexion_memoria_mutex, pedidos, respuestas>>
    BY <1>2 DEF EsperarDispositivo, En, procesos, memoria, entorno
  <2>2. QED
    BY <1>1, <2>1, MovidaDuenio
<1>3. CASE SacarDispositivo(d)
  BY <1>3, SacarDispositivoDuenio
<1>4. CASE PasarAReady(ES(d))
  BY <1>1, <1>4, PasarAReadyDuenio
<1>5. QED
  BY <1>2, <1>3, <1>4 DEF EjecucionIO

LEMMA SolicitarIOConsolaDuenio ==
    ASSUME IInv, PunterosFijos, IDuenio, Carreras = {}, NEW r \in Refs, SolicitarIOConsola(r)
    PROVE  IDuenio'
<1>1. /\ IO(r) \in Hilos /\ IO(r) \in DeConsola /\ IO(r) \in Pasadores /\ IO(r) \notin DePageFault
      /\ "push_ready" \in Lugares(IO(r)) /\ EnHilo(IO(r)) = {"solicitud", "push_ready"}
      /\ IO(r) \in Sitios /\ TypeOK /\ SoloValidos
  BY DeIDuenio, HilosFijos, HilosPorIndice, LugaresDe, EnHiloDe, SitiosDe
     DEF Pasadores, IInv, Posesion
<1>2. CASE Solicitud(r)
  <2>1. pc[IO(r)] = "solicitud"
    BY <1>2 DEF Solicitud, En
  <2>2. Valido(ptr[IO(r)])
    <3>1. Tiene(IO(r), ptr[IO(r)]) /\ ptr[IO(r)] \in Refs \cup {NULO}
      BY <1>1, <2>1, TieneDe DEF TypeOK
    <3>2. QED
      BY <1>1, <3>1 DEF SoloValidos
  <2>3. Seguir(IO(r), "push_ready")
    BY <1>2, <2>2 DEF Solicitud, UsoTrasLiberar
  <2>4. QED
    BY <1>1, <2>1, <2>3, SeguirDuenio
<1>3. CASE PasarAReady(IO(r))
  BY <1>1, <1>3, PasarAReadyDuenio
<1>4. QED
  BY <1>2, <1>3 DEF SolicitarIOConsola

LEMMA ManejarPageFaultDuenio ==
    ASSUME IEspera, PunterosFijos, IDuenio, Carreras = {}, NEW r \in Refs, ManejarPageFault(r)
    PROVE  IDuenio'
<1>1. /\ PF(r) \in Hilos /\ PF(r) \in DePageFault /\ PF(r) \in Pasadores
      /\ {"pedir", "push_ready", "muerto"} \subseteq Lugares(PF(r))
      /\ EnHilo(PF(r)) = {"espera", "pedir", "resp", "push_ready"}
      /\ PF(r) \in Sitios /\ IInv /\ TypeOK /\ SoloValidos
  BY DeIDuenio, HilosFijos, HilosPorIndice, LugaresDe, EnHiloDe, SitiosDe
     DEF Pasadores, IEspera, IInv, Posesion
<1>2. CASE EsperarPageFault(r)
  BY <1>1, <1>2, EsperarDuenio DEF EsperarPageFault
<1>3. CASE PedirPagina(r)
  <2>1. CASE Pedir(PF(r), "PAGINA")
    BY <1>1, <2>1, PedirDuenio
  <2>2. CASE En(PF(r), "pedir") /\ UsoTrasLiberar(PF(r))
    <3>1. Tiene(PF(r), ptr[PF(r)]) /\ ptr[PF(r)] \in Refs \cup {NULO}
      BY <1>1, <2>2, TieneDe DEF TypeOK, En
    <3>2. Valido(ptr[PF(r)])
      BY <1>1, <3>1 DEF SoloValidos
    <3>3. QED
      BY <2>2, <3>2 DEF UsoTrasLiberar
  <2>3. QED
    BY <1>3, <2>1, <2>2 DEF PedirPagina
<1>4. CASE RecibirPagina(r)
  <2>1. pc[PF(r)] = "resp" /\ respuestas # <<>>
    BY <1>4 DEF RecibirPagina, En
  <2>2. CASE TramaCortada
    BY <2>2, FallarDuenio DEF TramaCortada
  <2>3. CASE Head(respuestas).cod = "OKI_PAGINA" /\ Recibir(PF(r), "push_ready", "libre")
    BY <1>1, <2>1, <2>3, RecibirDuenio
  <2>4. CASE Head(respuestas).cod # "INDICES" /\ Recibir(PF(r), "muerto", "libre")
    BY <1>1, <2>1, <2>4, RecibirDuenio
  <2>5. QED
    BY <1>4, <2>2, <2>3, <2>4 DEF RecibirPagina
<1>5. CASE PasarAReady(PF(r))
  BY <1>1, <1>5, PasarAReadyDuenio
<1>6. QED
  BY <1>2, <1>3, <1>4, <1>5 DEF ManejarPageFault

-----------------------------------------------------------------------------
(* Ownership: the memory and the CPU. *)

LEMMA AtenderKernelDuenio ==
    ASSUME IInv, PunterosFijos, IDuenio, Carreras = {}, AtenderKernel
    PROVE  IDuenio'
<1>1. /\ TypeOK /\ Posesion /\ Limpios /\ SocketTomado /\ ADirigir /\ SinUsoIndebido /\ UnSoloSitio
  BY DeIDuenio DEF IInv
<1>2. /\ UNCHANGED <<cola, cola_dispositivo, vida, rafagas, pcb, cpu, falla, pc, ptr>>
      /\ conexion_memoria_mutex' = conexion_memoria_mutex /\ pedidos # <<>>
      /\ Head(pedidos).cod = "PAGINA" =>
            ~(pc[CortoPlazo] = "dirigir" /\ ptr[CortoPlazo][1] = Head(pedidos).pid)
  BY DEF AtenderKernel, dispositivos, procesos, entorno
<1>3. Posesion'
  BY <1>1, <1>2 DEF Posesion, UnSoloSitio, SinRepetidos, SoloValidos, PublicadoAparte,
         SinEstrenar, Tiene, Valido, EnReady, EnCola
<1>4. Limpios' /\ SocketTomado' /\ SinUsoIndebido'
  BY <1>1, <1>2 DEF Limpios, SocketTomado, EnElSocket, EnReady, EnCola, SinUsoIndebido
<1>5. ADirigir'
  <2> SUFFICES ASSUME pc'[CortoPlazo] = "dirigir" PROVE ADirigir'
    BY DEF ADirigir
  <2>1. ASSUME NEW r \in Refs, r = ptr[CortoPlazo] PROVE DirigidoIgual(r)
    <3>1. Valido(r) /\ (pc[PF(r)] = "resp" => PaginaPedida(r))
      BY <1>1, <1>2, <2>1, ElDirigido
    <3>2. pc[PF(r)] # "resp"
      <4> SUFFICES ASSUME pc[PF(r)] = "resp" PROVE FALSE
        OBVIOUS
      <4>1. pedidos = <<[cod |-> "PAGINA", pid |-> r[1]]>>
        BY <3>1 DEF PaginaPedida
      <4>2. Head(pedidos) = [cod |-> "PAGINA", pid |-> r[1]]
        BY <4>1
      <4>3. QED
        BY <1>2, <2>1, <4>2
    <3>3. Valido(r)' /\ (\A s \in Sitios : Tiene(s, r)' => Tiene(s, r))
      BY <1>2, <3>1 DEF Valido, Tiene, EnCola
    <3>4. QED
      BY <1>2, <3>2, <3>3 DEF DirigidoIgual
  <2>2. QED
    BY <1>1, <1>2, <2>1, DirigirSigue
<1>6. QED
  BY <1>3, <1>4, <1>5, IDuenioTras

\* A PCB that went to the CPU without a fault comes back with one at most, and without
\* one after an instruction.
LEMMA RafagasEncaminables ==
    ASSUME NEW c \in Pcb, SinFallo(c), NEW final, NEW d \in Rafagas(c, final)
    PROVE  Encaminable(d)
<1>1. NombresIO \subseteq STRING \ {"ninguna", "CPU", "EXIT"}
  BY NombresAssumption
<1>2. \A n \in NombresIO : n # "ninguna"
  BY <1>1
<1>3. CASE c.ultima = "EXIT"
  BY <1>3 DEF Rafagas, Encaminable, SinFallo
<1>4. CASE c.ultima # "EXIT"
  <2> DEFINE I == IF Algoritmo = "FIFO" THEN {} ELSE {TRUE}
  <2>1. \/ \E u \in {c.ultima, "CPU"} : d = [c EXCEPT !.segmentation_fault = TRUE, !.ultima = u]
        \/ d = [c EXCEPT !.ultima = "EXIT"]
        \/ \E i \in I : d = [c EXCEPT !.ultima = "EXIT", !.interrupcion = i]
        \/ \E u \in {c.ultima, "CPU"} : d = [c EXCEPT !.page_fault = TRUE, !.ultima = u]
        \/ \E n \in NombresIO : d = [c EXCEPT !.ultima = n]
        \/ \E i \in I : d = [c EXCEPT !.ultima = "CPU", !.interrupcion = i]
        \/ d = [c EXCEPT !.ultima = "CPU"]
    BY <1>4 DEF Rafagas
  <2> HIDE DEF I
  <2>2. ~c.page_fault /\ ~c.segmentation_fault
    BY DEF SinFallo
  <2>3. CASE \E u \in {c.ultima, "CPU"} : d = [c EXCEPT !.segmentation_fault = TRUE, !.ultima = u]
    BY <2>2, <2>3 DEF Pcb, Encaminable, SinFallo
  <2>4. CASE \E u \in {c.ultima, "CPU"} : d = [c EXCEPT !.page_fault = TRUE, !.ultima = u]
    BY <2>2, <2>4 DEF Pcb, Encaminable, SinFallo
  <2>5. CASE \E n \in NombresIO : d = [c EXCEPT !.ultima = n]
    BY <1>2, <2>2, <2>5 DEF Pcb, Encaminable, SinFallo
  <2>6. CASE d = [c EXCEPT !.ultima = "EXIT"] \/ d = [c EXCEPT !.ultima = "CPU"]
    BY <2>2, <2>6 DEF Pcb, Encaminable, SinFallo
  <2>7. CASE \E i \in I : d = [c EXCEPT !.ultima = "EXIT", !.interrupcion = i]
                          \/ d = [c EXCEPT !.ultima = "CPU", !.interrupcion = i]
    BY <2>2, <2>7 DEF Pcb, Encaminable, SinFallo
  <2>8. QED
    BY <2>1, <2>3, <2>4, <2>5, <2>6, <2>7
<1>5. QED
  BY <1>3, <1>4

LEMMA EjecutarRafagaDuenio ==
    ASSUME IInv, PunterosFijos, IDuenio, EjecutarRafaga
    PROVE  IDuenio'
<1>1. /\ TypeOK /\ Posesion /\ Limpios /\ SocketTomado /\ ADirigir /\ SinUsoIndebido
  BY DeIDuenio DEF IInv
<1>2. /\ UNCHANGED <<cola, cola_dispositivo, vida, rafagas, pcb, falla, pc, ptr>>
      /\ UNCHANGED <<conexion_memoria_mutex, pedidos, respuestas>>
  BY DEF EjecutarRafaga, dispositivos, procesos, memoria
<1>3. cpu'.fase = "lista" /\ Encaminable(cpu'.pcb)
  <2>1. /\ cpu \in [fase : {"libre", "ejecutando", "lista"}, pid : 0..MaxPid, pcb : Pcb]
        /\ cpu.pcb \in Pcb /\ SinFallo(cpu.pcb)
    BY <1>1 DEF TypeOK, EjecutarRafaga, Limpios
  <2>2. PICK d \in Rafagas(cpu.pcb, rafagas[cpu.pid] + 1 = MaxRafagas) :
            cpu' = [cpu EXCEPT !.fase = "lista", !.pcb = d]
    BY DEF EjecutarRafaga
  <2>3. Encaminable(d)
    BY <2>1, <2>2, RafagasEncaminables
  <2>4. cpu'.fase = "lista" /\ cpu'.pcb = d
    BY <2>1, <2>2
  <2>5. QED
    BY <2>3, <2>4
<1>4. Posesion'
  BY <1>1, <1>2 DEF Posesion, UnSoloSitio, SinRepetidos, SoloValidos, PublicadoAparte,
         SinEstrenar, Tiene, Valido, EnReady, EnCola
<1>5. SocketTomado' /\ SinUsoIndebido'
  BY <1>1, <1>2 DEF SocketTomado, EnElSocket, SinUsoIndebido
<1>6. Limpios'
  <2>1. \A r \in Refs : EnReady(r)' => SinFallo(pcb'[r[1]])
    BY <1>1, <1>2 DEF Limpios, EnReady, EnCola
  <2>2. pc'[CortoPlazo] = "enviar" => SinFallo(pcb'[ptr'[CortoPlazo][1]])
    BY <1>1, <1>2 DEF Limpios
  <2>3. QED
    BY <1>3, <2>1, <2>2 DEF Limpios, SinFallo, Encaminable
<1>7. ADirigir'
  BY <1>1, <1>2 DEF ADirigir, PaginaPedida, Tiene, Valido, EnCola
<1>8. QED
  BY <1>4, <1>5, <1>6, <1>7, IDuenioTras

-----------------------------------------------------------------------------
(* Ownership: the invariant and what follows from it. *)

IPropiedad == IEspera /\ IAdmision /\ IDuenio

LEMMA IDuenioPaso ==
    ASSUME Carreras = {}, IPropiedad, [Next]_vars
    PROVE  IPropiedad'
<1>1. /\ IEspera /\ IInv /\ PunterosFijos /\ PcbEnCpu /\ NewEnOrden /\ IDuenio
      /\ ITodo
  BY DEF IPropiedad, IEspera, IAdmision, ITodo
<1>2. IEspera'
  BY <1>1, IEsperaPaso
<1>3. IAdmision'
  BY <1>1, IAdmisionPaso DEF ITodo
<1>4. IDuenio'
  <2>1. CASE AtenderNuevaConsola
    BY <1>1, <2>1, AtenderNuevaConsolaDuenio
  <2>2. CASE AvisarNew
    <3>1. /\ Conexiones \in Hilos /\ "esperar_cliente" \in Lugares(Conexiones)
          /\ EnHilo(Conexiones) = {} /\ Conexiones \notin DePageFault
      BY HilosFijos, LugaresDe, EnHiloDe
    <3>2. QED
      BY <1>1, <2>2, <3>1, EsperarDuenio DEF AvisarNew
  <2>3. CASE NewAReady
    BY <1>1, <2>3, NewAReadyDuenio
  <2>4. CASE RajarPcb
    BY <1>1, <2>4, RajarPcbDuenio
  <2>5. CASE PlanificarEjecucion
    BY <1>1, <2>5, PlanificarEjecucionDuenio
  <2>6. CASE \E d \in Dispositivos : EjecucionIO(d)
    BY <1>1, <2>6, EjecucionIODuenio
  <2>7. CASE \E r \in Refs : SolicitarIOConsola(r)
    BY <1>1, <2>7, SolicitarIOConsolaDuenio
  <2>8. CASE \E r \in Refs : ManejarPageFault(r)
    BY <1>1, <2>8, ManejarPageFaultDuenio
  <2>9. CASE AtenderKernel
    BY <1>1, <2>9, AtenderKernelDuenio
  <2>10. CASE EjecutarRafaga
    BY <1>1, <2>10, EjecutarRafagaDuenio
  <2>11. CASE UNCHANGED vars
    BY <1>1, <2>11, FallarDuenio
  <2>12. QED
    BY <2>1, <2>2, <2>3, <2>4, <2>5, <2>6, <2>7, <2>8, <2>9, <2>10, <2>11 DEF Next
<1>5. QED
  BY <1>2, <1>3, <1>4 DEF IPropiedad

LEMMA IDuenioInicial == Init => IPropiedad
<1> SUFFICES ASSUME Init PROVE IPropiedad
  OBVIOUS
<1>1. IEspera /\ IAdmision /\ TypeOK
  BY IEsperaInicial, IAdmisionInicial DEF ITodo, IEspera, IInv
<1>2. \A h \in Hilos : pc[h] = PcInicial(h)
  BY DEF Init
<1>3. \A h \in Hilos : pc[h] \in {"esperar_cliente", "espera_new", "espera_ready",
                                  "espera_finalizados", "espera", "no_creado"}
  BY <1>2 DEF PcInicial
<1>4. /\ pc[LargoPlazo] = "espera_new" /\ pc[CortoPlazo] = "espera_ready"
      /\ \A d \in Dispositivos : pc[ES(d)] = "espera"
      /\ \A r \in Refs : pc[PF(r)] = "no_creado" /\ pc[IO(r)] = "no_creado"
  BY <1>2, PcInicialDe, HilosFijos, HilosPorIndice
<1>5. /\ \A q \in Colas : cola[q] = <<>>
      /\ \A d \in Dispositivos : cola_dispositivo[d] = <<>>
      /\ vida = [p \in Pids |-> "sin_crear"] /\ rafagas = [p \in Pids |-> 0]
      /\ cpu.fase = "libre" /\ falla = "ninguna"
  BY DEF Init
<1>6. \A h \in Hilos : pc[h] \notin EnHilo(h)
  <2>1. \A h \in DePageFault \cup DeConsola : pc[h] = "no_creado"
    BY <1>4 DEF DePageFault, DeConsola
  <2>2. \A h \in Hilos : h \notin DePageFault \cup DeConsola => pc[h] \notin EnHilo(h)
    BY <1>3, EnHiloDe DEF Hilos
  <2>3. \A h \in DePageFault \cup DeConsola : pc[h] \notin EnHilo(h)
    BY <2>1, EnHiloDe
  <2>4. QED
    BY <2>2, <2>3
<1>7. \A s \in Sitios : \A r : ~Tiene(s, r)
  BY <1>5, <1>6, SitiosDe, TieneDe DEF EnCola
<1>8. \A r : ~EnReady(r)
  BY <1>5 DEF EnReady, EnCola, Colas
<1>9. UnSoloSitio /\ SoloValidos
  BY <1>7 DEF UnSoloSitio, SoloValidos
<1>10. SinRepetidos
  BY <1>5 DEF SinRepetidos, SinRepetir
<1>11. PublicadoAparte /\ SinEstrenar
  BY <1>3, <1>5 DEF PublicadoAparte, SinEstrenar
<1>12. Limpios /\ ADirigir /\ SinUsoIndebido
  BY <1>4, <1>5, <1>8 DEF Limpios, ADirigir, SinUsoIndebido
<1>13. SocketTomado
  BY <1>3 DEF SocketTomado, EnElSocket
<1>14. QED
  BY <1>1, <1>9, <1>10, <1>11, <1>12, <1>13 DEF IPropiedad, IDuenio

\* What the hand-offs of PCBs between queues and threads keep true at every step when
\* no thread hits the windows of Carreras: one place for each PCB, which is allocated;
\* flags cleared before it runs again; nobody but the dispatcher, or the page fault it
\* started, with the PCB it directs.
THEOREM InvarianteDuenio ==
    ASSUME Carreras = {}
    PROVE  Spec => []IDuenio
<1>1. Init => IPropiedad
  BY IDuenioInicial
<1>2. IPropiedad /\ [Next]_vars => IPropiedad'
  BY IDuenioPaso
<1>3. IPropiedad => IDuenio
  BY DEF IPropiedad
<1>4. QED
  BY <1>1, <1>2, <1>3, PTL DEF Spec

\* A thread, or one position of one queue, is the place of Tiene it stands for.
LEMMA DuenioDe ==
    ASSUME UnSoloSitio, SinRepetidos, NEW r \in Refs, NEW x \in Duenios(r), NEW y \in Duenios(r)
    PROVE  x = y
<1>1. ASSUME NEW z \in Duenios(r)
      PROVE  \/ z \in Hilos /\ z \in Sitios /\ Tiene(z, r)
             \/ \E q \in Colas : \E i \in DOMAIN cola[q] : z = <<q, i>> /\ cola[q][i] = r
             \/ \E d \in Dispositivos : \E i \in DOMAIN cola_dispositivo[d] :
                   z = <<"io", d, i>> /\ cola_dispositivo[d][i] = r
  <2> DEFINE A == {h \in Hilos : ptr[h] = r /\ pc[h] \in EnHilo(h)}
             B(q) == {<<q, i>> : i \in {j \in DOMAIN cola[q] : cola[q][j] = r}}
             C(d) == {<<"io", d, i>> :
                        i \in {j \in DOMAIN cola_dispositivo[d] : cola_dispositivo[d][j] = r}}
             BB == {B(q) : q \in Colas}
             CC == {C(d) : d \in Dispositivos}
  <2>1. z \in A \/ (\E q \in Colas : z \in B(q)) \/ (\E d \in Dispositivos : z \in C(d))
    <3>1. Duenios(r) = A \cup (UNION BB) \cup (UNION CC)
      BY DEF Duenios
    <3>2. \A w \in UNION BB : \E q \in Colas : w \in B(q)
      OBVIOUS
    <3>3. \A w \in UNION CC : \E d \in Dispositivos : w \in C(d)
      OBVIOUS
    <3> HIDE DEF A, B, C, BB, CC
    <3>4. z \in A \/ z \in UNION BB \/ z \in UNION CC
      BY <3>1
    <3>5. QED
      BY <3>2, <3>3, <3>4
  <2>2. \A w \in A : w \in Hilos /\ w \in Sitios /\ Tiene(w, r)
    BY SitiosDe, TieneDe
  <2>3. \A q : \A w \in B(q) : \E i \in DOMAIN cola[q] : w = <<q, i>> /\ cola[q][i] = r
    OBVIOUS
  <2>4. \A d : \A w \in C(d) : \E i \in DOMAIN cola_dispositivo[d] :
            w = <<"io", d, i>> /\ cola_dispositivo[d][i] = r
    OBVIOUS
  <2> HIDE DEF A, B, C
  <2>5. QED
    BY <2>1, <2>2, <2>3, <2>4
<1>2. \A q \in Colas : \A i \in DOMAIN cola[q] : cola[q][i] = r =>
          EnLaCola(q) \in Sitios /\ EnLaCola(q) \notin Hilos /\ Tiene(EnLaCola(q), r)
  BY SitiosDe, TieneDe DEF EnCola
<1>3. \A d \in Dispositivos : \A i \in DOMAIN cola_dispositivo[d] : cola_dispositivo[d][i] = r =>
          /\ EnDispositivo(d) \in Sitios /\ EnDispositivo(d) \notin Hilos
          /\ Tiene(EnDispositivo(d), r)
  BY SitiosDe, TieneDe DEF EnCola
<1>4. \A s, t \in Sitios : Tiene(s, r) /\ Tiene(t, r) => s = t
  BY DEF UnSoloSitio
<1>5. CASE x \in Hilos /\ x \in Sitios /\ Tiene(x, r)
  <2>1. \A q \in Colas : \A i \in DOMAIN cola[q] : cola[q][i] # r
    BY <1>2, <1>4, <1>5
  <2>2. \A d \in Dispositivos : \A i \in DOMAIN cola_dispositivo[d] : cola_dispositivo[d][i] # r
    BY <1>3, <1>4, <1>5
  <2>3. y \in Sitios /\ Tiene(y, r)
    BY <1>1, <2>1, <2>2
  <2>4. QED
    BY <1>4, <1>5, <2>3
<1>6. ASSUME NEW q \in Colas, NEW i \in DOMAIN cola[q], x = <<q, i>>, cola[q][i] = r
      PROVE  x = y
  <2>1. EnLaCola(q) \in Sitios /\ EnLaCola(q) \notin Hilos /\ Tiene(EnLaCola(q), r)
    BY <1>2, <1>6
  <2>2. ~(y \in Hilos /\ y \in Sitios /\ Tiene(y, r))
    BY <1>4, <2>1
  <2>3. \A d \in Dispositivos : \A j \in DOMAIN cola_dispositivo[d] : cola_dispositivo[d][j] # r
    BY <1>3, <1>4, <2>1, SitiosDe
  <2>4. PICK c \in Colas : \E j \in DOMAIN cola[c] : y = <<c, j>> /\ cola[c][j] = r
    BY <1>1, <2>2, <2>3
  <2>5. PICK j \in DOMAIN cola[c] : y = <<c, j>> /\ cola[c][j] = r
    BY <2>4
  <2>6. EnLaCola(c) = EnLaCola(q)
    BY <1>2, <1>4, <2>1, <2>5
  <2>7. c = q
    BY <2>6, SitiosDe
  <2>8. j = i
    BY <1>6, <2>5, <2>7 DEF SinRepetidos, SinRepetir
  <2>9. QED
    BY <1>6, <2>5, <2>7, <2>8
<1>7. ASSUME NEW d \in Dispositivos, NEW i \in DOMAIN cola_dispositivo[d],
             x = <<"io", d, i>>, cola_dispositivo[d][i] = r
      PROVE  x = y
  <2>1. /\ EnDispositivo(d) \in Sitios /\ EnDispositivo(d) \notin Hilos
        /\ Tiene(EnDispositivo(d), r)
    BY <1>3, <1>7
  <2>2. ~(y \in Hilos /\ y \in Sitios /\ Tiene(y, r))
    BY <1>4, <2>1
  <2>3. \A q \in Colas : \A j \in DOMAIN cola[q] : cola[q][j] # r
    BY <1>2, <1>4, <2>1, SitiosDe
  <2>4. PICK e \in Dispositivos : \E j \in DOMAIN cola_dispositivo[e] :
            y = <<"io", e, j>> /\ cola_dispositivo[e][j] = r
    BY <1>1, <2>2, <2>3
  <2>5. PICK j \in DOMAIN cola_dispositivo[e] :
            y = <<"io", e, j>> /\ cola_dispositivo[e][j] = r
    BY <2>4
  <2>6. EnDispositivo(e) = EnDispositivo(d)
    BY <1>3, <1>4, <2>1, <2>5
  <2>7. e = d
    BY <2>6, SitiosDe
  <2>8. j = i
    BY <1>7, <2>5, <2>7 DEF SinRepetidos, SinRepetir
  <2>9. QED
    BY <1>7, <2>5, <2>7, <2>8
<1>8. QED
  BY <1>1, <1>5, <1>6, <1>7

\* Without the windows of Carreras a PCB is in one position of one queue or with one
\* thread: pushing it and going on to use it never leaves it to two owners.
THEOREM DuenioSeguro ==
    ASSUME Carreras = {}
    PROVE  Spec => []DuenioUnico
<1>1. ASSUME IDuenio PROVE DuenioUnico
  <2>1. UnSoloSitio /\ SinRepetidos
    BY <1>1 DEF IDuenio
  <2>2. SUFFICES ASSUME NEW r \in Refs PROVE Cardinality(Duenios(r)) <= 1
    BY DEF DuenioUnico
  <2>3. CASE Duenios(r) = {}
    BY <2>3, FS_EmptySet
  <2>4. CASE Duenios(r) # {}
    <3>1. PICK x : x \in Duenios(r)
      BY <2>4
    <3>2. Duenios(r) = {x}
      BY <2>1, <3>1, DuenioDe
    <3>3. QED
      BY <3>2, FS_Singleton
  <2>5. QED
    BY <2>3, <2>4
<1>2. QED
  BY <1>1, InvarianteDuenio, PTL

\* Without the windows of Carreras no thread uses a PCB after pcb_destroy, and
\* dirigir_proceso_ejecutado never looks for an instruction that is not there.
THEOREM UsoSeguro ==
    ASSUME Carreras = {}
    PROVE  Spec => []SinUsoIndebido
<1>1. IDuenio => SinUsoIndebido
  BY DEF IDuenio
<1>2. QED
  BY <1>1, InvarianteDuenio, PTL

-----------------------------------------------------------------------------
(* A process with a page fault is left to its thread. *)

LEMMA PasarOtroHilo ==
    ASSUME TypeOK, NEW h \in Hilos, h # CortoPlazo, PasarAReady(h)
    PROVE  pc'[CortoPlazo] = pc[CortoPlazo]
BY HilosFijos DEF PasarAReady, PushReady, LimpiarBanderas, UsoTrasLiberar, Fallar, Avisar, Ir, TypeOK

\* Only the dispatcher moves the dispatcher.
LEMMA OtroNoMueve ==
    ASSUME TypeOK, [Next]_vars, ~PlanificarEjecucion
    PROVE  pc'[CortoPlazo] = pc[CortoPlazo]
<1>1. /\ CortoPlazo \in Hilos /\ LargoPlazo # CortoPlazo /\ Conexiones # CortoPlazo
      /\ Rajar # CortoPlazo
      /\ LargoPlazo \in Hilos
  BY HilosFijos
<1>2. \A d \in Dispositivos : ES(d) \in Hilos /\ ES(d) # CortoPlazo
  BY HilosFijos, HilosPorIndice
<1>3. \A r \in Refs : PF(r) \in Hilos /\ IO(r) \in Hilos /\ PF(r) # CortoPlazo /\ IO(r) # CortoPlazo
  BY HilosFijos, HilosPorIndice
<1>4. CASE AtenderNuevaConsola \/ AvisarNew
  BY <1>1, <1>4 DEF AtenderNuevaConsola, AvisarNew, Avisar, Ir, TypeOK
<1>5. CASE NewAReady
  <2>1. CASE PasarAReady(LargoPlazo)
    BY <1>1, <2>1, PasarOtroHilo
  <2>2. CASE ~PasarAReady(LargoPlazo)
    BY <1>1, <1>5, <2>2 DEF NewAReady, EsperarNew, EsperarGrado, SacarNew, Pedir, RecibirEstructuras,
       RecibirIndices, Esperar, PopIndebido, Recibir, TramaCortada, Fallar, Ir, TypeOK
  <2>3. QED
    BY <2>1, <2>2
<1>6. CASE RajarPcb
  BY <1>1, <1>6 DEF RajarPcb, EsperarFinalizados, SacarExit, AvisarGrado, Esperar, Avisar,
     PopIndebido, Fallar, Ir, TypeOK
<1>7. ASSUME NEW d \in Dispositivos, EjecucionIO(d) PROVE pc'[CortoPlazo] = pc[CortoPlazo]
  <2>1. CASE PasarAReady(ES(d))
    BY <1>2, <2>1, PasarOtroHilo
  <2>2. CASE ~PasarAReady(ES(d))
    BY <1>1, <1>2, <1>7, <2>2 DEF EjecucionIO, EsperarDispositivo, SacarDispositivo, PopIndebido,
       Fallar, Ir, TypeOK
  <2>3. QED
    BY <2>1, <2>2
<1>8. ASSUME NEW r \in Refs, SolicitarIOConsola(r) PROVE pc'[CortoPlazo] = pc[CortoPlazo]
  <2>1. CASE PasarAReady(IO(r))
    BY <1>3, <2>1, PasarOtroHilo
  <2>2. CASE ~PasarAReady(IO(r))
    BY <1>1, <1>3, <1>8, <2>2 DEF SolicitarIOConsola, Solicitud, UsoTrasLiberar, Seguir, Fallar, Ir, TypeOK
  <2>3. QED
    BY <2>1, <2>2
<1>9. ASSUME NEW r \in Refs, ManejarPageFault(r) PROVE pc'[CortoPlazo] = pc[CortoPlazo]
  <2>1. CASE PasarAReady(PF(r))
    BY <1>3, <2>1, PasarOtroHilo
  <2>2. CASE ~PasarAReady(PF(r))
    BY <1>1, <1>3, <1>9, <2>2 DEF ManejarPageFault, EsperarPageFault, PedirPagina, RecibirPagina,
       Esperar, Pedir, Recibir, TramaCortada, UsoTrasLiberar, Fallar, Ir, TypeOK
  <2>3. QED
    BY <2>1, <2>2
<1>10. CASE AtenderKernel \/ EjecutarRafaga \/ UNCHANGED vars
  BY <1>10 DEF AtenderKernel, EjecutarRafaga, vars
<1>11. QED
  BY <1>4, <1>5, <1>6, <1>7, <1>8, <1>9, <1>10 DEF Next

LEMMA SaleDeDirigir ==
    ASSUME TypeOK, [Next]_vars, pc[CortoPlazo] = "dirigir", pc'[CortoPlazo] # "dirigir"
    PROVE  DirigirProcesoEjecutado
<1>1. PlanificarEjecucion
  BY OtroNoMueve
<1>2. QED
  BY <1>1 DEF PlanificarEjecucion, EsperarReady, MirarRR, SacarReady, EnviarPcb, DestruirPcb,
     RecibirPcb, RecibirLiberar, PasarAReady, PushReady, LimpiarBanderas, Esperar, Avisar, En

\* A process that came back with a page fault is left to manejar_page_fault: the
\* dispatcher goes back to wait without touching its PCB or the devices.
THEOREM PageFaultSeguro ==
    ASSUME Carreras = {}
    PROVE  Spec => PageFaultRespetado
<1> DEFINE P == \A r \in Refs :
         (/\ pc[CortoPlazo] = "dirigir" /\ ptr[CortoPlazo] = r
          /\ pc[PF(r)] # "no_creado" /\ ~pcb[r[1]].segmentation_fault
          /\ pc'[CortoPlazo] # "dirigir")
            => pc'[CortoPlazo] = "espera_ready" /\ UNCHANGED <<cola_dispositivo, pcb>>
<1>1. ASSUME IInv, IDuenio, [Next]_vars PROVE P
  <2> SUFFICES ASSUME NEW r \in Refs, pc[CortoPlazo] = "dirigir", ptr[CortoPlazo] = r,
                      pc[PF(r)] # "no_creado", ~pcb[r[1]].segmentation_fault,
                      pc'[CortoPlazo] # "dirigir"
               PROVE  pc'[CortoPlazo] = "espera_ready" /\ UNCHANGED <<cola_dispositivo, pcb>>
    OBVIOUS
  <2>1. TypeOK /\ ADirigir
    BY <1>1 DEF IInv, IDuenio
  <2>2. DirigirProcesoEjecutado
    BY <1>1, <2>1, SaleDeDirigir
  <2>3. Valido(r) /\ pcb[r[1]].page_fault
    BY <2>1 DEF ADirigir
  <2>4. Seguir(CortoPlazo, "espera_ready")
    BY <2>2, <2>3 DEF DirigirProcesoEjecutado, UsoTrasLiberar
  <2>5. CortoPlazo \in Hilos /\ "espera_ready" \in Lugares(CortoPlazo)
    BY HilosFijos, LugaresDe
  <2>6. QED
    BY <2>1, <2>4, <2>5, IrTipo DEF Seguir, dispositivos, procesos
<1>2. IInv /\ IDuenio /\ [Next]_vars => [P]_vars
  BY <1>1
<1>3. QED
  BY <1>2, Invariante, InvarianteDuenio, PTL DEF Spec, PageFaultRespetado

-----------------------------------------------------------------------------
(* One process at a time: with Grado = 1 the admitted process has one PCB, in   *)
(* one place, so that one thread at most talks to the memory.               *)

Hablando == {"resp", "resp_indices", "resp_liberar"}
UnoSolo == IInv /\ CuentaGrado /\ Posesion /\ ADirigir

LEMMA AdmitidoUnico ==
    ASSUME Grado = 1, UnoSolo, NEW r \in Refs, NEW u \in Refs, Valido(r), Valido(u),
           ~EnCola(r, cola["new"]), ~EnCola(u, cola["new"])
    PROVE  r = u
<1>1. \A t \in Refs : Valido(t) /\ ~EnCola(t, cola["new"]) => t[1] \in Admitidos
  <2> SUFFICES ASSUME NEW t \in Refs, Valido(t), ~EnCola(t, cola["new"]) PROVE t[1] \in Admitidos
    OBVIOUS
  <2>1. t[1] \in Pids /\ vida[t[1]] = "viva"
    BY DEF Valido
  <2>2. ASSUME EnCola(<<t[1], 0>>, cola["new"]) PROVE FALSE
    <3> DEFINE n == <<t[1], 0>>
    <3>1. n \in Refs /\ n[1] = t[1]
      BY <2>1, LimitesAssumption DEF Refs
    <3>2. EnLaCola("new") \in Sitios /\ Tiene(EnLaCola("new"), n)
      BY <2>2, SitiosDe, TieneDe DEF Colas
    <3>3. Valido(n)
      BY <3>1, <3>2 DEF UnoSolo, Posesion, SoloValidos
    <3>4. n = t
      BY <3>1, <3>3, ValidoUnico
    <3>5. QED
      BY <2>2, <3>4
  <2>3. QED
    BY <2>1, <2>2 DEF Admitidos
<1>2. r[1] \in Admitidos /\ u[1] \in Admitidos
  BY <1>1
<1>3. IsFiniteSet(Admitidos) /\ Cardinality(Admitidos) \in Nat /\ Cardinality(Admitidos) <= 1
  BY AdmitidosFinito, AdmitidosAcotados DEF UnoSolo
<1>4. r[1] = u[1]
  <2>1. CASE Cardinality(Admitidos) = 0
    BY <1>2, <1>3, <2>1, FS_EmptySet
  <2>2. CASE Cardinality(Admitidos) = 1
    BY <1>2, <1>3, <2>2, FS_Singleton
  <2>3. QED
    BY <1>3, <2>1, <2>2
<1>5. QED
  BY <1>4, ValidoUnico

\* Two places other than the NEW queue never have a PCB each.
LEMMA SitioUnico ==
    ASSUME Grado = 1, UnoSolo, NEW s \in Sitios \ {EnLaCola("new")},
           NEW t \in Sitios \ {EnLaCola("new")}, NEW r \in Refs \cup {NULO},
           NEW u \in Refs \cup {NULO}, Tiene(s, r), Tiene(t, u)
    PROVE  r = u /\ s = t /\ r \in Refs /\ Valido(r) /\ ~EnCola(r, cola["new"])
<1>1. SoloValidos /\ UnSoloSitio /\ EnLaCola("new") \in Sitios
  BY SitiosDe DEF UnoSolo, Posesion, Colas
<1>2. Valido(r) /\ Valido(u)
  BY <1>1 DEF SoloValidos
<1>3. r \in Refs /\ u \in Refs
  BY <1>2 DEF Valido, NULO, Pids
<1>4. ~Tiene(EnLaCola("new"), r) /\ ~Tiene(EnLaCola("new"), u)
  BY <1>1, <1>3 DEF UnSoloSitio
<1>5. ~EnCola(r, cola["new"]) /\ ~EnCola(u, cola["new"])
  BY <1>4, TieneDe DEF Colas
<1>6. r = u
  BY <1>2, <1>3, <1>5, AdmitidoUnico
<1>7. QED
  BY <1>1, <1>2, <1>3, <1>5, <1>6 DEF UnSoloSitio

\* Where the PCB is of a thread that talks to the memory.
SitioDeSuPcb(h) == IF h = CortoPlazo THEN EnLaCola("exit") ELSE h

LEMMA QuienConversa ==
    ASSUME TypeOK, LiberarEnExit, NEW h \in Hilos, pc[h] \in Hablando
    PROVE  /\ h \in {LargoPlazo, CortoPlazo} \cup DePageFault
           /\ h = CortoPlazo <=> pc[h] = "resp_liberar"
           /\ pc[h] = "resp_indices" => h = LargoPlazo
           /\ SitioDeSuPcb(h) \in Sitios \ {EnLaCola("new")} /\ Tiene(SitioDeSuPcb(h), ptr[h])
           /\ ptr[h] \in Refs \cup {NULO}
<1>1. pc[h] \in Lugares(h) /\ ptr[h] \in Refs \cup {NULO}
  BY DEF TypeOK
<1>2. h \in {LargoPlazo, CortoPlazo} \cup DePageFault
  BY <1>1, LugaresDe DEF Hablando, Hilos
<1>3. /\ h = CortoPlazo <=> pc[h] = "resp_liberar"
      /\ pc[h] = "resp_indices" => h = LargoPlazo
  BY <1>1, <1>2, LugaresDe, HilosFijos DEF Hablando
<1>4. CASE h = CortoPlazo
  <2>1. EnCola(ptr[h], cola["exit"])
    BY <1>3, <1>4 DEF LiberarEnExit
  <2>2. EnLaCola("exit") \in Sitios /\ EnLaCola("exit") # EnLaCola("new")
    BY SitiosDe DEF Colas
  <2>3. Tiene(EnLaCola("exit"), ptr[h])
    BY <2>1, TieneDe DEF Colas
  <2>4. QED
    BY <1>1, <1>2, <1>3, <1>4, <2>2, <2>3 DEF SitioDeSuPcb
<1>5. CASE h # CortoPlazo
  <2>1. pc[h] \in EnHilo(h)
    BY <1>2, <1>3, <1>5, EnHiloDe DEF Hablando
  <2>2. h \in Sitios /\ h # EnLaCola("new")
    BY SitiosDe DEF Colas
  <2>3. Tiene(h, ptr[h])
    BY <2>1, TieneDe
  <2>4. QED
    BY <1>1, <1>2, <1>3, <1>5, <2>2, <2>3 DEF SitioDeSuPcb
<1>6. QED
  BY <1>4, <1>5

\* Two threads never talk to the memory at a time.
LEMMA ConversaUno ==
    ASSUME Grado = 1, UnoSolo, LiberarEnExit, NEW h \in Hilos, NEW k \in Hilos,
           pc[h] \in Hablando, pc[k] \in Hablando
    PROVE  h = k
<1>1. TypeOK
  BY DEF UnoSolo, IInv
<1>2. SitioDeSuPcb(h) = SitioDeSuPcb(k)
  BY <1>1, QuienConversa, SitioUnico
<1>3. QED
  BY <1>2, SitiosDe DEF SitioDeSuPcb, Colas

\* Nobody talks to the memory when a thread that is about to ask has its PCB.
LEMMA NadieConversa ==
    ASSUME Grado = 1, UnoSolo, LiberarEnExit,
           \/ \E h \in Hilos : pc[h] \notin Hablando /\ pc[h] \in EnHilo(h)
           \/ pc[CortoPlazo] = "dirigir" /\ ~pcb[ptr[CortoPlazo][1]].page_fault
    PROVE  \A k \in Hilos : pc[k] \notin Hablando
<1> SUFFICES ASSUME NEW k \in Hilos, pc[k] \in Hablando PROVE FALSE
  OBVIOUS
<1>1. TypeOK /\ IInv
  BY DEF UnoSolo, IInv
<1>2. /\ SitioDeSuPcb(k) \in Sitios \ {EnLaCola("new")} /\ Tiene(SitioDeSuPcb(k), ptr[k])
      /\ ptr[k] \in Refs \cup {NULO}
  BY <1>1, QuienConversa
<1>3. ASSUME NEW h \in Hilos, pc[h] \notin Hablando, pc[h] \in EnHilo(h) PROVE FALSE
  <2>1. h \in Sitios /\ h # EnLaCola("new") /\ Tiene(h, ptr[h]) /\ ptr[h] \in Refs \cup {NULO}
    BY <1>1, <1>3, SitiosDe, TieneDe DEF TypeOK, Colas
  <2>2. h = SitioDeSuPcb(k)
    BY <1>2, <2>1, SitioUnico
  <2>3. h = k
    BY <2>2, SitiosDe DEF SitioDeSuPcb, Colas
  <2>4. QED
    BY <1>3, <2>3
<1>4. CASE pc[CortoPlazo] = "dirigir" /\ ~pcb[ptr[CortoPlazo][1]].page_fault
  <2> DEFINE r == ptr[CortoPlazo]
  <2>1. Valido(r) /\ \A s \in Sitios : ~Tiene(s, r)
    BY <1>4 DEF UnoSolo, ADirigir
  <2>2. r \in Refs /\ EnLaCola("new") \in Sitios
    BY <1>1, <1>4, SitiosDe DEF IInv, Referencias, Colas
  <2>3. ~EnCola(r, cola["new"])
    BY <2>1, <2>2, TieneDe DEF Colas
  <2>4. ptr[k] \in Refs /\ Valido(ptr[k]) /\ ~EnCola(ptr[k], cola["new"])
    BY <1>2, SitioUnico
  <2>5. r = ptr[k]
    BY <2>1, <2>2, <2>3, <2>4, AdmitidoUnico
  <2>6. QED
    BY <1>2, <2>1, <2>5
<1>5. QED
  BY <1>3, <1>4

\* The thread that destroys PCBs finds one in the EXIT queue only when the dispatcher
\* does not wait for a release.
LEMMA ExitSinLiberar ==
    ASSUME Grado = 1, UnoSolo, pc[Rajar] = "sacar_exit"
    PROVE  pc[CortoPlazo] # "resp_liberar"
<1> SUFFICES ASSUME pc[CortoPlazo] = "resp_liberar" PROVE FALSE
  OBVIOUS
<1> DEFINE q == cola["exit"]
<1>1. TypeOK /\ CuentaExit /\ SinRepetidos
  BY DEF UnoSolo, IInv, Posesion
<1>2. q \in Seq(Refs) /\ Len(q) >= 2
  <2>1. q \in Seq(Refs) /\ sem["procesos_finalizados"] \in Nat
    BY <1>1 DEF TypeOK, Colas, Semaforos
  <2>2. Len(q) = sem["procesos_finalizados"] + Uno(TRUE) + Uno(TRUE)
    BY <1>1 DEF CuentaExit
  <2> QED BY ONLY <2>1, <2>2 DEF Uno
<1>3. 1 \in DOMAIN q /\ 2 \in DOMAIN q /\ q[1] \in Refs /\ q[2] \in Refs
  BY <1>2
<1>4. EnLaCola("exit") \in Sitios \ {EnLaCola("new")}
  BY SitiosDe DEF Colas
<1>5. Tiene(EnLaCola("exit"), q[1]) /\ Tiene(EnLaCola("exit"), q[2])
  BY <1>3, TieneDe DEF EnCola, Colas
<1>6. q[1] = q[2]
  BY <1>3, <1>4, <1>5, SitioUnico
<1>7. QED
  BY <1>1, <1>3, <1>6 DEF SinRepetidos, SinRepetir, Colas

\* A step that takes no part in any conversation with the memory.
AparteDe(h) ==
    /\ \A k \in Hilos : k # h => ptr'[k] = ptr[k]
    /\ UNCHANGED <<pedidos, respuestas, estructuras, consola>>
    /\ cola'["exit"] = cola["exit"]
Aparte ==
    /\ \A h \in Hilos : pc[h] \in Hablando \/ pc'[h] \in Hablando =>
          pc'[h] = pc[h] /\ ptr'[h] = ptr[h]
    /\ \A h \in Hilos : pc'[h] = "muerto" => pc[h] = "muerto"
    /\ UNCHANGED <<pedidos, respuestas, estructuras>>
    /\ \A p \in Pids : consola'[p] = "finalizada" => consola[p] = "finalizada"
    /\ pc[CortoPlazo] = "resp_liberar" => cola'["exit"] = cola["exit"]

LEMMA AparteIUno ==
    ASSUME IUno, Aparte
    PROVE  IUno'
<1>1. \A h \in Hilos : pc'[h] \in Hablando <=> pc[h] \in Hablando
  BY DEF Aparte
<1>2. \A h \in Hilos : pc'[h] \in Hablando =>
         /\ pc'[h] = pc[h] /\ PedidoDe(h)' = PedidoDe(h) /\ RespuestaA(h)' = RespuestaA(h)
  BY DEF Aparte, PedidoDe, RespuestaA
<1>3. UNCHANGED <<pedidos, respuestas, estructuras>>
  BY DEF Aparte
<1>4. LargoPlazo \in Hilos /\ CortoPlazo \in Hilos
  BY HilosFijos
<1>5. UnaConversacion'
  <2>1. ASSUME NEW h \in Hilos, pc'[h] \in {"resp", "resp_liberar"}
        PROVE  \/ pedidos' = <<PedidoDe(h)'>> /\ respuestas' = <<>>
               \/ pedidos' = <<>> /\ respuestas' = RespuestaA(h)'
    <3>1. /\ pc[h] \in {"resp", "resp_liberar"}
          /\ PedidoDe(h)' = PedidoDe(h) /\ RespuestaA(h)' = RespuestaA(h)
      BY <1>2, <2>1 DEF Hablando
    <3>2. \/ pedidos = <<PedidoDe(h)>> /\ respuestas = <<>>
          \/ pedidos = <<>> /\ respuestas = RespuestaA(h)
      BY <3>1 DEF IUno, UnaConversacion
    <3>3. QED
      BY <1>3, <3>1, <3>2
  <2>2. ASSUME pc'[LargoPlazo] = "resp_indices"
        PROVE  pedidos' = <<>> /\ respuestas' = Tail(RespuestaA(LargoPlazo)')
    <3>1. pc[LargoPlazo] = "resp_indices" /\ RespuestaA(LargoPlazo)' = RespuestaA(LargoPlazo)
      BY <1>2, <1>4, <2>2 DEF Hablando
    <3>2. pedidos = <<>> /\ respuestas = Tail(RespuestaA(LargoPlazo))
      BY <3>1 DEF IUno, UnaConversacion
    <3>3. QED
      BY <1>3, <3>1, <3>2
  <2>3. ASSUME \A h \in Hilos : pc'[h] \notin Hablando
        PROVE  pedidos' = <<>> /\ respuestas' = <<>>
    <3>1. pedidos = <<>> /\ respuestas = <<>>
      BY <1>1, <2>3 DEF IUno, UnaConversacion, Conversa, Hablando
    <3>2. QED
      BY <1>3, <3>1
  <2>4. QED
    BY <2>1, <2>2, <2>3 DEF UnaConversacion, Conversa, Hablando
<1>6. LiberarEnExit'
  BY <1>2, <1>4 DEF IUno, LiberarEnExit, Aparte, EnCola, Hablando
<1>7. RespuestaLiberada' /\ FinalizarTrasLiberar' /\ SinErrorDeMemoria'
  BY DEF IUno, Aparte, RespuestaLiberada, FinalizarTrasLiberar, SinErrorDeMemoria
<1>8. QED
  BY <1>5, <1>6, <1>7 DEF IUno

LEMMA AparteIr ==
    ASSUME TypeOK, NEW h \in Hilos, NEW l \in Lugares(h), Ir(h, l), AparteDe(h),
           pc[h] \notin Hablando, l \notin Hablando \cup {"muerto"}
    PROVE  Aparte
BY IrTipo DEF Aparte, AparteDe

LEMMA EsperarAparte ==
    ASSUME TypeOK, NEW h \in Hilos, NEW de, NEW s, NEW a \in Lugares(h),
           Esperar(h, de, s, a) \/ Avisar(h, de, s, a),
           de \notin Hablando, a \notin Hablando \cup {"muerto"}
    PROVE  Aparte
BY AparteIr DEF AparteDe, Esperar, Avisar, En, memoria, entorno

LEMMA SeguirAparte ==
    ASSUME TypeOK, NEW h \in Hilos, NEW a \in Lugares(h), Seguir(h, a),
           pc[h] \notin Hablando, a \notin Hablando \cup {"muerto"}
    PROVE  Aparte
BY AparteIr DEF AparteDe, Seguir, memoria, entorno

LEMMA FallarAparte == ASSUME UNCHANGED vars \/ \E f : Fallar(f) PROVE Aparte
BY DEF Fallar, Aparte, memoria, vars, entorno

LEMMA PasarAReadyAparte ==
    ASSUME TypeOK, NEW h \in Pasadores, PasarAReady(h)
    PROVE  Aparte
<1>1. /\ h \in Hilos /\ {"push_ready", "limpiar", "post_ready"} \subseteq Lugares(h)
      /\ TrasReady(h) \in Lugares(h) /\ TrasReady(h) \notin Hablando \cup {"muerto"}
  BY PasadoresDe, TrasReadyDe DEF Pasadores, Contados, Hablando
<1>2. CASE PushReady(h)
  <2>1. cola'["exit"] = cola["exit"]
    BY <1>2 DEF PushReady, TypeOK, Colas
  <2>2. pc[h] = "push_ready" /\ Ir(h, "limpiar") /\ AparteDe(h)
    BY <1>2, <2>1 DEF PushReady, En, AparteDe, memoria, entorno
  <2>3. QED
    BY <1>1, <2>2, AparteIr DEF Hablando
<1>3. CASE LimpiarBanderas(h)
  <2>1. pc[h] = "limpiar" /\ Ir(h, "post_ready") /\ AparteDe(h)
    BY <1>3 DEF LimpiarBanderas, En, AparteDe, memoria, entorno
  <2>2. QED
    BY <1>1, <2>1, AparteIr DEF Hablando
<1>4. CASE UsoTrasLiberar(h)
  BY <1>4, FallarAparte DEF UsoTrasLiberar
<1>5. CASE Avisar(h, "post_ready", "procesos_ready", TrasReady(h))
  BY <1>1, <1>5, EsperarAparte DEF Hablando
<1>6. QED
  BY <1>2, <1>3, <1>4, <1>5 DEF PasarAReady

\* A request: nobody talked to the memory, and now one thread does.
LEMMA PedirIUno ==
    ASSUME TypeOK, IUno, \A k \in Hilos : pc[k] \notin Hablando,
           NEW h \in {LargoPlazo, CortoPlazo} \cup DePageFault, NEW l \in Lugares(h), Ir(h, l),
           l = IF h = CortoPlazo THEN "resp_liberar" ELSE "resp",
           pedidos' = Append(pedidos, PedidoDe(h)), ptr' = ptr,
           UNCHANGED <<respuestas, estructuras, consola>>,
           h = CortoPlazo => EnCola(ptr[h], cola'["exit"])
    PROVE  IUno'
<1>1. h \in Hilos /\ LargoPlazo \in Hilos /\ CortoPlazo \in Hilos
  BY HilosFijos DEF Hilos
<1>2. /\ pc'[h] = l /\ \A k \in Hilos : k # h => pc'[k] = pc[k] /\ pc'[k] \notin Hablando
      /\ l \in {"resp", "resp_liberar"} /\ l \in Hablando
  BY <1>1, IrTipo DEF Hablando
<1>3. pedidos = <<>> /\ respuestas = <<>>
  BY DEF IUno, UnaConversacion, Conversa, Hablando
<1>4. PedidoDe(h)' = PedidoDe(h) /\ pedidos' = <<PedidoDe(h)'>> /\ respuestas' = <<>>
  BY <1>3 DEF PedidoDe
<1>5. UnaConversacion'
  <2>1. \A k \in Hilos : pc'[k] \in Hablando => k = h
    BY <1>2
  <2>2. \A k \in Hilos : pc'[k] \in {"resp", "resp_liberar"} =>
           pedidos' = <<PedidoDe(k)'>> /\ respuestas' = <<>>
    BY <1>4, <2>1 DEF Hablando
  <2>3. pc'[LargoPlazo] # "resp_indices"
    BY <1>1, <1>2, <2>1 DEF Hablando
  <2>4. ~\A k \in Hilos : ~(pc'[k] \in {"resp", "resp_indices", "resp_liberar"})
    BY <1>1, <1>2 DEF Hablando
  <2>5. QED
    BY <2>2, <2>3, <2>4 DEF UnaConversacion, Conversa
<1>6. LiberarEnExit'
  BY <1>1, <1>2 DEF LiberarEnExit, Hablando, EnCola
<1>7. RespuestaLiberada' /\ FinalizarTrasLiberar' /\ SinErrorDeMemoria'
  BY <1>1, <1>2 DEF IUno, RespuestaLiberada, FinalizarTrasLiberar, SinErrorDeMemoria
<1>8. QED
  BY <1>5, <1>6, <1>7 DEF IUno

LEMMA SecuenciasCortas ==
    /\ \A a, b : Tail(<<a, b>>) = <<b>> /\ Head(<<a, b>>) = a
    /\ \A a : /\ Tail(<<a>>) = <<>> /\ Head(<<a>>) = a
              /\ DOMAIN <<a>> = {1} /\ <<a>>[1] = a
OBVIOUS

\* What a thread finds on the socket is the answer to what it asked.
LEMMA RespuestaDe ==
    /\ RespuestaA(LargoPlazo) = <<Msj("OKI_ESTRUCTURAS", ptr[LargoPlazo][1]),
                                  Msj("INDICES", ptr[LargoPlazo][1])>>
    /\ RespuestaA(CortoPlazo) = <<Msj("OKI_LIBERAR_ESTRUCTURAS", ptr[CortoPlazo][1])>>
    /\ \A h \in DePageFault : RespuestaA(h) = <<Msj("OKI_PAGINA", ptr[h][1])>>
BY HilosFijos DEF RespuestaA, PedidoDe, Codigos, Msj

LEMMA LeeSuRespuesta ==
    ASSUME IUno, TypeOK, NEW h \in Hilos, pc[h] \in Hablando, respuestas # <<>>
    PROVE  /\ pedidos = <<>>
           /\ h = LargoPlazo /\ pc[h] = "resp" =>
                respuestas = <<Msj("OKI_ESTRUCTURAS", ptr[h][1]), Msj("INDICES", ptr[h][1])>>
           /\ h = LargoPlazo /\ pc[h] = "resp_indices" => respuestas = <<Msj("INDICES", ptr[h][1])>>
           /\ h = CortoPlazo => respuestas = <<Msj("OKI_LIBERAR_ESTRUCTURAS", ptr[h][1])>>
           /\ h \in DePageFault => respuestas = <<Msj("OKI_PAGINA", ptr[h][1])>>
           /\ Head(respuestas).pid = ptr[h][1]
<1>1. /\ h \in {LargoPlazo, CortoPlazo} \cup DePageFault
      /\ pc[h] = "resp_indices" => h = LargoPlazo
  BY QuienConversa DEF IUno
<1>2. CASE pc[h] = "resp_indices"
  <2>1. pedidos = <<>> /\ respuestas = Tail(RespuestaA(LargoPlazo))
    BY <1>1, <1>2 DEF IUno, UnaConversacion
  <2>2. respuestas = <<Msj("INDICES", ptr[h][1])>>
    BY <1>1, <1>2, <2>1, RespuestaDe, SecuenciasCortas
  <2>3. Head(respuestas) = Msj("INDICES", ptr[h][1])
    BY <2>2, SecuenciasCortas
  <2>4. Head(respuestas).pid = ptr[h][1]
    BY <2>3, MsjTipo
  <2>5. h = LargoPlazo /\ h # CortoPlazo /\ h \notin DePageFault
    BY <1>1, <1>2, HilosFijos
  <2>6. QED
    BY <1>2, <2>1, <2>2, <2>4, <2>5
<1>3. CASE pc[h] # "resp_indices"
  <2>1. pc[h] \in {"resp", "resp_liberar"}
    BY <1>3 DEF Hablando
  <2>2. pedidos = <<>> /\ respuestas = RespuestaA(h)
    BY <2>1 DEF IUno, UnaConversacion
  <2>3. Head(respuestas).pid = ptr[h][1]
    BY <1>1, <2>2, RespuestaDe DEF Msj
  <2>4. h = LargoPlazo => respuestas = <<Msj("OKI_ESTRUCTURAS", ptr[h][1]), Msj("INDICES", ptr[h][1])>>
    BY <2>2, RespuestaDe
  <2>5. h = CortoPlazo => respuestas = <<Msj("OKI_LIBERAR_ESTRUCTURAS", ptr[h][1])>>
    BY <2>2, RespuestaDe
  <2>6. h \in DePageFault => respuestas = <<Msj("OKI_PAGINA", ptr[h][1])>>
    BY <2>2, RespuestaDe
  <2>7. QED
    BY <1>3, <2>2, <2>3, <2>4, <2>5, <2>6
<1>4. QED
  BY <1>2, <1>3

\* A reply is read: what is left of it, for the same thread, are the indices.
LEMMA RecibirIUno ==
    ASSUME Grado = 1, UnoSolo, IUno, NEW h \in {LargoPlazo, CortoPlazo} \cup DePageFault,
           NEW l \in Lugares(h), Ir(h, l), pc[h] \in Hablando, respuestas # <<>>,
           respuestas' = Tail(respuestas), ptr' = ptr, UNCHANGED <<pedidos, estructuras>>,
           IF h = LargoPlazo /\ pc[h] = "resp" THEN l = "resp_indices"
                                               ELSE l \notin Hablando \cup {"muerto"},
           \A p \in Pids : consola'[p] = "finalizada" =>
              consola[p] = "finalizada" \/ (h = CortoPlazo /\ p = ptr[h][1])
    PROVE  IUno'
<1>1. TypeOK /\ LiberarEnExit /\ h \in Hilos /\ LargoPlazo \in Hilos /\ CortoPlazo \in Hilos
  BY HilosFijos DEF UnoSolo, IInv, IUno, Hilos
<1>2. /\ pc'[h] = l /\ \A k \in Hilos : k # h => pc'[k] = pc[k] /\ pc'[k] \notin Hablando
  BY <1>1, IrTipo, ConversaUno
<1>3. /\ pedidos = <<>>
      /\ h = LargoPlazo /\ pc[h] = "resp" =>
           respuestas = <<Msj("OKI_ESTRUCTURAS", ptr[h][1]), Msj("INDICES", ptr[h][1])>>
      /\ h = LargoPlazo /\ pc[h] = "resp_indices" => respuestas = <<Msj("INDICES", ptr[h][1])>>
      /\ h = CortoPlazo => respuestas = <<Msj("OKI_LIBERAR_ESTRUCTURAS", ptr[h][1])>>
      /\ h \in DePageFault => respuestas = <<Msj("OKI_PAGINA", ptr[h][1])>>
  BY <1>1, LeeSuRespuesta
<1>4. pedidos' = <<>>
  BY <1>3
<1>5. UnaConversacion' /\ LiberarEnExit' /\ RespuestaLiberada'
  <2>1. CASE h = LargoPlazo /\ pc[h] = "resp"
    <3> DEFINE p == ptr[LargoPlazo][1]
    <3>0. Tail(<<Msj("OKI_ESTRUCTURAS", p), Msj("INDICES", p)>>) = <<Msj("INDICES", p)>>
      BY SecuenciasCortas
    <3>1. respuestas' = <<Msj("INDICES", p)>> /\ l = "resp_indices"
      BY <1>3, <2>1, <3>0
    <3>2. respuestas' = Tail(RespuestaA(LargoPlazo)')
      <4>1. RespuestaA(LargoPlazo)' = RespuestaA(LargoPlazo)
        BY DEF RespuestaA, PedidoDe
      <4>2. QED
        BY <3>0, <3>1, <4>1, RespuestaDe
    <3>3. \A k \in Hilos : pc'[k] \notin {"resp", "resp_liberar"}
      BY <1>2, <2>1, <3>1 DEF Hablando
    <3>4. pc'[LargoPlazo] = "resp_indices" /\ pc'[CortoPlazo] # "resp_liberar"
      BY <1>1, <1>2, <2>1, <3>1, <3>3
    <3>5. UnaConversacion'
      BY <1>1, <1>4, <3>2, <3>3, <3>4 DEF UnaConversacion, Conversa
    <3>6. RespuestaLiberada'
      <4>1. DOMAIN <<Msj("INDICES", p)>> = {1} /\ <<Msj("INDICES", p)>>[1] = Msj("INDICES", p)
        BY SecuenciasCortas
      <4>2. DOMAIN respuestas' = {1} /\ respuestas'[1] = Msj("INDICES", p)
        BY <3>1, <4>1
      <4>3. Msj("INDICES", p).cod = "INDICES"
        BY MsjTipo
      <4>4. respuestas'[1].cod = "INDICES"
        BY <4>2, <4>3
      <4>5. QED
        BY <4>2, <4>4 DEF RespuestaLiberada
    <3>7. QED
      BY <3>4, <3>5, <3>6 DEF LiberarEnExit
  <2>2. CASE ~(h = LargoPlazo /\ pc[h] = "resp")
    <3>1. respuestas' = <<>>
      <4>1. h = LargoPlazo => pc[h] = "resp_indices"
        BY <1>1, <2>2, QuienConversa, HilosFijos DEF Hablando
      <4>2. QED
        BY <1>3, <4>1
    <3>2. \A k \in Hilos : pc'[k] \notin Hablando
      BY <1>2, <2>2
    <3>3. QED
      BY <1>1, <1>4, <3>1, <3>2 DEF UnaConversacion, LiberarEnExit, RespuestaLiberada, Hablando
  <2>3. QED
    BY <2>1, <2>2
<1>6. FinalizarTrasLiberar'
  <2>1. h = CortoPlazo => estructuras[ptr[h][1]] = "liberadas"
    BY <1>3 DEF IUno, RespuestaLiberada, Msj
  <2>2. QED
    BY <2>1 DEF IUno, FinalizarTrasLiberar
<1>7. SinErrorDeMemoria'
  BY <1>1, <1>2 DEF IUno, SinErrorDeMemoria
<1>8. QED
  BY <1>5, <1>6, <1>7 DEF IUno

\* The memory answers the one request there is.
LEMMA UnPedido ==
    ASSUME IUno, TypeOK, pedidos # <<>>
    PROVE  /\ respuestas = <<>> /\ pc[LargoPlazo] # "resp_indices"
           /\ \E h \in Hilos : pc[h] \in Hablando
           /\ \A h \in Hilos : pc[h] \in Hablando => pedidos = <<PedidoDe(h)>>
<1>1. PICK h \in Hilos : pc[h] \in Hablando
  BY DEF IUno, UnaConversacion, Conversa, Hablando
<1>2. pc[LargoPlazo] # "resp_indices"
  BY DEF IUno, UnaConversacion
<1>3. \A k \in Hilos : pc[k] \in Hablando => pedidos = <<PedidoDe(k)>> /\ respuestas = <<>>
  <2> SUFFICES ASSUME NEW k \in Hilos, pc[k] \in Hablando
               PROVE  pedidos = <<PedidoDe(k)>> /\ respuestas = <<>>
    OBVIOUS
  <2>1. pc[k] \in {"resp", "resp_liberar"}
    BY <1>2, QuienConversa DEF IUno, Hablando
  <2>2. QED
    BY <2>1 DEF IUno, UnaConversacion
<1>4. QED
  BY <1>1, <1>2, <1>3

LEMMA AtenderKernelIUno ==
    ASSUME IInv, CreacionUnica, IUno, AtenderKernel
    PROVE  IUno'
<1>1. TypeOK /\ LargoPlazo \in Hilos /\ CortoPlazo \in Hilos
  BY HilosFijos DEF IInv
<1>2. PICK p \in Pids :
         /\ pedidos # <<>> /\ Head(pedidos).pid = p /\ pedidos' = Tail(pedidos)
         /\ \/ /\ Head(pedidos).cod = "ESTRUCTURAS"
               /\ respuestas' = Append(Append(respuestas, Msj("OKI_ESTRUCTURAS", p)),
                                       Msj("INDICES", p))
               /\ estructuras' = [estructuras EXCEPT ![p] = "creadas"]
            \/ /\ Head(pedidos).cod = "PAGINA"
               /\ respuestas' = Append(respuestas, Msj("OKI_PAGINA", p))
               /\ estructuras' = estructuras
            \/ /\ Head(pedidos).cod = "LIBERAR_ESTRUCTURAS"
               /\ respuestas' = Append(respuestas, Msj("OKI_LIBERAR_ESTRUCTURAS", p))
               /\ estructuras' = [estructuras EXCEPT ![p] = "liberadas"]
         /\ UNCHANGED <<cola, sem, dispositivos, procesos, pc, ptr,
                        conexion_memoria_mutex, entorno>>
  BY AtenderKernelDe
<1>3. /\ respuestas = <<>> /\ pc[LargoPlazo] # "resp_indices"
      /\ \A h \in Hilos : pc[h] \in Hablando => pedidos = <<PedidoDe(h)>>
  BY <1>1, <1>2, UnPedido
<1>4. PICK h0 \in Hilos : pc[h0] \in Hablando
  BY <1>1, <1>2, UnPedido
<1>5. pedidos = <<PedidoDe(h0)>> /\ pedidos' = <<>>
  <2>1. pedidos = <<PedidoDe(h0)>>
    BY ONLY <1>3, <1>4
  <2>2. pedidos' = Tail(pedidos)
    BY ONLY <1>2
  <2> QED BY ONLY <2>1, <2>2
<1>6. estructuras' = estructuras \/
      \/ /\ Head(pedidos).cod = "ESTRUCTURAS" /\ estructuras[p] = "no"
         /\ estructuras' = [estructuras EXCEPT ![p] = "creadas"]
      \/ /\ Head(pedidos).cod = "LIBERAR_ESTRUCTURAS"
         /\ estructuras' = [estructuras EXCEPT ![p] = "liberadas"]
  <2>1. 1 \in DOMAIN pedidos /\ pedidos[1] = Head(pedidos)
    BY <1>5
  <2>2. Head(pedidos).cod = "ESTRUCTURAS" => estructuras[p] = "no"
    BY <1>2, <2>1 DEF CreacionUnica
  <2>3. QED
    BY <1>2, <2>2
<1>7. \A h \in Hilos : pc[h] \in Hablando => respuestas' = RespuestaA(h)
  <2> SUFFICES ASSUME NEW h \in Hilos, pc[h] \in Hablando PROVE respuestas' = RespuestaA(h)
    OBVIOUS
  <2>1. h \in {LargoPlazo, CortoPlazo} \cup DePageFault
    BY <1>1, QuienConversa DEF IUno
  <2>2. Head(pedidos) = PedidoDe(h)
    BY <1>3
  <2>3. p = ptr[h][1]
    BY <1>2, <2>2 DEF PedidoDe
  <2>4. CASE h = LargoPlazo
    <3>1. Head(pedidos).cod = "ESTRUCTURAS"
      BY <2>2, <2>4 DEF PedidoDe
    <3>2. respuestas' = Append(Append(<<>>, Msj("OKI_ESTRUCTURAS", p)), Msj("INDICES", p))
      BY <1>2, <1>3, <3>1
    <3>3. \A a, b : <<>> \o <<a, b>> = <<a, b>>
      OBVIOUS
    <3>4. Append(Append(<<>>, Msj("OKI_ESTRUCTURAS", p)), Msj("INDICES", p))
            = <<Msj("OKI_ESTRUCTURAS", p), Msj("INDICES", p)>>
      <4> DEFINE a == Msj("OKI_ESTRUCTURAS", p)
                 b == Msj("INDICES", p)
      <4>1. <<>> \in Seq(Respuesta) /\ a \in Respuesta /\ b \in Respuesta
        BY MsjTipo
      <4> HIDE DEF a, b
      <4>2. <<>> \o <<a, b>> = Append(Append(<<>>, a), b)
        BY <4>1, AppendDosVeces
      <4>3. QED
        BY <3>3, <4>2 DEF a, b
    <3>5. QED
      BY <2>3, <2>4, <3>2, <3>4, RespuestaDe
  <2>5. CASE h = CortoPlazo
    <3>1. Head(pedidos).cod = "LIBERAR_ESTRUCTURAS"
      BY <2>2, <2>5, HilosFijos DEF PedidoDe
    <3>2. respuestas' = Append(<<>>, Msj("OKI_LIBERAR_ESTRUCTURAS", p))
      BY <1>2, <1>3, <3>1
    <3>3. QED
      BY <2>3, <2>5, <3>2, RespuestaDe
  <2>6. CASE h \in DePageFault
    <3>1. Head(pedidos).cod = "PAGINA"
      BY <2>2, <2>6, HilosFijos DEF PedidoDe
    <3>2. respuestas' = Append(<<>>, Msj("OKI_PAGINA", p))
      BY <1>2, <1>3, <3>1
    <3>3. QED
      BY <2>3, <2>6, <3>2, RespuestaDe
  <2>7. QED
    BY <2>1, <2>4, <2>5, <2>6
<1>8. UnaConversacion'
  <2>1. \A h \in Hilos : pc'[h] = pc[h] /\ RespuestaA(h)' = RespuestaA(h)
    BY <1>2 DEF RespuestaA, PedidoDe
  <2>2. \A h \in Hilos : pc'[h] \in Hablando => pedidos' = <<>> /\ respuestas' = RespuestaA(h)'
    BY <1>5, <1>7, <2>1
  <2>3. pc'[LargoPlazo] # "resp_indices" /\ pc'[h0] \in Hablando
    BY <1>1, <1>3, <1>4, <2>1
  <2>4. QED
    BY <2>2, <2>3 DEF UnaConversacion, Conversa, Hablando
<1>9. LiberarEnExit' /\ SinErrorDeMemoria'
  BY <1>2 DEF IUno, LiberarEnExit, SinErrorDeMemoria, EnCola
<1>10. RespuestaLiberada'
  <2> DEFINE m == Msj("OKI_LIBERAR_ESTRUCTURAS", p)
  <2>1. CASE Head(pedidos).cod = "LIBERAR_ESTRUCTURAS"
    <3>1. respuestas' = Append(<<>>, m) /\ estructuras'[p] = "liberadas"
      BY <1>1, <1>2, <1>3, <2>1 DEF TypeOK
    <3>2. respuestas' = <<m>>
      BY <3>1
    <3>3. m.pid = p
      BY MsjTipo
    <3> HIDE DEF m
    <3>4. DOMAIN respuestas' = {1} /\ respuestas'[1] = m
      BY <3>2, SecuenciasCortas
    <3>5. QED
      BY <3>1, <3>3, <3>4 DEF RespuestaLiberada
  <2>2. CASE Head(pedidos).cod # "LIBERAR_ESTRUCTURAS"
    <3>1. \A i \in DOMAIN respuestas' : respuestas'[i].cod # "OKI_LIBERAR_ESTRUCTURAS"
      <4>1. \A a, b : DOMAIN Append(Append(<<>>, a), b) = {1, 2} /\ DOMAIN Append(<<>>, a) = {1}
        OBVIOUS
      <4>2. \A a, b : /\ Append(Append(<<>>, a), b)[1] = a /\ Append(Append(<<>>, a), b)[2] = b
                      /\ Append(<<>>, a)[1] = a
        OBVIOUS
      <4>3. CASE Head(pedidos).cod = "ESTRUCTURAS"
        <5>1. /\ DOMAIN respuestas' = {1, 2} /\ respuestas'[1] = Msj("OKI_ESTRUCTURAS", p)
              /\ respuestas'[2] = Msj("INDICES", p)
          BY <1>2, <1>3, <4>1, <4>2, <4>3
        <5>2. QED
          BY <5>1, MsjTipo
      <4>4. CASE Head(pedidos).cod = "PAGINA"
        <5>1. DOMAIN respuestas' = {1} /\ respuestas'[1] = Msj("OKI_PAGINA", p)
          BY <1>2, <1>3, <4>1, <4>2, <4>4
        <5>2. QED
          BY <5>1, MsjTipo
      <4>5. QED
        BY <1>2, <2>2, <4>3, <4>4
    <3>2. QED
      BY <3>1 DEF RespuestaLiberada
  <2>3. QED
    BY <2>1, <2>2
<1>11. FinalizarTrasLiberar'
  <2>1. consola' = consola /\ estructuras \in [Pids -> {"no", "creadas", "liberadas"}]
    BY <1>1, <1>2 DEF entorno, TypeOK
  <2>2. \A q \in Pids : estructuras[q] = "liberadas" => estructuras'[q] = "liberadas"
    BY <1>6, <2>1
  <2>3. QED
    BY <2>1, <2>2 DEF IUno, FinalizarTrasLiberar
<1>12. QED
  BY <1>8, <1>9, <1>10, <1>11 DEF IUno

LEMMA NewAReadyUno ==
    ASSUME Grado = 1, UnoSolo, IUno, NewAReady
    PROVE  IUno'
<1>1. /\ TypeOK /\ IInv /\ LargoPlazo \in Hilos /\ LargoPlazo \in Pasadores
      /\ LargoPlazo # CortoPlazo
      /\ {"espera_grado", "sacar_new", "pedir", "resp", "resp_indices", "push_ready"}
            \subseteq Lugares(LargoPlazo)
  BY HilosFijos, LugaresDe DEF UnoSolo, IInv, Pasadores
<1>2. CASE EsperarNew \/ EsperarGrado
  BY <1>1, <1>2, EsperarAparte, AparteIUno DEF EsperarNew, EsperarGrado, Hablando
<1>3. CASE SacarNew
  <2>1. CASE PopIndebido(cola["new"])
    BY <2>1, FallarAparte, AparteIUno DEF PopIndebido
  <2>2. CASE ~PopIndebido(cola["new"])
    <3>1. /\ cola' = [cola EXCEPT !["new"] = Tail(@)]
          /\ ptr' = [ptr EXCEPT ![LargoPlazo] = Head(cola["new"])]
          /\ pc[LargoPlazo] = "sacar_new" /\ Ir(LargoPlazo, "pedir")
          /\ UNCHANGED <<memoria, entorno>>
      BY <1>3, <2>2 DEF SacarNew, En
    <3>2. AparteDe(LargoPlazo)
      BY <1>1, <3>1 DEF AparteDe, TypeOK, Colas, memoria, entorno
    <3>3. QED
      BY <1>1, <3>1, <3>2, AparteIr, AparteIUno DEF Hablando
  <2>3. QED
    BY <2>1, <2>2
<1>4. CASE Pedir(LargoPlazo, "ESTRUCTURAS")
  <2>1. pc[LargoPlazo] = "pedir" /\ pc[LargoPlazo] \in EnHilo(LargoPlazo)
    BY <1>4, EnHiloDe DEF Pedir, En
  <2>2. \A k \in Hilos : pc[k] \notin Hablando
    BY <1>1, <2>1, NadieConversa DEF IUno, Hablando
  <2>3. /\ pedidos' = Append(pedidos, PedidoDe(LargoPlazo)) /\ Ir(LargoPlazo, "resp")
        /\ UNCHANGED <<ptr, respuestas, estructuras, consola>>
    BY <1>4 DEF Pedir, PedidoDe, entorno
  <2>4. QED
    BY <1>1, <2>2, <2>3, PedirIUno
<1>5. CASE RecibirEstructuras
  <2>1. pc[LargoPlazo] = "resp" /\ pc[LargoPlazo] \in Hablando /\ respuestas # <<>>
    BY <1>5 DEF RecibirEstructuras, En, Hablando
  <2>2. Head(respuestas).cod = "OKI_ESTRUCTURAS"
    <3> DEFINE a == Msj("OKI_ESTRUCTURAS", ptr[LargoPlazo][1])
               b == Msj("INDICES", ptr[LargoPlazo][1])
    <3>1. respuestas = <<a, b>> /\ a.cod = "OKI_ESTRUCTURAS"
      BY <1>1, <2>1, LeeSuRespuesta, MsjTipo
    <3> HIDE DEF a, b
    <3>2. QED
      BY <3>1, SecuenciasCortas
  <2>3. Recibir(LargoPlazo, "resp_indices", conexion_memoria_mutex)
    BY <1>5, <2>2 DEF RecibirEstructuras, TramaCortada
  <2>4. /\ respuestas' = Tail(respuestas) /\ Ir(LargoPlazo, "resp_indices") /\ ptr' = ptr
        /\ UNCHANGED <<pedidos, estructuras, consola>>
    BY <2>3 DEF Recibir, entorno
  <2>5. QED
    BY <1>1, <2>1, <2>4, RecibirIUno
<1>6. CASE RecibirIndices
  <2>1. pc[LargoPlazo] = "resp_indices" /\ pc[LargoPlazo] \in Hablando /\ respuestas # <<>>
    BY <1>6 DEF RecibirIndices, En, Hablando
  <2>2. Head(respuestas).cod = "INDICES"
    <3> DEFINE b == Msj("INDICES", ptr[LargoPlazo][1])
    <3>1. respuestas = <<b>> /\ b.cod = "INDICES"
      BY <1>1, <2>1, LeeSuRespuesta, MsjTipo
    <3> HIDE DEF b
    <3>2. QED
      BY <3>1, SecuenciasCortas
  <2>3. Recibir(LargoPlazo, "push_ready", "libre")
    BY <1>6, <2>2 DEF RecibirIndices
  <2>4. /\ respuestas' = Tail(respuestas) /\ Ir(LargoPlazo, "push_ready") /\ ptr' = ptr
        /\ UNCHANGED <<pedidos, estructuras, consola>>
    BY <2>3 DEF Recibir, entorno
  <2>5. "push_ready" \notin Hablando \cup {"muerto"}
    BY DEF Hablando
  <2>6. QED
    BY <1>1, <2>1, <2>4, <2>5, RecibirIUno
<1>7. CASE PasarAReady(LargoPlazo)
  BY <1>1, <1>7, PasarAReadyAparte, AparteIUno
<1>8. QED
  BY <1>2, <1>3, <1>4, <1>5, <1>6, <1>7 DEF NewAReady

LEMMA RajarPcbUno ==
    ASSUME Grado = 1, UnoSolo, IUno, RajarPcb
    PROVE  IUno'
<1>1. /\ TypeOK /\ Rajar \in Hilos
      /\ Lugares(Rajar) = {"espera_finalizados", "sacar_exit", "post_grado"}
  BY HilosFijos, LugaresDe DEF UnoSolo, IInv
<1>2. CASE EsperarFinalizados \/ AvisarGrado
  BY <1>1, <1>2, EsperarAparte, AparteIUno DEF EsperarFinalizados, AvisarGrado, Hablando
<1>3. CASE SacarExit
  <2>1. CASE PopIndebido(cola["exit"])
    BY <2>1, FallarAparte, AparteIUno DEF PopIndebido
  <2>2. CASE ~PopIndebido(cola["exit"])
    <3>1. /\ pc[Rajar] = "sacar_exit" /\ Ir(Rajar, "post_grado")
          /\ UNCHANGED <<ptr, memoria, entorno>>
      BY <1>3, <2>2 DEF SacarExit, En
    <3>2. pc[CortoPlazo] # "resp_liberar"
      BY <3>1, ExitSinLiberar
    <3>3. /\ pc'[Rajar] = "post_grado" /\ \A k \in Hilos : k # Rajar => pc'[k] = pc[k]
      BY <1>1, <3>1, IrTipo
    <3>4. Aparte
      BY <3>1, <3>2, <3>3 DEF Aparte, Hablando, memoria, entorno
    <3>5. QED
      BY <3>4, AparteIUno
  <2>3. QED
    BY <2>1, <2>2
<1>4. QED
  BY <1>2, <1>3 DEF RajarPcb

LEMMA DirigirUno ==
    ASSUME Grado = 1, UnoSolo, IUno, DirigirProcesoEjecutado
    PROVE  IUno'
<1> DEFINE r == ptr[CortoPlazo]
<1>1. /\ TypeOK /\ IInv /\ CortoPlazo \in Hilos /\ pc[CortoPlazo] = "dirigir"
      /\ {"espera_ready", "push_ready", "resp_liberar"} \subseteq Lugares(CortoPlazo)
      /\ r \in Refs /\ r[1] \in Pids
  BY HilosFijos, LugaresDe DEF UnoSolo, IInv, DirigirProcesoEjecutado, En, Referencias, Refs
<1>2. CASE UsoTrasLiberar(CortoPlazo) \/ Fallar("instruccion_nula")
  BY <1>2, FallarAparte, AparteIUno DEF UsoTrasLiberar
<1>3. CASE /\ SolicitarFinalizacion(r) /\ Valido(r)
           /\ pcb[r[1]].segmentation_fault \/ ~pcb[r[1]].page_fault
  <2>1. ~pcb[r[1]].page_fault
    BY <1>1, <1>3 DEF UnoSolo, ADirigir, Encaminable
  <2>2. \A k \in Hilos : pc[k] \notin Hablando
    BY <1>1, <2>1, NadieConversa DEF IUno
  <2>3. /\ pedidos' = Append(pedidos, PedidoDe(CortoPlazo)) /\ Ir(CortoPlazo, "resp_liberar")
        /\ cola' = [cola EXCEPT !["exit"] = Append(@, r)]
        /\ UNCHANGED <<ptr, respuestas, estructuras, consola>>
    BY <1>3, HilosFijos DEF SolicitarFinalizacion, PedidoDe, entorno
  <2>4. cola'["exit"] = Append(cola["exit"], r) /\ cola["exit"] \in Seq(Refs)
    BY <1>1, <2>3 DEF TypeOK, Colas
  <2>5. EnCola(r, cola'["exit"])
    BY <1>1, <2>4, EnColaAppend
  <2>6. QED
    BY <1>1, <2>2, <2>3, <2>5, PedirIUno
<1>4. CASE SolicitarIO(r)
  <2>1. UNCHANGED <<cola, ptr, memoria, entorno>>
    BY <1>4 DEF SolicitarIO
  <2>2. CASE Ir(CortoPlazo, "espera_ready")
    <3>1. AparteDe(CortoPlazo)
      BY <2>1 DEF AparteDe, memoria, entorno
    <3>2. QED
      BY <1>1, <2>2, <3>1, AparteIr, AparteIUno DEF Hablando
  <2>3. CASE pc' = [pc EXCEPT ![CortoPlazo] = "espera_ready", ![IO(r)] = "solicitud"]
    <3>1. IO(r) \in Hilos /\ IO(r) # CortoPlazo /\ pc[IO(r)] = "no_creado"
      BY <1>1, HilosPorIndice, HilosFijos DEF IInv, Referencias
    <3>2. /\ pc'[CortoPlazo] = "espera_ready" /\ pc'[IO(r)] = "solicitud"
          /\ \A h \in Hilos : h # CortoPlazo /\ h # IO(r) => pc'[h] = pc[h]
      BY <1>1, <2>3, <3>1 DEF TypeOK
    <3>3. Aparte
      BY <1>1, <2>1, <3>1, <3>2 DEF Aparte, Hablando, memoria, entorno
    <3>4. QED
      BY <3>3, AparteIUno
  <2>4. QED
    BY <1>4, <2>2, <2>3 DEF SolicitarIO
<1>5. CASE Seguir(CortoPlazo, "espera_ready") \/ Seguir(CortoPlazo, "push_ready")
  BY <1>1, <1>5, SeguirAparte, AparteIUno DEF Hablando
<1>6. QED
  BY <1>2, <1>3, <1>4, <1>5 DEF DirigirProcesoEjecutado

LEMMA RecibirLiberarUno ==
    ASSUME Grado = 1, UnoSolo, IUno, RecibirLiberar
    PROVE  IUno'
<1>1. /\ TypeOK /\ CortoPlazo \in Hilos /\ CortoPlazo # LargoPlazo
      /\ "espera_ready" \in Lugares(CortoPlazo)
      /\ pc[CortoPlazo] \in Hablando /\ respuestas # <<>>
  BY HilosFijos, LugaresDe DEF UnoSolo, IInv, RecibirLiberar, En, Hablando
<1>2. Head(respuestas).cod = "OKI_LIBERAR_ESTRUCTURAS"
  <2> DEFINE a == Msj("OKI_LIBERAR_ESTRUCTURAS", ptr[CortoPlazo][1])
  <2>1. respuestas = <<a>> /\ a.cod = "OKI_LIBERAR_ESTRUCTURAS"
    BY <1>1, LeeSuRespuesta, MsjTipo
  <2> HIDE DEF a
  <2>2. QED
    BY <2>1, SecuenciasCortas
<1>3. /\ respuestas' = Tail(respuestas) /\ Ir(CortoPlazo, "espera_ready") /\ ptr' = ptr
      /\ consola' = [consola EXCEPT ![ptr[CortoPlazo][1]] = "finalizada"]
      /\ UNCHANGED <<pedidos, estructuras>>
  BY <1>2 DEF RecibirLiberar, TramaCortada
<1>4. \A p \in Pids : consola'[p] = "finalizada" =>
         consola[p] = "finalizada" \/ p = ptr[CortoPlazo][1]
  BY <1>1, <1>3 DEF TypeOK
<1>5. "espera_ready" \notin Hablando \cup {"muerto"}
  BY DEF Hablando
<1>6. QED
  BY <1>1, <1>3, <1>4, <1>5, RecibirIUno

LEMMA PlanificarEjecucionUno ==
    ASSUME Grado = 1, UnoSolo, IUno, PlanificarEjecucion
    PROVE  IUno'
<1>1. /\ TypeOK /\ IInv /\ CortoPlazo \in Hilos /\ CortoPlazo \in Pasadores
      /\ {"espera_ready", "mirar_rr", "sacar_rr", "sacar_fifo", "enviar", "destruir",
          "recibir"} \subseteq Lugares(CortoPlazo)
  BY HilosFijos, LugaresDe DEF UnoSolo, IInv, Pasadores
<1>2. CASE EsperarReady
  BY <1>1, <1>2, EsperarAparte, AparteIUno DEF EsperarReady, Hablando
<1>3. CASE MirarRR
  <2>1. PICK l \in {"sacar_rr", "sacar_fifo"} : En(CortoPlazo, "mirar_rr") /\ Seguir(CortoPlazo, l)
    BY <1>3 DEF MirarRR
  <2>2. /\ l \in Lugares(CortoPlazo) /\ l \notin Hablando \cup {"muerto"}
        /\ pc[CortoPlazo] \notin Hablando
    BY <1>1, <2>1 DEF En, Hablando
  <2>3. Aparte
    BY <1>1, <2>1, <2>2, SeguirAparte
  <2>4. QED
    BY <2>3, AparteIUno
<1>4. ASSUME NEW lugar \in {"sacar_rr", "sacar_fifo"}, NEW q \in {"rr", "fifo"},
             SacarReady(lugar, q)
      PROVE  IUno'
  <2>1. CASE PopIndebido(cola[q])
    BY <2>1, FallarAparte, AparteIUno DEF PopIndebido
  <2>2. CASE ~PopIndebido(cola[q])
    <3>1. /\ cola' = [cola EXCEPT ![q] = Tail(@)]
          /\ ptr' = [ptr EXCEPT ![CortoPlazo] = Head(cola[q])]
          /\ pc[CortoPlazo] = lugar /\ Ir(CortoPlazo, "enviar")
          /\ UNCHANGED <<memoria, entorno>>
      BY <1>4, <2>2 DEF SacarReady, En
    <3>2. AparteDe(CortoPlazo)
      BY <1>1, <1>4, <3>1 DEF AparteDe, TypeOK, Colas, memoria, entorno
    <3>3. QED
      BY <1>1, <1>4, <3>1, <3>2, AparteIr, AparteIUno DEF Hablando
  <2>3. QED
    BY <2>1, <2>2
<1>5. CASE EnviarPcb \/ DestruirPcb
  <2>1. CASE UsoTrasLiberar(CortoPlazo)
    BY <2>1, FallarAparte, AparteIUno DEF UsoTrasLiberar
  <2>2. CASE ~UsoTrasLiberar(CortoPlazo)
    <3>1. /\ \/ pc[CortoPlazo] = "enviar" /\ Ir(CortoPlazo, "destruir")
             \/ pc[CortoPlazo] = "destruir" /\ Ir(CortoPlazo, "recibir")
          /\ AparteDe(CortoPlazo)
      BY <1>5, <2>2 DEF EnviarPcb, DestruirPcb, En, AparteDe, memoria, entorno
    <3>2. QED
      BY <1>1, <3>1, AparteIr, AparteIUno DEF Hablando
  <2>3. QED
    BY <2>1, <2>2
<1>6. CASE RecibirPcb
  <2>1. PICK p \in Pids, r \in Refs :
            /\ pc[CortoPlazo] = "recibir" /\ pc[PF(r)] = "no_creado"
            /\ pc'[CortoPlazo] = "dirigir" /\ pc'[PF(r)] \in {"espera", "no_creado"}
            /\ \A h \in Hilos : h # CortoPlazo /\ h # PF(r) => pc'[h] = pc[h]
            /\ \A h \in Hilos : h # CortoPlazo => ptr'[h] = ptr[h]
            /\ UNCHANGED <<cola, memoria, consola>>
    BY <1>1, <1>6, RecibirPcbDe
  <2>2. Aparte
    BY <1>1, <2>1 DEF Aparte, Hablando, memoria
  <2>3. QED
    BY <2>2, AparteIUno
<1>7. CASE DirigirProcesoEjecutado
  BY <1>7, DirigirUno
<1>8. CASE RecibirLiberar
  BY <1>8, RecibirLiberarUno
<1>9. CASE PasarAReady(CortoPlazo)
  BY <1>1, <1>9, PasarAReadyAparte, AparteIUno
<1>10. QED
  BY <1>2, <1>3, <1>4, <1>5, <1>6, <1>7, <1>8, <1>9 DEF PlanificarEjecucion

LEMMA EjecucionIOUno ==
    ASSUME UnoSolo, IUno, NEW d \in Dispositivos, EjecucionIO(d)
    PROVE  IUno'
<1>1. /\ TypeOK /\ ES(d) \in Hilos /\ ES(d) \in Pasadores
      /\ {"sacar", "push_ready"} \subseteq Lugares(ES(d))
  BY HilosPorIndice, LugaresDe DEF UnoSolo, IInv, Pasadores
<1>2. CASE EsperarDispositivo(d)
  <2>1. pc[ES(d)] = "espera" /\ Ir(ES(d), "sacar") /\ AparteDe(ES(d))
    BY <1>2 DEF EsperarDispositivo, En, AparteDe, memoria, entorno
  <2>2. QED
    BY <1>1, <2>1, AparteIr, AparteIUno DEF Hablando
<1>3. CASE SacarDispositivo(d)
  <2>1. CASE PopIndebido(cola_dispositivo[d])
    BY <2>1, FallarAparte, AparteIUno DEF PopIndebido
  <2>2. CASE ~PopIndebido(cola_dispositivo[d])
    <3>1. /\ pc[ES(d)] = "sacar" /\ Ir(ES(d), "push_ready")
          /\ ptr' = [ptr EXCEPT ![ES(d)] = Head(cola_dispositivo[d])]
          /\ UNCHANGED <<cola, memoria, entorno>>
      BY <1>3, <2>2 DEF SacarDispositivo, En
    <3>2. AparteDe(ES(d))
      BY <1>1, <3>1 DEF AparteDe, TypeOK, memoria, entorno
    <3>3. QED
      BY <1>1, <3>1, <3>2, AparteIr, AparteIUno DEF Hablando
  <2>3. QED
    BY <2>1, <2>2
<1>4. CASE PasarAReady(ES(d))
  BY <1>1, <1>4, PasarAReadyAparte, AparteIUno
<1>5. QED
  BY <1>2, <1>3, <1>4 DEF EjecucionIO

LEMMA SolicitarIOConsolaUno ==
    ASSUME UnoSolo, IUno, NEW r \in Refs, SolicitarIOConsola(r)
    PROVE  IUno'
<1>1. /\ TypeOK /\ IO(r) \in Hilos /\ IO(r) \in Pasadores /\ "push_ready" \in Lugares(IO(r))
  BY HilosPorIndice, LugaresDe DEF UnoSolo, IInv, Pasadores
<1>2. CASE PasarAReady(IO(r))
  BY <1>1, <1>2, PasarAReadyAparte, AparteIUno
<1>3. CASE UsoTrasLiberar(IO(r))
  BY <1>3, FallarAparte, AparteIUno DEF UsoTrasLiberar
<1>4. CASE En(IO(r), "solicitud") /\ Seguir(IO(r), "push_ready")
  <2>1. Aparte
    BY <1>1, <1>4, SeguirAparte DEF En, Hablando
  <2>2. QED
    BY <2>1, AparteIUno
<1>5. QED
  BY <1>2, <1>3, <1>4 DEF SolicitarIOConsola, Solicitud

LEMMA ManejarPageFaultUno ==
    ASSUME Grado = 1, UnoSolo, IUno, NEW r \in Refs, ManejarPageFault(r)
    PROVE  IUno'
<1>1. /\ TypeOK /\ PF(r) \in Hilos /\ PF(r) \in Pasadores /\ PF(r) \in DePageFault
      /\ PF(r) # CortoPlazo /\ PF(r) # LargoPlazo
      /\ {"pedir", "resp", "push_ready"} \subseteq Lugares(PF(r))
  BY HilosPorIndice, HilosFijos, LugaresDe DEF UnoSolo, IInv, Pasadores
<1>2. CASE EsperarPageFault(r)
  <2>1. Esperar(PF(r), "espera", "proceso_page_fault", "pedir")
    BY <1>2 DEF EsperarPageFault
  <2>2. Aparte
    BY <1>1, <2>1, EsperarAparte DEF Hablando
  <2>3. QED
    BY <2>2, AparteIUno
<1>3. CASE Pedir(PF(r), "PAGINA")
  <2>1. pc[PF(r)] = "pedir" /\ pc[PF(r)] \in EnHilo(PF(r))
    BY <1>1, <1>3, EnHiloDe DEF Pedir, En
  <2>2. \A k \in Hilos : pc[k] \notin Hablando
    BY <1>1, <2>1, NadieConversa DEF IUno, Hablando
  <2>3. /\ pedidos' = Append(pedidos, PedidoDe(PF(r))) /\ Ir(PF(r), "resp")
        /\ UNCHANGED <<ptr, respuestas, estructuras, consola>>
    BY <1>1, <1>3 DEF Pedir, PedidoDe, entorno
  <2>4. QED
    BY <1>1, <2>2, <2>3, PedirIUno
<1>4. CASE RecibirPagina(r)
  <2>1. pc[PF(r)] = "resp" /\ pc[PF(r)] \in Hablando /\ respuestas # <<>>
    BY <1>4 DEF RecibirPagina, En, Hablando
  <2>2. Head(respuestas).cod = "OKI_PAGINA"
    <3> DEFINE a == Msj("OKI_PAGINA", ptr[PF(r)][1])
    <3>1. respuestas = <<a>> /\ a.cod = "OKI_PAGINA"
      BY <1>1, <2>1, LeeSuRespuesta, MsjTipo
    <3> HIDE DEF a
    <3>2. QED
      BY <3>1, SecuenciasCortas
  <2>3. Recibir(PF(r), "push_ready", "libre")
    BY <1>4, <2>2 DEF RecibirPagina, TramaCortada
  <2>4. /\ respuestas' = Tail(respuestas) /\ Ir(PF(r), "push_ready") /\ ptr' = ptr
        /\ UNCHANGED <<pedidos, estructuras, consola>>
    BY <2>3 DEF Recibir, entorno
  <2>5. "push_ready" \notin Hablando \cup {"muerto"}
    BY DEF Hablando
  <2>6. QED
    BY <1>1, <2>1, <2>4, <2>5, RecibirIUno
<1>5. CASE PasarAReady(PF(r))
  BY <1>1, <1>5, PasarAReadyAparte, AparteIUno
<1>6. CASE UsoTrasLiberar(PF(r))
  BY <1>6, FallarAparte, AparteIUno DEF UsoTrasLiberar
<1>7. QED
  BY <1>2, <1>3, <1>4, <1>5, <1>6 DEF ManejarPageFault, PedirPagina

LEMMA LlegadaUno ==
    ASSUME IInv, IUno, AtenderNuevaConsola \/ AvisarNew \/ EjecutarRafaga
    PROVE  IUno'
<1>1. /\ TypeOK /\ Conexiones \in Hilos
      /\ Lugares(Conexiones) = {"esperar_cliente", "post_new"}
  BY HilosFijos, LugaresDe DEF IInv
<1>2. CASE AtenderNuevaConsola
  <2>1. /\ pc[Conexiones] = "esperar_cliente" /\ Ir(Conexiones, "post_new") /\ ptr' = ptr
        /\ UNCHANGED <<pedidos, respuestas, estructuras>>
        /\ cola' = [cola EXCEPT !["new"] = Append(@, <<pid_actual + 1, 0>>)]
        /\ consola' = [consola EXCEPT ![pid_actual + 1] = "esperando"]
    BY <1>2 DEF AtenderNuevaConsola, En, memoria
  <2>2. pc'[Conexiones] = "post_new" /\ \A k \in Hilos : k # Conexiones => pc'[k] = pc[k]
    BY <1>1, <2>1, IrTipo
  <2>3. /\ cola'["exit"] = cola["exit"]
        /\ \A p \in Pids : consola'[p] = "finalizada" => consola[p] = "finalizada"
    BY <1>1, <2>1 DEF TypeOK, Colas
  <2>4. Aparte
    BY <2>1, <2>2, <2>3 DEF Aparte, Hablando
  <2>5. QED
    BY <2>4, AparteIUno
<1>3. CASE AvisarNew
  BY <1>1, <1>3, EsperarAparte, AparteIUno DEF AvisarNew, Hablando
<1>4. CASE EjecutarRafaga
  <2>1. Aparte
    BY <1>4 DEF EjecutarRafaga, Aparte, memoria
  <2>2. QED
    BY <2>1, AparteIUno
<1>5. QED
  BY <1>2, <1>3, <1>4

IUnaPorVez == IPropiedad /\ IUno

LEMMA IUnoPaso ==
    ASSUME Grado = 1, Carreras = {}, IUnaPorVez, [Next]_vars
    PROVE  IUnaPorVez'
<1>1. IPropiedad /\ IUno /\ UnoSolo /\ IInv /\ CreacionUnica
  BY DeIDuenio DEF IUnaPorVez, IPropiedad, IEspera, IAdmision, UnoSolo
<1>2. IPropiedad'
  BY <1>1, IDuenioPaso
<1>3. IUno'
  <2>1. CASE AtenderNuevaConsola \/ AvisarNew \/ EjecutarRafaga
    BY <1>1, <2>1, LlegadaUno
  <2>2. CASE NewAReady
    BY <1>1, <2>2, NewAReadyUno
  <2>3. CASE RajarPcb
    BY <1>1, <2>3, RajarPcbUno
  <2>4. CASE PlanificarEjecucion
    BY <1>1, <2>4, PlanificarEjecucionUno
  <2>5. CASE \E d \in Dispositivos : EjecucionIO(d)
    BY <1>1, <2>5, EjecucionIOUno
  <2>6. CASE \E r \in Refs : SolicitarIOConsola(r)
    BY <1>1, <2>6, SolicitarIOConsolaUno
  <2>7. CASE \E r \in Refs : ManejarPageFault(r)
    BY <1>1, <2>7, ManejarPageFaultUno
  <2>8. CASE AtenderKernel
    BY <1>1, <2>8, AtenderKernelIUno
  <2>9. CASE UNCHANGED vars
    BY <1>1, <2>9, FallarAparte, AparteIUno
  <2>10. QED
    BY <2>1, <2>2, <2>3, <2>4, <2>5, <2>6, <2>7, <2>8, <2>9 DEF Next
<1>4. QED
  BY <1>2, <1>3 DEF IUnaPorVez

LEMMA IUnoInicial == Init => IUnaPorVez
<1> SUFFICES ASSUME Init PROVE IUnaPorVez
  OBVIOUS
<1>1. IPropiedad
  BY IDuenioInicial
<1>2. \A h \in Hilos : pc[h] \in {"esperar_cliente", "espera_new", "espera_ready",
                                  "espera_finalizados", "espera", "no_creado"}
  BY DEF Init, PcInicial
<1>3. LargoPlazo \in Hilos /\ CortoPlazo \in Hilos
  BY HilosFijos
<1>4. pedidos = <<>> /\ respuestas = <<>> /\ \A p \in Pids : consola[p] = "sin_conectar"
  BY DEF Init
<1>5. UnaConversacion
  BY <1>2, <1>3, <1>4 DEF UnaConversacion
<1>6. LiberarEnExit /\ RespuestaLiberada /\ FinalizarTrasLiberar /\ SinErrorDeMemoria
  BY <1>2, <1>3, <1>4
     DEF LiberarEnExit, RespuestaLiberada, FinalizarTrasLiberar, SinErrorDeMemoria
<1>7. QED
  BY <1>1, <1>5, <1>6 DEF IUnaPorVez, IUno

\* One process at a time and no race: of the threads that share the socket to the
\* memory one at most waits on it, and all there is on it is its request or its answer.
THEOREM InvarianteUno ==
    ASSUME Grado = 1, Carreras = {}
    PROVE  Spec => []IUno
<1>1. Init => IUnaPorVez
  BY IUnoInicial
<1>2. IUnaPorVez /\ [Next]_vars => IUnaPorVez'
  BY IUnoPaso
<1>3. IUnaPorVez => IUno
  BY DEF IUnaPorVez
<1>4. QED
  BY <1>1, <1>2, <1>3, PTL DEF Spec

\* What recibir_operacion returns to a thread is the answer to its own request.
THEOREM RespuestasPropias ==
    ASSUME Grado = 1, Carreras = {}
    PROVE  Spec => []RespuestaPropia
<1>1. ASSUME TypeOK, IUno PROVE RespuestaPropia
  BY <1>1, LeeSuRespuesta DEF RespuestaPropia, Hablando
<1>2. IInv => TypeOK
  BY DEF IInv
<1>3. QED
  BY <1>1, <1>2, Invariante, InvarianteUno, PTL

\* No thread is given up for an answer it did not expect: neither the one that admits
\* processes (solicitar_creacion_estructuras_administrativas) nor that of a page fault.
THEOREM NuncaErrorDeMemoria ==
    ASSUME Grado = 1, Carreras = {}
    PROVE  Spec => []SinErrorDeMemoria
<1>1. IUno => SinErrorDeMemoria
  BY DEF IUno
<1>2. QED
  BY <1>1, InvarianteUno, PTL

\* solicitar_finalizacion tells a console to end only once the memory has freed the
\* structures of its process.
THEOREM FinalizarSeguro ==
    ASSUME Grado = 1, Carreras = {}
    PROVE  Spec => []FinalizarTrasLiberar
<1>1. IUno => FinalizarTrasLiberar
  BY DEF IUno
<1>2. QED
  BY <1>1, InvarianteUno, PTL

-----------------------------------------------------------------------------
(* One process at a time: a PCB just pushed stays in its queue while its   *)
(* pusher writes to it, for the dispatcher has no other one to be woken for.*)

PublicadoEncolado == \A h \in Hilos : pc[h] = "limpiar" => EnReady(ptr[h])
IPublica == PublicadoEncolado /\ SinUsoTrasPublicar

LEMMA DosEnColas ==
    ASSUME NEW x \in Nat, NEW y \in Nat, NEW s \in Nat, NEW c \in Nat, c # 0, x + y = s + c + 1
    PROVE  x >= 2 \/ y >= 2 \/ (x >= 1 /\ y >= 1)
  OBVIOUS

\* A pusher between its push and its post, and a dispatcher between its wait and its
\* pop, stand for two PCBs in the ready queues.
LEMMA DespachadorLejos ==
    ASSUME Grado = 1, UnoSolo, pc[CortoPlazo] \in {"sacar_rr", "sacar_fifo"}
    PROVE  \A h \in Hilos : pc[h] # "limpiar"
<1> SUFFICES ASSUME NEW h \in Hilos, pc[h] = "limpiar" PROVE FALSE
  OBVIOUS
<1> DEFINE a == cola["rr"]
           b == cola["fifo"]
<1>1. TypeOK /\ CuentaReady /\ SinRepetidos
  BY DEF UnoSolo, IInv, Posesion
<1>2. /\ a \in Seq(Refs) /\ b \in Seq(Refs)
      /\ Len(a) >= 2 \/ Len(b) >= 2 \/ (Len(a) >= 1 /\ Len(b) >= 1)
  <2>1. IsFiniteSet(Publicando) /\ h \in Publicando
    BY <1>1 DEF CuentaReady, Publicando
  <2>2. Cardinality(Publicando) \in Nat /\ Cardinality(Publicando) # 0
    BY <2>1, FS_CardinalityType, FS_EmptySet
  <2>3. /\ a \in Seq(Refs) /\ b \in Seq(Refs) /\ sem["procesos_ready"] \in Nat
        /\ Len(a) + Len(b) = sem["procesos_ready"] + Cardinality(Publicando) + 1
    BY <1>1 DEF TypeOK, Colas, Semaforos, CuentaReady, EnReadys, Uno
  <2>4. Len(a) \in Nat /\ Len(b) \in Nat
    BY ONLY <2>3
  <2> QED BY <2>2, <2>3, <2>4, DosEnColas
<1>3. \A q \in {"rr", "fifo"} :
         /\ EnLaCola(q) \in Sitios \ {EnLaCola("new")} /\ q \in Colas
         /\ \A i \in DOMAIN cola[q] : cola[q][i] \in Refs /\ Tiene(EnLaCola(q), cola[q][i])
  BY <1>2, SitiosDe, TieneDe DEF EnCola, Colas
<1>4. ASSUME NEW q \in {"rr", "fifo"}, Len(cola[q]) >= 2 PROVE FALSE
  <2>1. 1 \in DOMAIN cola[q] /\ 2 \in DOMAIN cola[q]
    BY <1>2, <1>4
  <2>2. cola[q][1] = cola[q][2]
    BY <1>3, <2>1, SitioUnico
  <2>3. QED
    BY <1>1, <1>3, <2>1, <2>2 DEF SinRepetidos, SinRepetir
<1>5. CASE Len(a) >= 1 /\ Len(b) >= 1
  <2>1. 1 \in DOMAIN a /\ 1 \in DOMAIN b
    BY <1>2, <1>5
  <2>2. EnLaCola("rr") = EnLaCola("fifo")
    BY <1>3, <2>1, SitioUnico
  <2>3. QED
    BY <2>2 DEF EnLaCola
<1>6. CASE Len(a) >= 2
  BY <1>4, <1>6
<1>7. CASE Len(b) >= 2
  BY <1>4, <1>7
<1>8. QED
  BY <1>2, <1>5, <1>6, <1>7

\* A step that publishes nothing and takes nothing from the ready queues.
NoPublica ==
    /\ \A k \in Hilos : pc'[k] = "limpiar" => pc[k] = "limpiar" /\ ptr'[k] = ptr[k]
    /\ \A r : EnReady(r) => EnReady(r)'
    /\ falla' # "uso_tras_publicar"

LEMMA NoPublicaSigue == ASSUME IPublica, NoPublica PROVE IPublica'
<1>1. ASSUME NEW k \in Hilos, pc'[k] = "limpiar", NEW r, r = ptr'[k] PROVE EnReady(r)'
  BY <1>1 DEF IPublica, PublicadoEncolado, NoPublica
<1>2. PublicadoEncolado'
  BY <1>1 DEF PublicadoEncolado, EnReady, EnCola
<1>3. QED
  BY <1>2 DEF IPublica, SinUsoTrasPublicar, NoPublica

LEMMA NoPublicaIr ==
    ASSUME TypeOK, IPublica, NEW h \in Hilos, NEW l \in Lugares(h) \ {"limpiar"}, Ir(h, l),
           \A k \in Hilos : k # h => ptr'[k] = ptr[k],
           cola'["rr"] = cola["rr"], cola'["fifo"] = cola["fifo"], falla' = falla
    PROVE  IPublica'
<1>1. NoPublica
  BY IrTipo DEF NoPublica, EnReady, EnCola, IPublica, SinUsoTrasPublicar
<1>2. QED
  BY <1>1, NoPublicaSigue

LEMMA EsperarPublica ==
    ASSUME TypeOK, IPublica, NEW h \in Hilos, NEW de, NEW s, NEW l \in Lugares(h) \ {"limpiar"},
           Esperar(h, de, s, l) \/ Avisar(h, de, s, l) \/ Seguir(h, l)
    PROVE  IPublica'
BY NoPublicaIr DEF Esperar, Avisar, Seguir, entorno

LEMMA FallarPublica ==
    ASSUME IPublica, UNCHANGED vars \/ \E f : Fallar(f) /\ f # "uso_tras_publicar"
    PROVE  IPublica'
<1>1. NoPublica
  BY DEF Fallar, NoPublica, EnReady, EnCola, vars, entorno, IPublica, SinUsoTrasPublicar
<1>2. QED
  BY <1>1, NoPublicaSigue

LEMMA UsoPublica ==
    ASSUME IPublica, SoloValidos, TypeOK, NEW h \in Hilos, UsoTrasLiberar(h)
    PROVE  IPublica'
<1>1. CASE pc[h] = "limpiar"
  <2>1. EnReady(ptr[h]) /\ ptr[h] \in Refs \cup {NULO}
    BY <1>1 DEF IPublica, PublicadoEncolado, TypeOK
  <2>2. QED
    BY <2>1, EnReadyValido DEF UsoTrasLiberar
<1>2. CASE pc[h] # "limpiar"
  BY <1>2, FallarPublica DEF UsoTrasLiberar
<1>3. QED
  BY <1>1, <1>2

LEMMA PasarAReadyPublica ==
    ASSUME IPublica, SoloValidos, TypeOK, NEW h \in Pasadores, PasarAReady(h)
    PROVE  IPublica'
<1>1. /\ h \in Hilos /\ {"limpiar", "post_ready"} \subseteq Lugares(h)
      /\ TrasReady(h) \in Lugares(h) \ {"limpiar"}
  BY PasadoresDe, TrasReadyDe DEF Pasadores, Contados
<1>2. CASE PushReady(h)
  <2>1. PICK r0 \in Refs : r0 = ptr[h]
    BY <1>1, <1>2, ValidoRef DEF PushReady
  <2>2. PICK q0 \in {"rr", "fifo"} : cola' = [cola EXCEPT ![q0] = Append(@, r0)]
    BY <1>2, <2>1 DEF PushReady
  <2>3. /\ Ir(h, "limpiar") /\ ptr' = ptr /\ falla' = falla
        /\ q0 \in Colas /\ cola[q0] \in Seq(Refs) /\ cola'[q0] = Append(cola[q0], r0)
        /\ \A q \in Colas : q # q0 => cola'[q] = cola[q]
    BY <1>2, <2>2 DEF PushReady, TypeOK, Colas, entorno
  <2>4. /\ \A i \in DOMAIN cola[q0] : i \in DOMAIN cola'[q0] /\ cola'[q0][i] = cola[q0][i]
        /\ Len(cola'[q0]) \in DOMAIN cola'[q0] /\ cola'[q0][Len(cola'[q0])] = r0
    BY <2>3
  <2>5. EnReady(r0)' /\ \A r : EnReady(r) => EnReady(r)'
    BY <2>3, <2>4 DEF EnReady, EnCola, Colas
  <2>6. ASSUME NEW k \in Hilos, pc'[k] = "limpiar", NEW r, r = ptr'[k] PROVE EnReady(r)'
    <3>1. CASE k = h
      BY <2>1, <2>3, <2>5, <2>6, <3>1
    <3>2. CASE k # h
      BY <1>1, <2>3, <2>5, <2>6, <3>2, IrTipo DEF IPublica, PublicadoEncolado
    <3>3. QED
      BY <3>1, <3>2
  <2>7. PublicadoEncolado'
    BY <2>6 DEF PublicadoEncolado, EnReady, EnCola
  <2>8. QED
    BY <2>3, <2>7 DEF IPublica, SinUsoTrasPublicar
<1>3. CASE LimpiarBanderas(h)
  BY <1>1, <1>3, NoPublicaIr DEF LimpiarBanderas, entorno
<1>4. CASE UsoTrasLiberar(h)
  BY <1>1, <1>4, UsoPublica
<1>5. CASE Avisar(h, "post_ready", "procesos_ready", TrasReady(h))
  BY <1>1, <1>5, EsperarPublica
<1>6. QED
  BY <1>2, <1>3, <1>4, <1>5 DEF PasarAReady

\* The threads that admit and destroy processes.
LEMMA LargoPlazoPublica ==
    ASSUME IPublica, SoloValidos, TypeOK, NewAReady \/ RajarPcb
    PROVE  IPublica'
<1>1. /\ LargoPlazo \in Hilos /\ Rajar \in Hilos /\ LargoPlazo \in Pasadores
      /\ {"espera_grado", "sacar_new", "pedir", "resp", "resp_indices", "push_ready", "muerto"}
            \subseteq Lugares(LargoPlazo)
      /\ {"espera_finalizados", "sacar_exit", "post_grado"} \subseteq Lugares(Rajar)
      /\ {"new", "rr", "fifo", "exit"} \subseteq Colas
  BY HilosFijos, LugaresDe DEF Pasadores, Colas
<1>2. CASE EsperarNew \/ EsperarGrado \/ EsperarFinalizados \/ AvisarGrado
  BY <1>1, <1>2, EsperarPublica DEF EsperarNew, EsperarGrado, EsperarFinalizados, AvisarGrado
<1>3. CASE SacarNew
  <2>1. CASE PopIndebido(cola["new"])
    BY <2>1, FallarPublica DEF PopIndebido
  <2>2. CASE ~PopIndebido(cola["new"])
    <3>1. /\ Ir(LargoPlazo, "pedir") /\ ptr' = [ptr EXCEPT ![LargoPlazo] = Head(cola["new"])]
          /\ cola' = [cola EXCEPT !["new"] = Tail(@)] /\ falla' = falla
      BY <1>3, <2>2 DEF SacarNew, entorno
    <3>2. /\ cola'["rr"] = cola["rr"] /\ cola'["fifo"] = cola["fifo"]
          /\ \A k \in Hilos : k # LargoPlazo => ptr'[k] = ptr[k]
      BY <1>1, <3>1 DEF TypeOK
    <3>3. QED
      BY <1>1, <3>1, <3>2, NoPublicaIr
  <2>3. QED
    BY <2>1, <2>2
<1>4. CASE SacarExit
  <2>1. CASE PopIndebido(cola["exit"])
    BY <2>1, FallarPublica DEF PopIndebido
  <2>2. CASE ~PopIndebido(cola["exit"])
    <3>1. /\ Ir(Rajar, "post_grado") /\ ptr' = ptr /\ cola' = [cola EXCEPT !["exit"] = Tail(@)]
          /\ falla' = falla
      BY <1>4, <2>2 DEF SacarExit, entorno
    <3>2. cola'["rr"] = cola["rr"] /\ cola'["fifo"] = cola["fifo"]
      BY <1>1, <3>1 DEF TypeOK
    <3>3. QED
      BY <1>1, <3>1, <3>2, NoPublicaIr
  <2>3. QED
    BY <2>1, <2>2
<1>5. CASE Pedir(LargoPlazo, "ESTRUCTURAS")
  BY <1>1, <1>5, NoPublicaIr DEF Pedir, entorno
<1>6. CASE RecibirEstructuras \/ RecibirIndices
  <2>1. CASE TramaCortada \/ Fallar("trama_cortada")
    BY <2>1, FallarPublica DEF TramaCortada
  <2>2. CASE ~(TramaCortada \/ Fallar("trama_cortada"))
    <3>1. PICK l \in {"resp_indices", "muerto", "push_ready"} : \E m : Recibir(LargoPlazo, l, m)
      BY <1>6, <2>2 DEF RecibirEstructuras, RecibirIndices
    <3>2. QED
      BY <1>1, <3>1, NoPublicaIr DEF Recibir, entorno
  <2>3. QED
    BY <2>1, <2>2
<1>7. CASE PasarAReady(LargoPlazo)
  BY <1>1, <1>7, PasarAReadyPublica
<1>8. QED
  BY <1>2, <1>3, <1>4, <1>5, <1>6, <1>7 DEF NewAReady, RajarPcb

\* The dispatcher directs the PCB that came back.
LEMMA DirigirPublica ==
    ASSUME IPublica, SoloValidos, TypeOK, IInv, DirigirProcesoEjecutado
    PROVE  IPublica'
<1>1. /\ CortoPlazo \in Hilos /\ {"rr", "fifo", "exit"} \subseteq Colas
      /\ {"espera_ready", "resp_liberar", "push_ready"} \subseteq Lugares(CortoPlazo)
      /\ pc[CortoPlazo] = "dirigir"
  BY HilosFijos, LugaresDe DEF Colas, DirigirProcesoEjecutado, En
<1>2. PICK r0 : r0 = ptr[CortoPlazo]
  OBVIOUS
<1>3. CASE UsoTrasLiberar(CortoPlazo)
  BY <1>1, <1>3, UsoPublica
<1>4. CASE Fallar("instruccion_nula")
  BY <1>4, FallarPublica
<1>5. CASE Seguir(CortoPlazo, "espera_ready") \/ Seguir(CortoPlazo, "push_ready")
  BY <1>1, <1>5, EsperarPublica
<1>6. CASE SolicitarFinalizacion(r0)
  <2>1. /\ Ir(CortoPlazo, "resp_liberar") /\ ptr' = ptr /\ falla' = falla
        /\ cola' = [cola EXCEPT !["exit"] = Append(@, r0)]
    BY <1>6 DEF SolicitarFinalizacion, entorno
  <2>2. cola'["rr"] = cola["rr"] /\ cola'["fifo"] = cola["fifo"]
    BY <1>1, <2>1 DEF TypeOK
  <2>3. QED
    BY <1>1, <2>1, <2>2, NoPublicaIr
<1>7. CASE SolicitarIO(r0) /\ Valido(r0)
  <2>1. /\ \/ Ir(CortoPlazo, "espera_ready")
           \/ pc' = [pc EXCEPT ![CortoPlazo] = "espera_ready", ![IO(r0)] = "solicitud"]
        /\ UNCHANGED <<cola, ptr, falla>>
    BY <1>7 DEF SolicitarIO, entorno
  <2>2. \A k \in Hilos : pc'[k] = "limpiar" => pc[k] = "limpiar"
    BY <2>1 DEF Ir, TypeOK
  <2>3. NoPublica
    BY <2>1, <2>2 DEF NoPublica, EnReady, EnCola, IPublica, SinUsoTrasPublicar
  <2>4. QED
    BY <2>3, NoPublicaSigue
<1>8. QED
  BY <1>2, <1>3, <1>4, <1>5, <1>6, <1>7 DEF DirigirProcesoEjecutado

LEMMA CortoPlazoPublica ==
    ASSUME Grado = 1, UnoSolo, IPublica, PcbEnCpu, PlanificarEjecucion
    PROVE  IPublica'
<1>1. /\ TypeOK /\ SoloValidos /\ IInv /\ CortoPlazo \in Hilos /\ CortoPlazo \in Pasadores
      /\ {"mirar_rr", "sacar_rr", "sacar_fifo", "enviar", "destruir", "recibir", "espera_ready"}
            \subseteq Lugares(CortoPlazo)
  BY HilosFijos, LugaresDe DEF UnoSolo, Posesion, IInv, Pasadores
<1>2. CASE EsperarReady \/ MirarRR
  BY <1>1, <1>2, EsperarPublica DEF EsperarReady, MirarRR
<1>3. ASSUME NEW l \in {"sacar_rr", "sacar_fifo"}, NEW q, SacarReady(l, q) PROVE IPublica'
  <2>1. CASE PopIndebido(cola[q])
    BY <2>1, FallarPublica DEF PopIndebido
  <2>2. CASE ~PopIndebido(cola[q])
    <3>1. Ir(CortoPlazo, "enviar") /\ falla' = falla /\ pc[CortoPlazo] = l
      BY <1>3, <2>2 DEF SacarReady, En, entorno
    <3>2. \A k \in Hilos : pc'[k] # "limpiar"
      BY <1>1, <3>1, DespachadorLejos, IrTipo
    <3>3. QED
      BY <3>1, <3>2 DEF IPublica, PublicadoEncolado, SinUsoTrasPublicar
  <2>3. QED
    BY <2>1, <2>2
<1>4. CASE EnviarPcb \/ DestruirPcb
  <2>1. CASE UsoTrasLiberar(CortoPlazo)
    BY <1>1, <2>1, UsoPublica
  <2>2. CASE ~UsoTrasLiberar(CortoPlazo)
    BY <1>1, <1>4, <2>2, NoPublicaIr DEF EnviarPcb, DestruirPcb, entorno
  <2>3. QED
    BY <2>1, <2>2
<1>5. CASE RecibirPcb
  <2>1. PICK p \in Pids, r \in Refs :
            /\ pc'[CortoPlazo] = "dirigir" /\ pc'[PF(r)] \in {"espera", "no_creado"}
            /\ \A h \in Hilos : h # CortoPlazo /\ h # PF(r) => pc'[h] = pc[h]
            /\ \A h \in Hilos : h # CortoPlazo => ptr'[h] = ptr[h]
            /\ UNCHANGED cola
    BY <1>1, <1>5, RecibirPcbDe
  <2>2. falla' = falla
    BY <1>5 DEF RecibirPcb
  <2>3. NoPublica
    BY <2>1, <2>2 DEF NoPublica, EnReady, EnCola, IPublica, SinUsoTrasPublicar
  <2>4. QED
    BY <2>3, NoPublicaSigue
<1>6. CASE DirigirProcesoEjecutado
  BY <1>1, <1>6, DirigirPublica
<1>7. CASE RecibirLiberar
  <2>1. CASE TramaCortada
    BY <2>1, FallarPublica DEF TramaCortada
  <2>2. CASE ~TramaCortada
    BY <1>1, <1>7, <2>2, NoPublicaIr DEF RecibirLiberar
  <2>3. QED
    BY <2>1, <2>2
<1>8. CASE PasarAReady(CortoPlazo)
  BY <1>1, <1>8, PasarAReadyPublica
<1>9. QED
  BY <1>2, <1>3, <1>4, <1>5, <1>6, <1>7, <1>8 DEF PlanificarEjecucion

\* The threads of devices, console IO and page faults.
LEMMA BloqueadosPublica ==
    ASSUME IPublica, SoloValidos, TypeOK,
           \/ \E d \in Dispositivos : EjecucionIO(d)
           \/ \E r \in Refs : SolicitarIOConsola(r) \/ ManejarPageFault(r)
    PROVE  IPublica'
<1>1. ASSUME NEW d \in Dispositivos, EjecucionIO(d) PROVE IPublica'
  <2>1. /\ ES(d) \in Hilos /\ ES(d) \in Pasadores /\ {"sacar", "push_ready"} \subseteq Lugares(ES(d))
    BY HilosPorIndice, LugaresDe DEF Pasadores
  <2>2. CASE EsperarDispositivo(d)
    BY <2>1, <2>2, NoPublicaIr DEF EsperarDispositivo, entorno
  <2>3. CASE SacarDispositivo(d)
    <3>1. CASE PopIndebido(cola_dispositivo[d])
      BY <3>1, FallarPublica DEF PopIndebido
    <3>2. CASE ~PopIndebido(cola_dispositivo[d])
      <4>1. /\ Ir(ES(d), "push_ready") /\ ptr' = [ptr EXCEPT ![ES(d)] = Head(cola_dispositivo[d])]
            /\ UNCHANGED <<cola, falla>>
        BY <2>3, <3>2 DEF SacarDispositivo, entorno
      <4>2. \A k \in Hilos : k # ES(d) => ptr'[k] = ptr[k]
        BY <2>1, <4>1 DEF TypeOK
      <4>3. QED
        BY <2>1, <4>1, <4>2, NoPublicaIr
    <3>3. QED
      BY <3>1, <3>2
  <2>4. CASE PasarAReady(ES(d))
    BY <2>1, <2>4, PasarAReadyPublica
  <2>5. QED
    BY <1>1, <2>2, <2>3, <2>4 DEF EjecucionIO
<1>2. ASSUME NEW r \in Refs, SolicitarIOConsola(r) PROVE IPublica'
  <2>1. IO(r) \in Hilos /\ IO(r) \in Pasadores /\ "push_ready" \in Lugares(IO(r))
    BY HilosPorIndice, LugaresDe DEF Pasadores
  <2>2. CASE UsoTrasLiberar(IO(r))
    BY <2>1, <2>2, UsoPublica
  <2>3. CASE Seguir(IO(r), "push_ready")
    BY <2>1, <2>3, EsperarPublica
  <2>4. QED
    BY <1>2, <2>1, <2>2, <2>3, PasarAReadyPublica DEF SolicitarIOConsola, Solicitud
<1>3. ASSUME NEW r \in Refs, ManejarPageFault(r) PROVE IPublica'
  <2>1. /\ PF(r) \in Hilos /\ PF(r) \in Pasadores
        /\ {"pedir", "resp", "push_ready", "muerto"} \subseteq Lugares(PF(r))
    BY HilosPorIndice, LugaresDe DEF Pasadores
  <2>2. CASE EsperarPageFault(r)
    BY <2>1, <2>2, EsperarPublica DEF EsperarPageFault
  <2>3. CASE PedirPagina(r)
    <3>1. CASE UsoTrasLiberar(PF(r))
      BY <2>1, <3>1, UsoPublica
    <3>2. CASE ~UsoTrasLiberar(PF(r))
      BY <2>1, <2>3, <3>2, NoPublicaIr DEF PedirPagina, Pedir, entorno
    <3>3. QED
      BY <3>1, <3>2
  <2>4. CASE RecibirPagina(r)
    <3>1. CASE TramaCortada
      BY <3>1, FallarPublica DEF TramaCortada
    <3>2. CASE ~TramaCortada
      <4>1. PICK l \in {"push_ready", "muerto"} : Recibir(PF(r), l, "libre")
        BY <2>4, <3>2 DEF RecibirPagina
      <4>2. QED
        BY <2>1, <4>1, NoPublicaIr DEF Recibir, entorno
    <3>3. QED
      BY <3>1, <3>2
  <2>5. CASE PasarAReady(PF(r))
    BY <2>1, <2>5, PasarAReadyPublica
  <2>6. QED
    BY <1>3, <2>2, <2>3, <2>4, <2>5 DEF ManejarPageFault
<1>4. QED
  BY <1>1, <1>2, <1>3

LEMMA IPublicaPaso ==
    ASSUME Grado = 1, Carreras = {}, IPropiedad, IPublica, [Next]_vars
    PROVE  IPublica'
<1>1. /\ UnoSolo /\ TypeOK /\ SoloValidos /\ PcbEnCpu
  BY DeIDuenio DEF IPropiedad, IEspera, IAdmision, UnoSolo, IInv, Posesion
<1>2. CASE AtenderNuevaConsola
  <2>1. /\ Conexiones \in Hilos /\ "post_new" \in Lugares(Conexiones)
        /\ {"new", "rr", "fifo"} \subseteq Colas
    BY HilosFijos, LugaresDe DEF Colas
  <2>2. /\ Ir(Conexiones, "post_new") /\ ptr' = ptr /\ falla' = falla
        /\ cola' = [cola EXCEPT !["new"] = Append(@, <<pid_actual + 1, 0>>)]
    BY <1>2 DEF AtenderNuevaConsola
  <2>3. cola'["rr"] = cola["rr"] /\ cola'["fifo"] = cola["fifo"]
    BY <1>1, <2>1, <2>2 DEF TypeOK
  <2>4. QED
    BY <1>1, <2>1, <2>2, <2>3, NoPublicaIr
<1>3. CASE AvisarNew
  <2>1. Conexiones \in Hilos /\ "esperar_cliente" \in Lugares(Conexiones)
    BY HilosFijos, LugaresDe
  <2>2. QED
    BY <1>1, <1>3, <2>1, EsperarPublica DEF AvisarNew
<1>4. CASE NewAReady \/ RajarPcb
  BY <1>1, <1>4, LargoPlazoPublica
<1>5. CASE PlanificarEjecucion
  BY <1>1, <1>5, CortoPlazoPublica
<1>6. CASE \/ \E d \in Dispositivos : EjecucionIO(d)
           \/ \E r \in Refs : SolicitarIOConsola(r)
           \/ \E r \in Refs : ManejarPageFault(r)
  BY <1>1, <1>6, BloqueadosPublica
<1>7. CASE AtenderKernel \/ EjecutarRafaga
  <2>1. NoPublica
    BY <1>7 DEF AtenderKernel, EjecutarRafaga, NoPublica, EnReady, EnCola, entorno, IPublica,
       SinUsoTrasPublicar
  <2>2. QED
    BY <2>1, NoPublicaSigue
<1>8. CASE UNCHANGED vars
  BY <1>8, FallarPublica
<1>9. QED
  BY <1>2, <1>3, <1>4, <1>5, <1>6, <1>7, <1>8 DEF Next

\* With one process at a time pasar_a_ready never writes to a PCB the dispatcher has
\* destroyed: from the push to the post of procesos_ready the PCB stays in its queue.
THEOREM PublicarSeguro ==
    ASSUME Grado = 1, Carreras = {}
    PROVE  Spec => []SinUsoTrasPublicar
<1>1. ASSUME Init PROVE IPropiedad /\ IPublica
  <2>1. \A h \in Hilos : pc[h] # "limpiar"
    BY <1>1 DEF Init, PcInicial
  <2>2. QED
    BY <1>1, <2>1, IDuenioInicial DEF Init, IPublica, PublicadoEncolado, SinUsoTrasPublicar
<1>2. IPropiedad /\ IPublica /\ [Next]_vars => (IPropiedad /\ IPublica)'
  BY IDuenioPaso, IPublicaPaso
<1>3. IPublica => SinUsoTrasPublicar
  BY DEF IPublica
<1>4. QED
  BY <1>1, <1>2, <1>3, PTL DEF Spec

-----------------------------------------------------------------------------
(* The abstract state of a process, told by the place of its PCB. *)

Muerto(r)   == pc[PF(r)] = "muerto"
Dirigido(r) == pc[CortoPlazo] = "dirigir" /\ ptr[CortoPlazo] = r
Actual(p)   == <<p, rafagas[p]>>

SitiosDeBloqueo == {EnDispositivo(d) : d \in Dispositivos}
                   \cup DeDispositivo \cup DePageFault \cup DeConsola

LEMMA ActualDe ==
    ASSUME TypeOK, NEW p \in Pids
    PROVE  Actual(p) \in Refs /\ Actual(p)[1] = p /\ Actual(p)[2] = rafagas[p]
BY DEF TypeOK, Refs, Actual

\* What EstadoAbstracto looks at, told by places.
Localizado ==
    PunterosFijos =>
      \A t \in Refs :
        /\ EnReady(t) <=> Tiene(EnLaCola("rr"), t) \/ Tiene(EnLaCola("fifo"), t)
        /\ EnCola(t, cola["exit"]) <=> Tiene(EnLaCola("exit"), t)
        /\ Bloqueado(t) <=> Muerto(t) \/ \E s \in SitiosDeBloqueo : Tiene(s, t)
        /\ Ejecutando(t) <=> \/ vida[t[1]] = "en_cpu"
                             \/ ~Bloqueado(t) /\ (Tiene(CortoPlazo, t) \/ Dirigido(t))

LEMMA LugarDe == Localizado
<1> SUFFICES ASSUME PunterosFijos, NEW r \in Refs
             PROVE  /\ EnReady(r) <=> Tiene(EnLaCola("rr"), r) \/ Tiene(EnLaCola("fifo"), r)
                    /\ EnCola(r, cola["exit"]) <=> Tiene(EnLaCola("exit"), r)
                    /\ Bloqueado(r) <=> Muerto(r) \/ \E s \in SitiosDeBloqueo : Tiene(s, r)
                    /\ Ejecutando(r) <=> \/ vida[r[1]] = "en_cpu"
                                         \/ ~Bloqueado(r) /\ (Tiene(CortoPlazo, r) \/ Dirigido(r))
  BY DEF Localizado
<1>1. EnReady(r) <=> Tiene(EnLaCola("rr"), r) \/ Tiene(EnLaCola("fifo"), r)
  BY TieneDe DEF EnReady, Colas
<1>2. EnCola(r, cola["exit"]) <=> Tiene(EnLaCola("exit"), r)
  BY TieneDe DEF Colas
<1>3. \A d \in Dispositivos :
        /\ EnDispositivo(d) \in SitiosDeBloqueo /\ ES(d) \in SitiosDeBloqueo
        /\ EnCola(r, cola_dispositivo[d]) <=> Tiene(EnDispositivo(d), r)
        /\ pc[ES(d)] = "push_ready" /\ ptr[ES(d)] = r <=> Tiene(ES(d), r)
  BY TieneDe, EnHiloDe, HilosPorIndice DEF SitiosDeBloqueo
<1>4. \A t \in Refs :
        /\ PF(t) \in SitiosDeBloqueo /\ IO(t) \in SitiosDeBloqueo
        /\ Tiene(PF(t), r) <=> t = r /\ pc[PF(r)] \in {"espera", "pedir", "resp", "push_ready"}
        /\ Tiene(IO(t), r) <=> t = r /\ pc[IO(r)] \in {"solicitud", "push_ready"}
  BY TieneDe, EnHiloDe, HilosPorIndice DEF SitiosDeBloqueo, PunterosFijos
<1>5. \A s \in SitiosDeBloqueo : \/ \E d \in Dispositivos : s = EnDispositivo(d) \/ s = ES(d)
                                 \/ \E t \in Refs : s = PF(t) \/ s = IO(t)
  BY DEF SitiosDeBloqueo, DeDispositivo, DePageFault, DeConsola
<1>6. Bloqueado(r) <=> Muerto(r) \/ \E s \in SitiosDeBloqueo : Tiene(s, r)
  <2>1. Bloqueado(r) => Muerto(r) \/ \E s \in SitiosDeBloqueo : Tiene(s, r)
    BY <1>3, <1>4 DEF Bloqueado, Muerto
  <2>2. ASSUME NEW s \in SitiosDeBloqueo, Tiene(s, r) PROVE Bloqueado(r)
    BY <1>3, <1>4, <1>5, <2>2 DEF Bloqueado
  <2>3. Muerto(r) => Bloqueado(r)
    BY DEF Muerto, Bloqueado
  <2>4. QED
    BY <2>1, <2>2, <2>3
<1>7. Ejecutando(r) <=> \/ vida[r[1]] = "en_cpu"
                        \/ ~Bloqueado(r) /\ (Tiene(CortoPlazo, r) \/ Dirigido(r))
  BY TieneDe, EnHiloDe, HilosFijos DEF Ejecutando, Dirigido
<1>8. QED
  BY <1>1, <1>2, <1>6, <1>7

LEMMA EstadoDe ==
    \A p \in Pids :
      /\ vida[p] = "sin_crear" => EstadoAbstracto(p) = "FUERA"
      /\ vida[p] = "destruida" => EstadoAbstracto(p) = "FIN"
      /\ vida[p] \notin {"sin_crear", "destruida"} =>
           /\ EnReady(Actual(p)) => EstadoAbstracto(p) = "READY"
           /\ ~EnReady(Actual(p)) =>
                /\ EnCola(Actual(p), cola["exit"]) => EstadoAbstracto(p) = "EXIT"
                /\ ~EnCola(Actual(p), cola["exit"]) =>
                     /\ Bloqueado(Actual(p)) => EstadoAbstracto(p) = "BLOCK"
                     /\ ~Bloqueado(Actual(p)) =>
                          /\ Ejecutando(Actual(p)) => EstadoAbstracto(p) = "EXEC"
                          /\ ~Ejecutando(Actual(p)) => EstadoAbstracto(p) = "NEW"
<1> SUFFICES ASSUME NEW p \in Pids
             PROVE  /\ vida[p] = "sin_crear" => EstadoAbstracto(p) = "FUERA"
                    /\ vida[p] = "destruida" => EstadoAbstracto(p) = "FIN"
                    /\ vida[p] \notin {"sin_crear", "destruida"} =>
                         /\ EnReady(Actual(p)) => EstadoAbstracto(p) = "READY"
                         /\ ~EnReady(Actual(p)) =>
                              /\ EnCola(Actual(p), cola["exit"]) => EstadoAbstracto(p) = "EXIT"
                              /\ ~EnCola(Actual(p), cola["exit"]) =>
                                   /\ Bloqueado(Actual(p)) => EstadoAbstracto(p) = "BLOCK"
                                   /\ ~Bloqueado(Actual(p)) =>
                                        /\ Ejecutando(Actual(p)) => EstadoAbstracto(p) = "EXEC"
                                        /\ ~Ejecutando(Actual(p)) => EstadoAbstracto(p) = "NEW"
  OBVIOUS
<1>1. QED
  BY DEF EstadoAbstracto, Actual

\* The state of a process whose PCB is in place s, and of one whose PCB nobody has.
EstadoDeSitio(s) ==
    CASE s \in {EnLaCola("rr"), EnLaCola("fifo")} -> "READY"
      [] s = EnLaCola("exit")                     -> "EXIT"
      [] s \in SitiosDeBloqueo                    -> "BLOCK"
      [] s = CortoPlazo                           -> "EXEC"
      [] OTHER                                    -> "NEW"

ICiclico == TypeOK /\ PunterosFijos /\ IDuenio /\ Difuntos

EstadosConSitio ==
    ICiclico => \A p \in Pids : \A r \in Refs :
                   r = Actual(p) =>
                     \A s \in Sitios : Tiene(s, r) => EstadoAbstracto(p) = EstadoDeSitio(s)
EstadosSinSitio ==
    ICiclico => \A p \in Pids : \A r \in Refs :
       r = Actual(p) /\ (\A s \in Sitios : ~Tiene(s, r)) =>
         /\ vida[p] = "sin_crear" => EstadoAbstracto(p) = "FUERA"
         /\ vida[p] = "destruida" => EstadoAbstracto(p) = "FIN"
         /\ vida[p] = "en_cpu" => EstadoAbstracto(p) = "EXEC"
         /\ vida[p] = "viva" =>
              /\ Muerto(r) => EstadoAbstracto(p) = "BLOCK"
              /\ ~Muerto(r) => /\ Dirigido(r) => EstadoAbstracto(p) = "EXEC"
                               /\ ~Dirigido(r) => EstadoAbstracto(p) = "NEW"

LEMMA EstadoEnSitio == EstadosConSitio
<1> SUFFICES ASSUME ICiclico, NEW p \in Pids, NEW r \in Refs, r = Actual(p),
                    NEW s \in Sitios, Tiene(s, r)
             PROVE  EstadoAbstracto(p) = EstadoDeSitio(s)
  BY DEF EstadosConSitio
<1>1. /\ TypeOK /\ PunterosFijos /\ UnSoloSitio /\ SoloValidos /\ ADirigir
      /\ r[1] = p
  BY ActualDe DEF ICiclico, IDuenio
<1>2. Tiene(s, r) /\ Valido(r) /\ vida[p] = "viva" /\ ~Muerto(r)
  BY <1>1 DEF SoloValidos, Valido, ICiclico, Difuntos, Muerto
<1>3. \A t \in Sitios : Tiene(t, r) => t = s
  BY <1>1, <1>2 DEF UnSoloSitio
<1>4. /\ EnLaCola("rr") \in Sitios /\ EnLaCola("fifo") \in Sitios /\ EnLaCola("exit") \in Sitios
      /\ SitiosDeBloqueo \subseteq Sitios /\ CortoPlazo \in Sitios
      /\ EnLaCola("rr") # EnLaCola("exit") /\ EnLaCola("fifo") # EnLaCola("exit")
      /\ CortoPlazo \notin SitiosDeBloqueo
      /\ \A q \in Colas : EnLaCola(q) \notin SitiosDeBloqueo /\ EnLaCola(q) # CortoPlazo
  <2>1. SitiosDeBloqueo \subseteq Sitios /\ CortoPlazo \in Sitios
    BY SitiosDe, HilosFijos DEF SitiosDeBloqueo, Hilos
  <2>2. CortoPlazo \notin SitiosDeBloqueo
    BY SitiosDe, HilosFijos DEF SitiosDeBloqueo
  <2>3. \A q \in Colas : EnLaCola(q) \notin SitiosDeBloqueo /\ EnLaCola(q) # CortoPlazo
    BY SitiosDe, HilosFijos DEF SitiosDeBloqueo, Hilos
  <2>4. QED
    BY <2>1, <2>2, <2>3, SitiosDe DEF Colas
<1>5. /\ EnReady(r) <=> s \in {EnLaCola("rr"), EnLaCola("fifo")}
      /\ EnCola(r, cola["exit"]) <=> s = EnLaCola("exit")
      /\ Bloqueado(r) <=> s \in SitiosDeBloqueo
  BY <1>1, <1>2, <1>3, <1>4, LugarDe DEF Localizado
<1>6. Ejecutando(r) <=> s = CortoPlazo
  <2>1. Tiene(CortoPlazo, r) <=> s = CortoPlazo
    BY <1>2, <1>3, <1>4
  <2>2. Dirigido(r) => s \in SitiosDeBloqueo
    <3>1. SUFFICES ASSUME Dirigido(r) PROVE s = PF(r)
      BY <1>1, HilosPorIndice DEF SitiosDeBloqueo
    <3>2. QED
      BY <1>1, <1>2, <3>1, ElDirigido DEF Dirigido
  <2>3. QED
    BY <1>1, <1>2, <1>4, <1>5, <2>1, <2>2, LugarDe DEF Localizado
<1>7. EstadoDeSitio(s) = IF s \in {EnLaCola("rr"), EnLaCola("fifo")} THEN "READY"
                        ELSE IF s = EnLaCola("exit") THEN "EXIT"
                        ELSE IF s \in SitiosDeBloqueo THEN "BLOCK"
                        ELSE IF s = CortoPlazo THEN "EXEC" ELSE "NEW"
  BY <1>4 DEF EstadoDeSitio, Colas
<1>8. EstadoAbstracto(p) = IF EnReady(r) THEN "READY"
                           ELSE IF EnCola(r, cola["exit"]) THEN "EXIT"
                           ELSE IF Bloqueado(r) THEN "BLOCK"
                           ELSE IF Ejecutando(r) THEN "EXEC" ELSE "NEW"
  BY <1>2, EstadoDe
<1>9. QED
  BY <1>5, <1>6, <1>7, <1>8

LEMMA EstadoSuelto == EstadosSinSitio
<1> SUFFICES ASSUME ICiclico, NEW p \in Pids, NEW r \in Refs, r = Actual(p),
                    \A s \in Sitios : ~Tiene(s, r)
             PROVE  /\ vida[p] = "sin_crear" => EstadoAbstracto(p) = "FUERA"
                    /\ vida[p] = "destruida" => EstadoAbstracto(p) = "FIN"
                    /\ vida[p] = "en_cpu" => EstadoAbstracto(p) = "EXEC"
                    /\ vida[p] = "viva" =>
                         /\ Muerto(r) => EstadoAbstracto(p) = "BLOCK"
                         /\ ~Muerto(r) => /\ Dirigido(r) => EstadoAbstracto(p) = "EXEC"
                                          /\ ~Dirigido(r) => EstadoAbstracto(p) = "NEW"
  BY DEF EstadosSinSitio
<1>1. TypeOK /\ PunterosFijos /\ r[1] = p
  BY ActualDe DEF ICiclico
<1>2. \A s \in Sitios : ~Tiene(s, r)
  OBVIOUS
<1>3. /\ EnLaCola("rr") \in Sitios /\ EnLaCola("fifo") \in Sitios /\ EnLaCola("exit") \in Sitios
      /\ SitiosDeBloqueo \subseteq Sitios /\ CortoPlazo \in Sitios
  BY SitiosDe, HilosFijos DEF SitiosDeBloqueo, Hilos, Colas
<1>4. /\ ~EnReady(r) /\ ~EnCola(r, cola["exit"]) /\ ~Tiene(CortoPlazo, r)
      /\ Bloqueado(r) <=> Muerto(r)
      /\ Ejecutando(r) <=> vida[p] = "en_cpu" \/ (~Muerto(r) /\ Dirigido(r))
  BY <1>1, <1>2, <1>3, LugarDe DEF Localizado
<1>5. vida[p] = "en_cpu" => ~Muerto(r)
  BY <1>1 DEF ICiclico, Difuntos, Valido, Muerto
<1>6. QED
  BY <1>1, <1>4, <1>5, EstadoDe

-----------------------------------------------------------------------------
(* What a step about one process leaves as it was. *)

\* Where the PCBs of the other processes are, and who directs or gave up on them.
Igual(r) == /\ \A s \in Sitios : Tiene(s, r)' <=> Tiene(s, r)
            /\ Muerto(r)' <=> Muerto(r)
            /\ Dirigido(r)' <=> Dirigido(r)
Ajenos(p0) == \A r \in Refs : r[1] # p0 => Igual(r)
OtrasVidas(p0) == \A p \in Pids : p # p0 => vida'[p] = vida[p] /\ rafagas'[p] = rafagas[p]
Abstracto == [p \in Pids |-> EstadoAbstracto(p)]
OtrosEstados(p0) == \A p \in Pids : p # p0 => EstadoAbstracto(p)' = EstadoAbstracto(p)

LEMMA EstadoIgual ==
    ASSUME TypeOK, PunterosFijos, PunterosFijos', NEW p \in Pids, NEW r \in Refs, r = Actual(p),
           Igual(r), vida'[p] = vida[p], rafagas'[p] = rafagas[p]
    PROVE  EstadoAbstracto(p)' = EstadoAbstracto(p)
<1>1. /\ EnLaCola("rr") \in Sitios /\ EnLaCola("fifo") \in Sitios /\ EnLaCola("exit") \in Sitios
      /\ SitiosDeBloqueo \subseteq Sitios /\ CortoPlazo \in Sitios
  BY SitiosDe, HilosFijos DEF SitiosDeBloqueo, Hilos, Colas
<1>2. r[1] = p /\ Actual(p)' = r
  BY DEF Actual
<1>3. Localizado'
  BY LugarDe, PTL
<1>4. /\ EnReady(r)' <=> Tiene(EnLaCola("rr"), r)' \/ Tiene(EnLaCola("fifo"), r)'
      /\ EnCola(r, cola'["exit"]) <=> Tiene(EnLaCola("exit"), r)'
      /\ Bloqueado(r)' <=> Muerto(r)' \/ \E s \in SitiosDeBloqueo : Tiene(s, r)'
      /\ Ejecutando(r)' <=> \/ vida'[r[1]] = "en_cpu"
                            \/ ~Bloqueado(r)' /\ (Tiene(CortoPlazo, r)' \/ Dirigido(r)')
  <2>1. EnCola(r, cola'["exit"]) <=> Tiene(EnLaCola("exit"), r)'
    BY TieneDespues DEF Colas
  <2>2. EnReady(r)' <=> Tiene(EnLaCola("rr"), r)' \/ Tiene(EnLaCola("fifo"), r)'
    BY <1>3 DEF Localizado
  <2>3. Bloqueado(r)' <=> Muerto(r)' \/ \E s \in SitiosDeBloqueo : Tiene(s, r)'
    BY <1>3 DEF Localizado
  <2>4. Ejecutando(r)' <=> \/ vida'[r[1]] = "en_cpu"
                           \/ ~Bloqueado(r)' /\ (Tiene(CortoPlazo, r)' \/ Dirigido(r)')
    BY <1>3 DEF Localizado
  <2>5. QED
    BY <2>1, <2>2, <2>3, <2>4
<1>5. /\ EnReady(r)' <=> EnReady(r)
      /\ EnCola(r, cola'["exit"]) <=> EnCola(r, cola["exit"])
      /\ Bloqueado(r)' <=> Bloqueado(r)
  BY <1>1, <1>4, LugarDe DEF Localizado, Igual
<1>6. Ejecutando(r)' <=> Ejecutando(r)
  BY <1>1, <1>2, <1>4, <1>5, LugarDe DEF Localizado, Igual
<1>7. r = <<p, rafagas[p]>> /\ r = <<p, rafagas'[p]>>
  BY DEF Actual
<1>8. QED
  BY <1>5, <1>6, <1>7 DEF EstadoAbstracto

LEMMA EstadosAjenos ==
    ASSUME TypeOK, PunterosFijos, PunterosFijos', NEW p0, Ajenos(p0), OtrasVidas(p0)
    PROVE  OtrosEstados(p0)
<1> SUFFICES ASSUME NEW p \in Pids, p # p0 PROVE EstadoAbstracto(p)' = EstadoAbstracto(p)
  BY DEF OtrosEstados
<1>1. Actual(p) \in Refs /\ Actual(p)[1] = p
  BY ActualDe
<1>2. QED
  BY <1>1, EstadoIgual DEF Ajenos, OtrasVidas

\* A step of thread h about PCB r0, or about none if it keeps the one it has.
Sobre(h, l, r0) ==
    /\ \/ (pc[h] \in EnHilo(h) <=> l \in EnHilo(h)) /\ ptr'[h] = ptr[h]
       \/ (pc[h] \in EnHilo(h) => ptr[h] = r0) /\ (l \in EnHilo(h) => ptr'[h] = r0)
    /\ h = CortoPlazo => /\ pc[h] = "dirigir" => ptr[h] = r0
                         /\ l = "dirigir" => ptr'[h] = r0
    /\ h \in DePageFault /\ (pc[h] = "muerto" \/ l = "muerto") => h = PF(r0)

ColasSobre(r0) ==
    /\ \A q \in Colas : \A r \in Refs : r # r0 => (EnCola(r, cola'[q]) <=> EnCola(r, cola[q]))
    /\ \A d \in Dispositivos : \A r \in Refs :
          r # r0 => (EnCola(r, cola_dispositivo'[d]) <=> EnCola(r, cola_dispositivo[d]))

LEMMA PFInyectiva == \A r, t : PF(r) = PF(t) => r = t
BY DEF PF

LEMMA AjenosDe ==
    ASSUME TypeOK, NEW h \in Hilos, NEW l \in Lugares(h), Ir(h, l),
           \A k \in Hilos : k # h => ptr'[k] = ptr[k],
           NEW r0, Sobre(h, l, r0), ColasSobre(r0)
    PROVE  Ajenos(r0[1])
<1> SUFFICES ASSUME NEW r \in Refs, r # r0 PROVE Igual(r)
  BY DEF Ajenos
<1>1. /\ \A k \in Hilos : k # h => (Tiene(k, r)' <=> Tiene(k, r))
      /\ Tiene(h, r)' <=> ptr'[h] = r /\ l \in EnHilo(h)
      /\ Tiene(h, r) <=> ptr[h] = r /\ pc[h] \in EnHilo(h)
      /\ pc'[h] = l /\ \A k \in Hilos : k # h => pc'[k] = pc[k]
  BY TieneMueve, TieneDe, IrTipo
<1>2. Tiene(h, r)' <=> Tiene(h, r)
  BY <1>1 DEF Sobre
<1>3. \A q \in Colas : Tiene(EnLaCola(q), r)' <=> Tiene(EnLaCola(q), r)
  BY TieneDe, TieneDespues DEF ColasSobre
<1>4. \A d \in Dispositivos : Tiene(EnDispositivo(d), r)' <=> Tiene(EnDispositivo(d), r)
  BY TieneDe, TieneDespues DEF ColasSobre
<1>5. \A s \in Sitios : Tiene(s, r)' <=> Tiene(s, r)
  BY <1>1, <1>2, <1>3, <1>4, SitiosDe
<1>6. Muerto(r)' <=> Muerto(r)
  BY <1>1, HilosPorIndice, PFInyectiva DEF Muerto, Sobre
<1>7. Dirigido(r)' <=> Dirigido(r)
  BY <1>1, HilosFijos DEF Dirigido, Sobre
<1>8. QED
  BY <1>5, <1>6, <1>7 DEF Igual

-----------------------------------------------------------------------------
(* From a change of one process to a step of the life cycle. *)

LEMMA CambioDe ==
    ASSUME NEW p \in Pids, OtrosEstados(p), NEW de, NEW a,
           EstadoAbstracto(p) = de, EstadoAbstracto(p)' = a
    PROVE  Ciclo!Cambiar(p, de, a)
<1>1. Abstracto[p] = de
  BY DEF Abstracto
<1>2. Abstracto' = [Abstracto EXCEPT ![p] = a]
  <2>1. \A q \in Pids : Abstracto'[q] = EstadoAbstracto(q)'
    BY DEF Abstracto
  <2>2. Abstracto' = [q \in Pids |-> Abstracto'[q]]
    BY DEF Abstracto
  <2>3. [Abstracto EXCEPT ![p] = a] = [q \in Pids |-> IF q = p THEN a ELSE EstadoAbstracto(q)]
    BY DEF Abstracto
  <2>4. \A q \in Pids : Abstracto'[q] = IF q = p THEN a ELSE EstadoAbstracto(q)
    BY <2>1 DEF OtrosEstados
  <2>5. QED
    BY <2>2, <2>3, <2>4
<1>3. QED
  BY <1>1, <1>2 DEF Ciclo!Cambiar, Abstracto

LEMMA SinCambio ==
    ASSUME NEW p0, OtrosEstados(p0), p0 \in Pids => EstadoAbstracto(p0)' = EstadoAbstracto(p0)
    PROVE  Abstracto' = Abstracto
<1>1. \A q \in Pids : EstadoAbstracto(q)' = EstadoAbstracto(q)
  BY DEF OtrosEstados
<1>2. \A q \in Pids : Abstracto'[q] = Abstracto[q]
  BY <1>1 DEF Abstracto
<1>3. Abstracto' = [q \in Pids |-> Abstracto'[q]] /\ Abstracto = [q \in Pids |-> Abstracto[q]]
  BY DEF Abstracto
<1>4. QED
  BY <1>2, <1>3

\* The primed forms of the two lemmas about abstract states.
LEMMA EstadoEnSitioTras == EstadosConSitio'
BY EstadoEnSitio, PTL

LEMMA EstadoSueltoTras == EstadosSinSitio'
BY EstadoSuelto, PTL

-----------------------------------------------------------------------------
(* Steps of the life cycle. *)

ITotal == IPropiedad /\ ICiclo

PasoDelCiclo ==
    /\ Ciclo!Next \/ Abstracto' = Abstracto
    /\ Difuntos' /\ EnCpuSolo'
    /\ \A p \in Pids : Lanzado(p)' /\ ~Lanzado(p) => EstadoAbstracto(p)' = "READY"

LEMMA DeITotal ==
    ASSUME ITotal
    PROVE  /\ IInv /\ TypeOK /\ IAdmision /\ PunterosFijos /\ SoloLanzados /\ PcbEnCpu /\ NewEnOrden
           /\ IDuenio /\ UnSoloSitio /\ SinRepetidos /\ SoloValidos /\ SinEstrenar /\ ADirigir
           /\ Difuntos /\ EnCpuSolo /\ NadieSePierde /\ ICiclico
BY DEF ITotal, IPropiedad, IEspera, IInv, IAdmision, IDuenio, ICiclo, ICiclico

LEMMA PunterosFijosTras == IPropiedad' => PunterosFijos' /\ TypeOK' /\ IDuenio'
BY DEF IPropiedad, IEspera, IInv, IAdmision

LEMMA DifuntosDe ==
    ASSUME Difuntos, NEW p0, Ajenos(p0), OtrasVidas(p0),
           \A r \in Refs : r[1] = p0 /\ pc'[PF(r)] = "muerto" =>
              Valido(r)' /\ \A s \in Sitios : ~Tiene(s, r)'
    PROVE  Difuntos'
<1> SUFFICES ASSUME NEW r \in Refs, pc'[PF(r)] = "muerto", r[1] # p0
             PROVE  Valido(r)' /\ \A s \in Sitios : ~Tiene(s, r)'
  BY DEF Difuntos
<1>1. Igual(r) /\ r[1] \in Pids
  BY DEF Ajenos, Refs
<1>2. Valido(r) /\ \A s \in Sitios : ~Tiene(s, r)
  BY <1>1 DEF Difuntos, Igual, Muerto
<1>3. QED
  BY <1>1, <1>2 DEF Igual, OtrasVidas, Valido

LEMMA EnCpuQuieto ==
    ASSUME EnCpuSolo, vida' = vida,
           pc[CortoPlazo] = "recibir" => pc'[CortoPlazo] = "recibir" /\ cpu'.pid = cpu.pid
    PROVE  EnCpuSolo'
BY DEF EnCpuSolo

LEMMA LanzadosIguales ==
    ASSUME MismoCorte, pc'[LargoPlazo] \in EnAdmision <=> pc[LargoPlazo] \in EnAdmision
    PROVE  \A p : Lanzado(p)' <=> Lanzado(p)
BY CorteQuieto DEF Lanzado

\* A step that is not about any process.
LEMMA PasoQuieto ==
    ASSUME ITotal, IPropiedad', Ajenos(0), vida' = vida, rafagas' = rafagas,
           pc[CortoPlazo] = "recibir" => pc'[CortoPlazo] = "recibir" /\ cpu'.pid = cpu.pid,
           \A p : Lanzado(p)' <=> Lanzado(p)
    PROVE  PasoDelCiclo
<1>1. OtrasVidas(0) /\ 0 \notin Pids
  BY LimitesAssumption DEF OtrasVidas, Pids
<1>2. OtrosEstados(0)
  BY <1>1, DeITotal, PunterosFijosTras, EstadosAjenos
<1>3. Abstracto' = Abstracto
  BY <1>1, <1>2, SinCambio
<1>4. Difuntos'
  <2>1. \A r \in Refs : r[1] # 0
    BY <1>1 DEF Refs
  <2>2. QED
    BY <1>1, <2>1, DeITotal, DifuntosDe
<1>5. EnCpuSolo'
  BY DeITotal, EnCpuQuieto
<1>6. QED
  BY <1>3, <1>4, <1>5 DEF PasoDelCiclo

LEMMA ColasIguales ==
    ASSUME cola' = cola, cola_dispositivo' = cola_dispositivo
    PROVE  \A r0 : ColasSobre(r0)
BY DEF ColasSobre

\* A thread moves, and keeps the PCB it has or has none.
LEMMA PasoDeHilo ==
    ASSUME ITotal, IPropiedad', NEW h \in Hilos, NEW l \in Lugares(h), Ir(h, l),
           UNCHANGED <<cola, cola_dispositivo, ptr, vida, rafagas, pid_actual>>,
           pc[h] \in EnHilo(h) <=> l \in EnHilo(h),
           h = CortoPlazo => {pc[h], l} \cap {"dirigir", "recibir"} = {},
           h # CortoPlazo => cpu' = cpu,
           h \in DePageFault => {pc[h], l} \cap {"muerto"} = {},
           h = LargoPlazo => (pc[h] \in EnAdmision <=> l \in EnAdmision)
    PROVE  PasoDelCiclo
<1>1. TypeOK /\ pc'[h] = l /\ \A k \in Hilos : k # h => pc'[k] = pc[k]
  BY DeITotal, IrTipo
<1>2. LargoPlazo \in Hilos /\ CortoPlazo \in Hilos
  BY HilosFijos
<1>3. Sobre(h, l, NULO) /\ ColasSobre(NULO) /\ NULO[1] = 0
  BY ColasIguales DEF Sobre, NULO
<1>4. Ajenos(0)
  BY <1>1, <1>3, AjenosDe
<1>5. \A p : Lanzado(p)' <=> Lanzado(p)
  BY <1>1, <1>2, LanzadosIguales DEF MismoCorte
<1>6. pc[CortoPlazo] = "recibir" => pc'[CortoPlazo] = "recibir" /\ cpu'.pid = cpu.pid
  BY <1>1, <1>2
<1>7. QED
  BY <1>4, <1>5, <1>6, PasoQuieto

LEMMA PasoDeSemaforo ==
    ASSUME ITotal, IPropiedad', NEW h \in Hilos, NEW l \in Lugares(h), NEW de, NEW s,
           Esperar(h, de, s, l) \/ Avisar(h, de, s, l),
           de \in EnHilo(h) <=> l \in EnHilo(h),
           {de, l} \cap {"dirigir", "recibir", "muerto"} = {},
           h = LargoPlazo => (de \in EnAdmision <=> l \in EnAdmision)
    PROVE  PasoDelCiclo
<1>1. /\ Ir(h, l) /\ pc[h] = de
      /\ UNCHANGED <<cola, cola_dispositivo, ptr, vida, rafagas, pid_actual, cpu>>
  BY DEF Esperar, Avisar, En, dispositivos, procesos, entorno
<1>2. QED
  BY <1>1, PasoDeHilo

\* What ends the behaviour, and what is not about the scheduler's PCBs.
LEMMA PasoInmovil ==
    ASSUME ITotal, IPropiedad', UNCHANGED <<cola, cola_dispositivo, procesos, pc, ptr>>,
           cpu'.pid = cpu.pid
    PROVE  PasoDelCiclo
<1>1. UNCHANGED <<pid_actual, vida, rafagas>>
  BY DEF procesos
<1>2. Ajenos(0)
  BY DEF Ajenos, Igual, Muerto, Dirigido, Tiene, EnCola
<1>3. \A p : Lanzado(p)' <=> Lanzado(p)
  BY <1>1 DEF Lanzado, Corte
<1>4. QED
  BY <1>1, <1>2, <1>3, PasoQuieto

LEMMA FallarCiclo ==
    ASSUME ITotal, IPropiedad', UNCHANGED vars \/ \E f : Fallar(f)
    PROVE  PasoDelCiclo
<1>1. UNCHANGED <<cola, cola_dispositivo, procesos, pc, ptr, cpu>>
  BY DEF Fallar, vars, dispositivos, entorno
<1>2. QED
  BY <1>1, PasoInmovil

LEMMA ValoresDeSitio ==
    /\ EstadoDeSitio(EnLaCola("rr")) = "READY" /\ EstadoDeSitio(EnLaCola("fifo")) = "READY"
    /\ EstadoDeSitio(EnLaCola("exit")) = "EXIT" /\ EstadoDeSitio(EnLaCola("new")) = "NEW"
    /\ EstadoDeSitio(CortoPlazo) = "EXEC" /\ EstadoDeSitio(LargoPlazo) = "NEW"
    /\ \A d \in Dispositivos : /\ EstadoDeSitio(EnDispositivo(d)) = "BLOCK"
                               /\ EstadoDeSitio(ES(d)) = "BLOCK"
    /\ \A r \in Refs : EstadoDeSitio(PF(r)) = "BLOCK" /\ EstadoDeSitio(IO(r)) = "BLOCK"
<1>1. \A q \in Colas : EnLaCola(q) \notin SitiosDeBloqueo /\ EnLaCola(q) \notin Hilos
  BY SitiosDe, HilosFijos DEF SitiosDeBloqueo, Hilos
<1>2. \A q, c \in Colas : EnLaCola(q) = EnLaCola(c) => q = c
  BY SitiosDe
<1>3. /\ CortoPlazo \in Hilos /\ LargoPlazo \in Hilos /\ CortoPlazo # LargoPlazo
      /\ {"rr", "fifo", "exit", "new"} \subseteq Colas
  BY HilosFijos DEF Colas
<1>4. CortoPlazo \notin SitiosDeBloqueo /\ LargoPlazo \notin SitiosDeBloqueo
  BY SitiosDe, HilosFijos DEF SitiosDeBloqueo
<1>5. EstadoDeSitio(EnLaCola("rr")) = "READY" /\ EstadoDeSitio(EnLaCola("fifo")) = "READY"
  BY <1>1, <1>2, <1>3 DEF EstadoDeSitio
<1>6. EstadoDeSitio(EnLaCola("exit")) = "EXIT" /\ EstadoDeSitio(EnLaCola("new")) = "NEW"
  BY <1>1, <1>2, <1>3 DEF EstadoDeSitio
<1>7. EstadoDeSitio(CortoPlazo) = "EXEC" /\ EstadoDeSitio(LargoPlazo) = "NEW"
  BY <1>1, <1>3, <1>4 DEF EstadoDeSitio
<1>8. ASSUME NEW s \in SitiosDeBloqueo PROVE EstadoDeSitio(s) = "BLOCK"
  BY <1>1, <1>3, <1>4 DEF EstadoDeSitio
<1>9. /\ \A d \in Dispositivos : EnDispositivo(d) \in SitiosDeBloqueo /\ ES(d) \in SitiosDeBloqueo
      /\ \A r \in Refs : PF(r) \in SitiosDeBloqueo /\ IO(r) \in SitiosDeBloqueo
  BY HilosPorIndice DEF SitiosDeBloqueo
<1>10. QED
  BY <1>5, <1>6, <1>7, <1>8, <1>9

LEMMA ActualValido ==
    ASSUME NEW r \in Refs
    PROVE  /\ Valido(r) => r[1] \in Pids /\ r = Actual(r[1])
           /\ rafagas' = rafagas => Actual(r[1])' = Actual(r[1])
<1>1. r = <<r[1], r[2]>> /\ r[1] \in Pids
  BY DEF Refs
<1>2. QED
  BY <1>1 DEF Valido, Actual

\* The PCB r0 goes from place s0 to place s1.
LEMMA PasoDeTraspaso ==
    ASSUME ITotal, IPropiedad', NEW r0 \in Refs, NEW s0 \in Sitios, NEW s1 \in Sitios,
           Tiene(s0, r0), Tiene(s1, r0)', Ajenos(r0[1]), UNCHANGED <<vida, rafagas>>,
           pc[CortoPlazo] = "recibir" => pc'[CortoPlazo] = "recibir" /\ cpu'.pid = cpu.pid,
           \A r \in Refs : pc'[PF(r)] = "muerto" => pc[PF(r)] = "muerto"
    PROVE  /\ Difuntos' /\ EnCpuSolo' /\ OtrosEstados(r0[1])
           /\ r0[1] \in Pids
           /\ EstadoAbstracto(r0[1]) = EstadoDeSitio(s0)
           /\ EstadoAbstracto(r0[1])' = EstadoDeSitio(s1)
<1>1. /\ ICiclico /\ Difuntos /\ EnCpuSolo /\ SoloValidos /\ TypeOK /\ PunterosFijos
      /\ PunterosFijos' /\ TypeOK' /\ IDuenio'
  BY DeITotal, PunterosFijosTras
<1>2. Valido(r0) /\ OtrasVidas(r0[1])
  BY <1>1 DEF SoloValidos, OtrasVidas
<1>3. Difuntos'
  <2>1. \A r \in Refs : r[1] = r0[1] => pc'[PF(r)] # "muerto"
    BY <1>1, <1>2, ValidoUnico DEF Difuntos
  <2>2. QED
    BY <1>1, <1>2, <2>1, DifuntosDe
<1>4. OtrosEstados(r0[1])
  BY <1>1, <1>2, EstadosAjenos
<1>5. r0[1] \in Pids /\ r0 = Actual(r0[1]) /\ r0 = Actual(r0[1])'
  BY <1>2, ActualValido
<1>6. EstadoAbstracto(r0[1]) = EstadoDeSitio(s0)
  BY <1>1, <1>5, EstadoEnSitio DEF EstadosConSitio
<1>7. EstadoAbstracto(r0[1])' = EstadoDeSitio(s1)
  <2>1. ICiclico'
    BY <1>1, <1>3 DEF ICiclico
  <2>2. QED
    BY <1>5, <2>1, EstadoEnSitioTras DEF EstadosConSitio
<1>8. QED
  BY <1>1, <1>3, <1>4, <1>5, <1>6, <1>7, EnCpuQuieto

\* The changes the life cycle allows without looking at other processes.
Libres == {<<"EXEC", "READY">>, <<"EXEC", "BLOCK">>, <<"EXEC", "EXIT">>, <<"BLOCK", "READY">>,
           <<"EXIT", "FIN">>}

LEMMA CambioLibre ==
    ASSUME NEW p \in Pids, OtrosEstados(p), NEW de, NEW a,
           EstadoAbstracto(p) = de, EstadoAbstracto(p)' = a, de = a \/ <<de, a>> \in Libres
    PROVE  Ciclo!Next \/ Abstracto' = Abstracto
<1>1. CASE de = a
  BY <1>1, SinCambio
<1>2. CASE <<de, a>> \in Libres
  <2>1. Ciclo!Cambiar(p, de, a)
    BY CambioDe
  <2>2. p \in Ciclo!Pids
    BY DEF Ciclo!Pids, Pids
  <2>3. Ciclo!Dejar(p) \/ Ciclo!Despertar(p) \/ Ciclo!Terminar(p)
    BY <1>2, <2>1 DEF Libres, Ciclo!Dejar, Ciclo!Despertar, Ciclo!Terminar
  <2>4. QED
    BY <2>2, <2>3 DEF Ciclo!Next
<1>3. QED
  BY <1>1, <1>2

LEMMA TraspasoLibre ==
    ASSUME ITotal, IPropiedad', NEW r0 \in Refs, NEW s0 \in Sitios, NEW s1 \in Sitios,
           Tiene(s0, r0), Tiene(s1, r0)', Ajenos(r0[1]), UNCHANGED <<vida, rafagas>>,
           pc[CortoPlazo] = "recibir" => pc'[CortoPlazo] = "recibir" /\ cpu'.pid = cpu.pid,
           \A r \in Refs : pc'[PF(r)] = "muerto" => pc[PF(r)] = "muerto",
           NEW de, NEW a, EstadoDeSitio(s0) = de, EstadoDeSitio(s1) = a,
           de = a \/ <<de, a>> \in Libres, \A p : Lanzado(p)' <=> Lanzado(p)
    PROVE  PasoDelCiclo
<1>1. /\ Difuntos' /\ EnCpuSolo' /\ OtrosEstados(r0[1]) /\ r0[1] \in Pids
      /\ EstadoAbstracto(r0[1]) = de /\ EstadoAbstracto(r0[1])' = a
  BY PasoDeTraspaso
<1>2. Ciclo!Next \/ Abstracto' = Abstracto
  BY <1>1, CambioLibre
<1>3. QED
  BY <1>1, <1>2 DEF PasoDelCiclo

-----------------------------------------------------------------------------
(* pasar_a_ready *)

LEMMA EncolarSobre ==
    ASSUME TypeOK, NEW q0 \in Colas, NEW r0 \in Refs, cola' = [cola EXCEPT ![q0] = Append(@, r0)],
           cola_dispositivo' = cola_dispositivo
    PROVE  ColasSobre(r0) /\ EnCola(r0, cola'[q0]) /\ \A q \in Colas : q # q0 => cola'[q] = cola[q]
<1>1. /\ cola[q0] \in Seq(Refs) /\ cola'[q0] = Append(cola[q0], r0)
      /\ \A q \in Colas : q # q0 => cola'[q] = cola[q]
  BY DEF TypeOK
<1>2. \A r : EnCola(r, cola'[q0]) <=> EnCola(r, cola[q0]) \/ r = r0
  BY <1>1, EnColaAppend
<1>3. QED
  BY <1>1, <1>2 DEF ColasSobre

LEMMA DesencolarSobre ==
    ASSUME TypeOK, NEW q0 \in Colas, cola[q0] # <<>>, cola' = [cola EXCEPT ![q0] = Tail(@)],
           NEW r0, r0 = Head(cola[q0]), cola_dispositivo' = cola_dispositivo
    PROVE  /\ ColasSobre(r0) /\ r0 \in Refs /\ EnCola(r0, cola[q0])
           /\ \A q \in Colas : q # q0 => cola'[q] = cola[q]
<1>1. /\ cola[q0] \in Seq(Refs) /\ cola'[q0] = Tail(cola[q0]) /\ r0 \in Refs
      /\ \A q \in Colas : q # q0 => cola'[q] = cola[q]
  BY DEF TypeOK
<1>2. \A r : EnCola(r, cola[q0]) <=> EnCola(r, cola'[q0]) \/ r = r0
  BY <1>1, EnColaTail
<1>3. QED
  BY <1>1, <1>2 DEF ColasSobre

\* What the push does, whoever does it.
LEMMA PushReadySobre ==
    ASSUME ITotal, NEW h \in Pasadores, PushReady(h)
    PROVE  \E r0 \in Refs : \E q0 \in {"rr", "fifo"} :
              /\ r0 = ptr[h] /\ Valido(r0) /\ Tiene(h, r0) /\ h \in Sitios
              /\ EnLaCola(q0) \in Sitios /\ Tiene(EnLaCola(q0), r0)' /\ Ajenos(r0[1])
              /\ EstadoDeSitio(EnLaCola(q0)) = "READY"
              /\ UNCHANGED <<vida, rafagas, pid_actual, cpu>> /\ cola'["new"] = cola["new"]
              /\ pc[h] = "push_ready" /\ pc'[h] = "limpiar" /\ \A k \in Hilos : k # h => pc'[k] = pc[k]
<1>1. /\ TypeOK /\ h \in Hilos /\ "limpiar" \in Lugares(h) /\ Ir(h, "limpiar") /\ h \in Sitios
      /\ "push_ready" \in EnHilo(h) /\ "limpiar" \notin EnHilo(h)
  BY DeITotal, PasadoresDe, PasadorTiene, EnHiloDe, SitiosDe DEF PushReady
<1>2. PICK r0 \in Refs : r0 = ptr[h] /\ Valido(r0)
  BY <1>1, ValidoRef DEF PushReady
<1>3. PICK q0 \in {"rr", "fifo"} : cola' = [cola EXCEPT ![q0] = Append(@, ptr[h])]
  <2>1. CASE Preemptible(ptr[h])
    BY <2>1 DEF PushReady
  <2>2. CASE ~Preemptible(ptr[h])
    BY <2>2 DEF PushReady
  <2>3. QED
    BY <2>1, <2>2
<1>4. UNCHANGED <<vida, rafagas, pid_actual, cpu, cola_dispositivo, ptr>> /\ pc[h] = "push_ready"
  BY DEF PushReady, En, dispositivos, entorno
<1>5. q0 \in Colas /\ "new" \in Colas /\ q0 # "new"
  BY DEF Colas
<1>6. /\ ColasSobre(r0) /\ EnCola(r0, cola'[q0]) /\ cola'["new"] = cola["new"]
  BY <1>1, <1>2, <1>3, <1>4, <1>5, EncolarSobre
<1>7. /\ Tiene(h, r0) /\ EnLaCola(q0) \in Sitios /\ Tiene(EnLaCola(q0), r0)'
  BY <1>1, <1>2, <1>4, <1>5, <1>6, TieneDe, TieneDespues, SitiosDe
<1>8. Sobre(h, "limpiar", r0)
  BY <1>1, <1>2, <1>4 DEF Sobre
<1>9. Ajenos(r0[1])
  BY <1>1, <1>4, <1>6, <1>8, AjenosDe
<1>10. EstadoDeSitio(EnLaCola(q0)) = "READY"
  BY ValoresDeSitio
<1>11. pc'[h] = "limpiar" /\ \A k \in Hilos : k # h => pc'[k] = pc[k]
  BY <1>1, IrTipo
<1>12. QED
  BY <1>1, <1>2, <1>4, <1>6, <1>7, <1>9, <1>10, <1>11

LEMMA PushReadyCiclo ==
    ASSUME ITotal, IPropiedad', NEW h \in Pasadores \ {LargoPlazo}, PushReady(h)
    PROVE  PasoDelCiclo
<1>1. PICK r0 \in Refs, q0 \in {"rr", "fifo"} :
              /\ r0 = ptr[h] /\ Valido(r0) /\ Tiene(h, r0) /\ h \in Sitios
              /\ EnLaCola(q0) \in Sitios /\ Tiene(EnLaCola(q0), r0)' /\ Ajenos(r0[1])
              /\ EstadoDeSitio(EnLaCola(q0)) = "READY"
              /\ UNCHANGED <<vida, rafagas, pid_actual, cpu>> /\ cola'["new"] = cola["new"]
              /\ pc[h] = "push_ready" /\ pc'[h] = "limpiar" /\ \A k \in Hilos : k # h => pc'[k] = pc[k]
  BY PushReadySobre
<1>2. EstadoDeSitio(h) \in {"EXEC", "BLOCK"}
  BY ValoresDeSitio DEF Pasadores, DeDispositivo, DePageFault, DeConsola
<1>3. \A p : Lanzado(p)' <=> Lanzado(p)
  BY <1>1, HilosFijos, LanzadosIguales DEF MismoCorte
<1>4. \A r \in Refs : pc'[PF(r)] = "muerto" => pc[PF(r)] = "muerto"
  BY <1>1, HilosPorIndice
<1>5. pc[CortoPlazo] = "recibir" => pc'[CortoPlazo] = "recibir" /\ cpu'.pid = cpu.pid
  BY <1>1, HilosFijos
<1>6. <<EstadoDeSitio(h), "READY">> \in Libres
  BY <1>2 DEF Libres
<1>7. QED
  BY <1>1, <1>3, <1>4, <1>5, <1>6, TraspasoLibre

LEMMA PasarAReadyCiclo ==
    ASSUME ITotal, IPropiedad', NEW h \in Pasadores, PasarAReady(h),
           ~(h = LargoPlazo /\ PushReady(h))
    PROVE  PasoDelCiclo
<1>1. /\ h \in Hilos /\ {"limpiar", "post_ready"} \cap EnHilo(h) = {}
      /\ "post_ready" \in Lugares(h) /\ TrasReady(h) \in Lugares(h) /\ TypeOK
  BY DeITotal, PasadoresDe, EnHiloDe
<1>2. /\ TrasReady(h) \notin EnHilo(h)
      /\ TrasReady(h) \in {"espera_new", "espera_ready", "espera", "fin"}
  BY TrasReadyDe, EnHiloDe DEF Pasadores
<1>3. CASE PushReady(h)
  BY <1>3, PushReadyCiclo
<1>4. CASE LimpiarBanderas(h)
  <2>1. /\ Ir(h, "post_ready") /\ pc[h] = "limpiar"
        /\ UNCHANGED <<cola, cola_dispositivo, ptr, vida, rafagas, pid_actual, cpu>>
    BY <1>4 DEF LimpiarBanderas, En, dispositivos, entorno
  <2>2. "limpiar" \notin EnAdmision /\ "post_ready" \notin EnAdmision
    BY DEF EnAdmision
  <2>3. QED
    BY <1>1, <2>1, <2>2, PasoDeHilo
<1>5. CASE UsoTrasLiberar(h)
  BY <1>5, FallarCiclo DEF UsoTrasLiberar
<1>6. CASE Avisar(h, "post_ready", "procesos_ready", TrasReady(h))
  BY <1>1, <1>2, <1>6, PasoDeSemaforo DEF EnAdmision
<1>7. QED
  BY <1>3, <1>4, <1>5, <1>6 DEF PasarAReady

\* A step about process p0: what it is before and after is told by where its PCB is.
LEMMA PasoSobre ==
    ASSUME ITotal, IPropiedad', NEW p0 \in Pids, Ajenos(p0), OtrasVidas(p0),
           \A r \in Refs : r[1] = p0 /\ pc'[PF(r)] = "muerto" =>
              Valido(r)' /\ \A s \in Sitios : ~Tiene(s, r)'
    PROVE  /\ Difuntos' /\ ICiclico' /\ OtrosEstados(p0)
           /\ \A r \in Refs : r = Actual(p0)' =>
                 /\ \A s \in Sitios : Tiene(s, r)' => EstadoAbstracto(p0)' = EstadoDeSitio(s)
                 /\ vida'[p0] = "viva" /\ (\A s \in Sitios : ~Tiene(s, r)')
                       /\ ~Muerto(r)' /\ ~Dirigido(r)' => EstadoAbstracto(p0)' = "NEW"
                 /\ vida'[p0] = "viva" /\ (\A s \in Sitios : ~Tiene(s, r)')
                       /\ ~Muerto(r)' /\ Dirigido(r)' => EstadoAbstracto(p0)' = "EXEC"
                 /\ vida'[p0] = "viva" /\ (\A s \in Sitios : ~Tiene(s, r)')
                       /\ Muerto(r)' => EstadoAbstracto(p0)' = "BLOCK"
                 /\ vida'[p0] = "en_cpu" /\ (\A s \in Sitios : ~Tiene(s, r)')
                       => EstadoAbstracto(p0)' = "EXEC"
                 /\ vida'[p0] = "destruida" /\ (\A s \in Sitios : ~Tiene(s, r)')
                       => EstadoAbstracto(p0)' = "FIN"
<1>1. Difuntos /\ TypeOK /\ PunterosFijos /\ PunterosFijos' /\ TypeOK' /\ IDuenio'
  BY DeITotal, PunterosFijosTras
<1>2. Difuntos' /\ OtrosEstados(p0)
  BY <1>1, DifuntosDe, EstadosAjenos
<1>3. ICiclico'
  BY <1>1, <1>2 DEF ICiclico
<1>4. ASSUME NEW r \in Refs, r = Actual(p0)'
      PROVE  \A s \in Sitios : Tiene(s, r)' => EstadoAbstracto(p0)' = EstadoDeSitio(s)
  BY <1>3, <1>4, EstadoEnSitioTras DEF EstadosConSitio
<1>5. ASSUME NEW r \in Refs, r = Actual(p0)', \A s \in Sitios : ~Tiene(s, r)'
      PROVE  /\ vida'[p0] = "destruida" => EstadoAbstracto(p0)' = "FIN"
             /\ vida'[p0] = "en_cpu" => EstadoAbstracto(p0)' = "EXEC"
             /\ vida'[p0] = "viva" =>
                  /\ Muerto(r)' => EstadoAbstracto(p0)' = "BLOCK"
                  /\ ~Muerto(r)' => /\ Dirigido(r)' => EstadoAbstracto(p0)' = "EXEC"
                                    /\ ~Dirigido(r)' => EstadoAbstracto(p0)' = "NEW"
  BY <1>3, <1>5, EstadoSueltoTras DEF EstadosSinSitio
<1>6. QED
  BY <1>2, <1>3, <1>4, <1>5

-----------------------------------------------------------------------------
(* Arrival and admission. *)

LEMMA AtenderNuevaConsolaCiclo ==
    ASSUME ITotal, IPropiedad', AtenderNuevaConsola
    PROVE  PasoDelCiclo
<1>p. PICK p0 : p0 = pid_actual + 1
  OBVIOUS
<1>r. PICK r0 : r0 = <<p0, 0>>
  OBVIOUS
<1>1. /\ IInv /\ TypeOK /\ SinEstrenar /\ NewEnOrden /\ Difuntos /\ EnCpuSolo
      /\ Conexiones \in Hilos /\ "post_new" \in Lugares(Conexiones) /\ Conexiones # CortoPlazo
      /\ Conexiones \notin DePageFault /\ "new" \in Colas /\ EnHilo(Conexiones) = {}
      /\ LargoPlazo \in Hilos /\ Conexiones # LargoPlazo /\ CortoPlazo \in Hilos
  BY DeITotal, HilosFijos, LugaresDe, EnHiloDe DEF Colas
<1>2. /\ p0 \in Pids /\ r0 \in Refs /\ pid_actual < p0 /\ r0[1] = p0 /\ r0[2] = 0
      /\ \A q \in 1..(p0 - 1) : q \in Pids /\ q <= pid_actual
  <2>1. pid_actual \in Nat /\ pid_actual < MaxPid
    BY <1>1 DEF AtenderNuevaConsola, TypeOK
  <2>2. p0 \in 1..MaxPid /\ pid_actual < p0 /\ \A q \in 1..(p0 - 1) : q \in 1..MaxPid /\ q <= pid_actual
    BY ONLY <1>p, <2>1, LimitesAssumption
  <2>3. r0 \in Refs
    BY ONLY <1>r, <2>2, LimitesAssumption DEF Refs, Pids
  <2>4. r0[1] = p0 /\ r0[2] = 0
    BY ONLY <1>r
  <2> QED BY ONLY <2>2, <2>3, <2>4 DEF Pids
<1>3. /\ Ir(Conexiones, "post_new") /\ cola' = [cola EXCEPT !["new"] = Append(@, r0)]
      /\ UNCHANGED <<cola_dispositivo, rafagas, ptr, cpu>> /\ pid_actual' = p0
  BY <1>p, <1>r DEF AtenderNuevaConsola, dispositivos
<1>4. vida'[p0] = "viva" /\ \A q \in Pids : q # p0 => vida'[q] = vida[q]
  BY <1>p, <1>1, <1>2 DEF AtenderNuevaConsola, TypeOK
<1>5. vida[p0] = "sin_crear" /\ rafagas[p0] = 0
  BY <1>1, <1>2 DEF NewEnOrden, SinEstrenar
<1>6. ColasSobre(r0) /\ EnCola(r0, cola'["new"])
  BY <1>1, <1>2, <1>3, EncolarSobre
<1>7. pc'[Conexiones] = "post_new" /\ \A k \in Hilos : k # Conexiones => pc'[k] = pc[k]
  BY <1>1, <1>3, IrTipo
<1>8. Sobre(Conexiones, "post_new", r0)
  BY <1>1, <1>3 DEF Sobre
<1>9. Ajenos(p0)
  BY <1>1, <1>2, <1>3, <1>6, <1>8, AjenosDe
<1>10. OtrasVidas(p0)
  BY <1>3, <1>4 DEF OtrasVidas
<1>11. \A r \in Refs : r[1] = p0 => pc'[PF(r)] # "muerto"
  BY <1>1, <1>5, <1>7, HilosPorIndice DEF Difuntos, Valido
<1>12. r0 = Actual(p0)' /\ EnLaCola("new") \in Sitios /\ Tiene(EnLaCola("new"), r0)'
  BY <1>1, <1>r, <1>3, <1>5, <1>6, SitiosDe, TieneDespues DEF Actual
<1>13. Difuntos' /\ OtrosEstados(p0) /\ EstadoAbstracto(p0)' = EstadoDeSitio(EnLaCola("new"))
  BY <1>2, <1>9, <1>10, <1>11, <1>12, PasoSobre
<1>14. EstadoAbstracto(p0)' = "NEW" /\ EstadoAbstracto(p0) = "FUERA"
  BY <1>2, <1>5, <1>13, ValoresDeSitio, EstadoDe
<1>15. Ciclo!Next
  <2>1. Ciclo!Cambiar(p0, "FUERA", "NEW")
    BY <1>2, <1>13, <1>14, CambioDe
  <2>2. ASSUME NEW q \in 1..(p0 - 1) PROVE Abstracto[q] # "FUERA"
    <3>1. q \in Pids /\ vida[q] # "sin_crear"
      <4>1. q \in Pids /\ q \in Nat /\ Corte \in Nat /\ q <= pid_actual
        BY <1>1, <1>2, CorteTipo DEF Pids
      <4>2. q <= Corte \/ Corte < q
        BY <4>1
      <4>3. QED
        BY <1>1, <4>1, <4>2 DEF NewEnOrden
    <3>2. EstadoAbstracto(q) # "FUERA"
      BY <3>1 DEF EstadoAbstracto
    <3>3. QED
      BY <3>1, <3>2 DEF Abstracto
  <2>3. Ciclo!Llegar(p0)
    BY <2>1, <2>2 DEF Ciclo!Llegar, Abstracto
  <2>4. p0 \in Ciclo!Pids
    BY <1>2 DEF Ciclo!Pids, Pids
  <2>5. QED
    BY <2>3, <2>4 DEF Ciclo!Next
<1>16. EnCpuSolo'
  BY <1>1, <1>3, <1>4, <1>7 DEF EnCpuSolo
<1>17. Corte' = Corte
  <2>1. cola["new"] \in Seq(Refs) /\ cola'["new"] = Append(cola["new"], r0)
    BY <1>1, <1>3 DEF TypeOK
  <2>2. Len(cola'["new"]) = Len(cola["new"]) + 1 /\ Len(cola["new"]) \in Nat
    BY <1>2, <2>1, AlEncolar
  <2>3. pid_actual \in Nat /\ pid_actual' = pid_actual + 1
    BY <1>1, <1>3, <1>p, CorteTipo
  <2>4. QED
    BY <2>2, <2>3 DEF Corte
<1>18. \A p : Lanzado(p)' <=> Lanzado(p)
  BY <1>1, <1>7, <1>17 DEF Lanzado
<1>19. QED
  BY <1>13, <1>15, <1>16, <1>18 DEF PasoDelCiclo

LEMMA CorteAvanza ==
    ASSUME IInv, NewEnOrden, cola["new"] # <<>>, cola'["new"] = Tail(cola["new"]),
           pid_actual' = pid_actual
    PROVE  Corte' = Corte + 1
<1>1. /\ Len(cola["new"]) \in Nat /\ pid_actual \in Nat /\ cola["new"] \in Seq(Refs)
  BY CorteTipo
<1>2. Len(cola'["new"]) = Len(cola["new"]) - 1
  BY <1>1, AlDesencolar
<1> DEFINE a == pid_actual
           n == Len(cola["new"])
<1>3. a - (n - 1) = (a - n) + 1
  <2>1. a \in Nat /\ n \in Nat
    BY <1>1
  <2> HIDE DEF a, n
  <2>2. QED
    BY <2>1
<1>4. Corte' = pid_actual' - Len(cola'["new"]) /\ Corte = a - n
  BY DEF Corte
<1>5. QED
  BY <1>2, <1>3, <1>4

LEMMA SacarNewCiclo ==
    ASSUME ITotal, IPropiedad', SacarNew
    PROVE  PasoDelCiclo
<1>1. /\ IInv /\ TypeOK /\ NewEnOrden
      /\ LargoPlazo \in Hilos /\ "pedir" \in Lugares(LargoPlazo) /\ LargoPlazo # CortoPlazo
      /\ LargoPlazo \notin DePageFault /\ "new" \in Colas /\ LargoPlazo \in Sitios
      /\ CortoPlazo \in Hilos /\ EnLaCola("new") \in Sitios
      /\ pc[LargoPlazo] = "sacar_new" /\ "sacar_new" \notin EnHilo(LargoPlazo)
      /\ "pedir" \in EnHilo(LargoPlazo)
  BY DeITotal, HilosFijos, LugaresDe, EnHiloDe, SitiosDe DEF Colas, SacarNew, En
<1>2. CASE PopIndebido(cola["new"])
  BY <1>2, FallarCiclo DEF PopIndebido
<1>3. CASE ~PopIndebido(cola["new"])
  <2>1. PICK r0 : r0 = Head(cola["new"])
    OBVIOUS
  <2>2. /\ cola["new"] # <<>> /\ cola' = [cola EXCEPT !["new"] = Tail(@)]
        /\ ptr' = [ptr EXCEPT ![LargoPlazo] = r0] /\ Ir(LargoPlazo, "pedir")
        /\ UNCHANGED <<cola_dispositivo, vida, rafagas, pid_actual, cpu>>
    BY <1>3, <2>1 DEF SacarNew, PopPosible, dispositivos, procesos, entorno
  <2>3. /\ ptr'[LargoPlazo] = r0 /\ \A k \in Hilos : k # LargoPlazo => ptr'[k] = ptr[k]
        /\ cola'["new"] = Tail(cola["new"])
        /\ pc'[LargoPlazo] = "pedir" /\ \A k \in Hilos : k # LargoPlazo => pc'[k] = pc[k]
    BY <1>1, <2>2, IrTipo DEF TypeOK
  <2>4. ColasSobre(r0) /\ r0 \in Refs /\ EnCola(r0, cola["new"])
    BY <1>1, <2>1, <2>2, DesencolarSobre
  <2>5. Sobre(LargoPlazo, "pedir", r0)
    BY <1>1, <2>3 DEF Sobre
  <2>6. Ajenos(r0[1])
    BY <1>1, <2>2, <2>3, <2>4, <2>5, AjenosDe
  <2>7. Tiene(EnLaCola("new"), r0) /\ Tiene(LargoPlazo, r0)'
    BY <1>1, <2>3, <2>4, TieneDe, TieneDespues
  <2>8. /\ pc[CortoPlazo] = "recibir" => pc'[CortoPlazo] = "recibir" /\ cpu'.pid = cpu.pid
        /\ \A r \in Refs : pc'[PF(r)] = "muerto" => pc[PF(r)] = "muerto"
    BY <1>1, <2>2, <2>3, HilosPorIndice
  <2>9. /\ Difuntos' /\ EnCpuSolo' /\ OtrosEstados(r0[1]) /\ r0[1] \in Pids
        /\ EstadoAbstracto(r0[1]) = EstadoDeSitio(EnLaCola("new"))
        /\ EstadoAbstracto(r0[1])' = EstadoDeSitio(LargoPlazo)
    BY <1>1, <2>2, <2>4, <2>6, <2>7, <2>8, PasoDeTraspaso
  <2>10. Abstracto' = Abstracto
    BY <2>9, ValoresDeSitio, SinCambio
  <2>11. \A p \in Pids : Lanzado(p)' => Lanzado(p)
    <3>1. Corte' = Corte + 1 /\ Corte \in Nat
      BY <1>1, <2>2, <2>3, CorteAvanza, CorteTipo
    <3>2. ASSUME NEW p \in Pids, Lanzado(p)' PROVE Lanzado(p)
      <4>1. p \in 1..(Corte + 1) /\ p # Corte + 1
        BY <2>3, <3>1, <3>2 DEF Lanzado, EnAdmision
      <4>2. p \in 1..Corte
        BY <3>1, <4>1
      <4>3. QED
        BY <1>1, <4>2 DEF Lanzado, EnAdmision
    <3>3. QED
      BY <3>2
  <2>12. QED
    BY <2>9, <2>10, <2>11 DEF PasoDelCiclo
<1>4. QED
  BY <1>2, <1>3

\* The life cycle counts with the Cardinality of its own module.
LEMMA CardinalDeCiclo == \A S : Ciclo!Cardinality(S) = Cardinality(S)
BY DEF Ciclo!Cardinality, Cardinality

\* Who is active in the life cycle holds a unit of multiprogramacion.
LEMMA ActivosDe ==
    ASSUME ITotal, NEW p \in Pids, EstadoAbstracto(p) \in {"READY", "EXEC", "BLOCK", "EXIT"}
    PROVE  p \in Admitidos
<1>1. vida[p] \in {"viva", "en_cpu"}
  <2>1. vida[p] \in {"sin_crear", "viva", "en_cpu", "destruida"}
    BY DeITotal DEF TypeOK
  <2>2. vida[p] # "sin_crear" /\ vida[p] # "destruida"
    BY EstadoDe
  <2>3. QED
    BY <2>1, <2>2
<1>2. ASSUME EnCola(<<p, 0>>, cola["new"]) PROVE FALSE
  <2>1. PICK r0 : r0 = <<p, 0>>
    OBVIOUS
  <2>2. r0 \in Refs /\ r0[1] = p /\ "new" \in Colas
    BY <2>1, LimitesAssumption DEF Refs, Colas
  <2>3. Tiene(EnLaCola("new"), r0) /\ EnLaCola("new") \in Sitios
    BY <1>2, <2>1, <2>2, TieneDe, SitiosDe
  <2>4. Valido(r0)
    BY <2>2, <2>3, DeITotal DEF SoloValidos
  <2>5. r0 = Actual(p)
    BY <2>2, <2>4, ActualValido
  <2>6. EstadoAbstracto(p) = EstadoDeSitio(EnLaCola("new"))
    BY <2>2, <2>3, <2>5, DeITotal, EstadoEnSitio DEF EstadosConSitio
  <2>7. QED
    BY <2>6, ValoresDeSitio
<1>3. QED
  BY <1>1, <1>2 DEF Admitidos

LEMMA AdmitirCiclo ==
    ASSUME ITotal, IPropiedad', PushReady(LargoPlazo)
    PROVE  PasoDelCiclo
<1>1. /\ IInv /\ TypeOK /\ NewEnOrden /\ PunterosFijos /\ UnSoloSitio /\ NadieSePierde /\ CuentaGrado
      /\ LargoPlazo \in Hilos /\ LargoPlazo \in Pasadores /\ LargoPlazo # CortoPlazo
      /\ LargoPlazo \notin DePageFault /\ CortoPlazo \in Hilos /\ EnLaCola("new") \in Sitios
      /\ "new" \in Colas /\ EnLaCola("new") # LargoPlazo
  BY DeITotal, HilosFijos, SitiosDe DEF Colas, Pasadores, IAdmision
<1>2. PICK r0 \in Refs, q0 \in {"rr", "fifo"} :
              /\ r0 = ptr[LargoPlazo] /\ Valido(r0) /\ Tiene(LargoPlazo, r0) /\ LargoPlazo \in Sitios
              /\ EnLaCola(q0) \in Sitios /\ Tiene(EnLaCola(q0), r0)' /\ Ajenos(r0[1])
              /\ EstadoDeSitio(EnLaCola(q0)) = "READY"
              /\ UNCHANGED <<vida, rafagas, pid_actual, cpu>> /\ cola'["new"] = cola["new"]
              /\ pc[LargoPlazo] = "push_ready" /\ pc'[LargoPlazo] = "limpiar"
              /\ \A k \in Hilos : k # LargoPlazo => pc'[k] = pc[k]
  BY <1>1, PushReadySobre
<1>3. PICK p0 \in Pids : p0 = r0[1]
  BY <1>2 DEF Valido
<1>4. p0 = Corte /\ r0 = <<p0, 0>>
  BY <1>1, <1>2, <1>3 DEF PunterosFijos, EnAdmision
<1>5. /\ pc[CortoPlazo] = "recibir" => pc'[CortoPlazo] = "recibir" /\ cpu'.pid = cpu.pid
      /\ \A r \in Refs : pc'[PF(r)] = "muerto" => pc[PF(r)] = "muerto"
  BY <1>1, <1>2, HilosPorIndice
<1>6. /\ Difuntos' /\ EnCpuSolo' /\ OtrosEstados(p0)
      /\ EstadoAbstracto(p0) = EstadoDeSitio(LargoPlazo)
      /\ EstadoAbstracto(p0)' = EstadoDeSitio(EnLaCola(q0))
  BY <1>2, <1>3, <1>5, PasoDeTraspaso
<1>7. EstadoAbstracto(p0) = "NEW" /\ EstadoAbstracto(p0)' = "READY"
  BY <1>2, <1>6, ValoresDeSitio
<1>8. Ciclo!Cambiar(p0, "NEW", "READY")
  BY <1>6, <1>7, CambioDe
<1>9. ASSUME NEW q \in 1..(p0 - 1) PROVE Abstracto[q] # "NEW"
  <2>1. q \in Pids /\ q \in 1..Corte /\ q # Corte
    BY <1>4, <1>1, CorteTipo
  <2>2. Lanzado(q)
    BY <2>1 DEF Lanzado
  <2>3. QED
    BY <1>1, <2>1, <2>2 DEF NadieSePierde, Abstracto
<1>10. Cardinality(Ciclo!Activos) < Grado
  <2>1. p0 \in Admitidos
    <3>1. ~EnCola(r0, cola["new"])
      BY <1>1, <1>2, TieneDe DEF UnSoloSitio
    <3>2. QED
      BY <1>2, <1>3, <1>4, <3>1 DEF Valido, Admitidos
  <2>2. Ciclo!Activos \subseteq Admitidos \ {p0}
    <3>1. ASSUME NEW q \in Ciclo!Activos PROVE q \in Admitidos \ {p0}
      <4>1. q \in Pids /\ EstadoAbstracto(q) \in {"READY", "EXEC", "BLOCK", "EXIT"}
        BY <3>1 DEF Ciclo!Activos, Ciclo!Pids, Pids
      <4>2. q # p0
        BY <1>7, <4>1
      <4>3. QED
        BY <4>1, <4>2, ActivosDe
    <3>2. QED
      BY <3>1
  <2> DEFINE a == Cardinality(Admitidos)
             b == Cardinality(Admitidos \ {p0})
             c == Cardinality(Ciclo!Activos)
  <2>3. IsFiniteSet(Admitidos) /\ a \in Nat
    BY AdmitidosFinito
  <2>4. IsFiniteSet(Admitidos \ {p0}) /\ b = a - 1
    BY <2>1, <2>3, FS_RemoveElement
  <2>5. IsFiniteSet(Ciclo!Activos) /\ c <= b
    BY <2>2, <2>4, FS_Subset
  <2>6. c \in Nat
    BY <2>5, FS_CardinalityType
  <2>7. a <= Grado /\ Grado \in Nat
    BY <1>1, AdmitidosAcotados, GradoAssumption
  <2>8. c < Grado
    <3> HIDE DEF a, b, c
    <3>1. QED
      BY <2>3, <2>4, <2>5, <2>6, <2>7
  <2>9. QED
    BY <2>8
<1>11. Ciclo!Next
  <2>1. Ciclo!Admitir(p0)
    BY <1>8, <1>9, <1>10, CardinalDeCiclo DEF Ciclo!Admitir, Abstracto
  <2>2. p0 \in Ciclo!Pids
    BY DEF Ciclo!Pids, Pids
  <2>3. QED
    BY <2>1, <2>2 DEF Ciclo!Next
<1>12. \A p \in Pids : Lanzado(p)' /\ ~Lanzado(p) => p = p0
  BY <1>2, <1>4, CorteQuieto DEF MismoCorte, Lanzado
<1>13. QED
  BY <1>6, <1>7, <1>11, <1>12 DEF PasoDelCiclo

\* A thread that gives its PCB up: nobody has it any more, and its process stays where it is.
LEMMA AbandonarCiclo ==
    ASSUME ITotal, IPropiedad', NEW h \in {LargoPlazo} \cup DePageFault, NEW m,
           Recibir(h, "muerto", m), pc[h] = "resp"
    PROVE  PasoDelCiclo
<1>1. /\ TypeOK /\ UnSoloSitio /\ SoloValidos /\ ADirigir /\ PunterosFijos /\ Difuntos /\ EnCpuSolo
      /\ ICiclico
      /\ h \in Hilos /\ h \in Sitios /\ h # CortoPlazo /\ CortoPlazo \in Hilos /\ LargoPlazo \in Hilos
      /\ "muerto" \in Lugares(h) /\ "resp" \in EnHilo(h) /\ "muerto" \notin EnHilo(h)
  BY DeITotal, HilosFijos, HilosPorIndice, LugaresDe, EnHiloDe, SitiosDe DEF Hilos
<1>2. /\ Ir(h, "muerto") /\ UNCHANGED <<cola, cola_dispositivo, vida, rafagas, pid_actual, ptr, cpu>>
  BY DEF Recibir, dispositivos, procesos, entorno
<1>3. pc'[h] = "muerto" /\ \A k \in Hilos : k # h => pc'[k] = pc[k]
  BY <1>1, <1>2, IrTipo
<1>4. PICK r0 \in Refs : r0 = ptr[h] /\ Valido(r0) /\ Tiene(h, r0)
  <2>1. ptr[h] \in Refs \cup {NULO} /\ Tiene(h, ptr[h])
    BY <1>1, TieneDe DEF TypeOK
  <2>2. Valido(ptr[h])
    BY <1>1, <2>1 DEF SoloValidos
  <2>3. QED
    BY <1>1, <2>1, <2>2, ValidoRef
<1>5. h \in DePageFault => h = PF(r0)
  BY <1>1, <1>4 DEF DePageFault, PunterosFijos
<1>6. Sobre(h, "muerto", r0) /\ ColasSobre(r0)
  BY <1>1, <1>2, <1>4, <1>5, ColasIguales DEF Sobre
<1>7. Ajenos(r0[1]) /\ OtrasVidas(r0[1])
  BY <1>1, <1>2, <1>6, AjenosDe DEF OtrasVidas
<1>8. Valido(r0)' /\ \A s \in Sitios : ~Tiene(s, r0)'
  <2>1. \A s \in Sitios : s # h => ~Tiene(s, r0)
    BY <1>1, <1>4 DEF UnSoloSitio
  <2>2. \A q \in Colas : ~Tiene(EnLaCola(q), r0)'
    BY <1>1, <1>2, <2>1, TieneColas, SitiosDe
  <2>3. \A d \in Dispositivos : ~Tiene(EnDispositivo(d), r0)'
    BY <1>1, <1>2, <2>1, TieneColas, SitiosDe
  <2>4. \A k \in Hilos : ~Tiene(k, r0)'
    BY <1>1, <1>2, <2>1, TieneMueve, SitiosDe
  <2>5. QED
    BY <1>2, <1>4, <2>2, <2>3, <2>4, SitiosDe DEF Valido
<1>9. ~Muerto(r0)
  BY <1>1, <1>4 DEF Difuntos, Muerto
<1>10. ASSUME NEW r \in Refs, r[1] = r0[1], pc'[PF(r)] = "muerto" PROVE r = r0
  <2>1. CASE PF(r) = h
    BY <1>1, <1>4, <2>1 DEF PunterosFijos
  <2>2. CASE PF(r) # h
    <3>1. pc[PF(r)] = "muerto"
      BY <1>3, <1>10, <2>2, HilosPorIndice
    <3>2. QED
      BY <1>1, <1>4, <1>10, <3>1, ValidoUnico DEF Difuntos
  <2>3. QED
    BY <2>1, <2>2
<1>11. PICK p0 \in Pids : p0 = r0[1]
  BY <1>4 DEF Valido
<1>12. r0 = Actual(p0) /\ r0 = Actual(p0)' /\ vida[p0] = "viva" /\ vida'[p0] = "viva"
  BY <1>2, <1>4, <1>11, ActualValido DEF Valido
<1>13. EstadoAbstracto(p0) = EstadoDeSitio(h)
  BY <1>1, <1>4, <1>12, EstadoEnSitio DEF EstadosConSitio
<1>14. /\ Difuntos' /\ OtrosEstados(p0)
       /\ ~Muerto(r0)' /\ ~Dirigido(r0)' => EstadoAbstracto(p0)' = "NEW"
       /\ Muerto(r0)' => EstadoAbstracto(p0)' = "BLOCK"
  <2>1. \A r \in Refs : r[1] = p0 /\ pc'[PF(r)] = "muerto" =>
              Valido(r)' /\ \A s \in Sitios : ~Tiene(s, r)'
    BY <1>8, <1>10, <1>11
  <2>2. Ajenos(p0) /\ OtrasVidas(p0)
    BY <1>7, <1>11
  <2>3. /\ Difuntos' /\ OtrosEstados(p0)
        /\ \A r \in Refs : r = Actual(p0)' =>
                 /\ vida'[p0] = "viva" /\ (\A s \in Sitios : ~Tiene(s, r)')
                       /\ ~Muerto(r)' /\ ~Dirigido(r)' => EstadoAbstracto(p0)' = "NEW"
                 /\ vida'[p0] = "viva" /\ (\A s \in Sitios : ~Tiene(s, r)')
                       /\ Muerto(r)' => EstadoAbstracto(p0)' = "BLOCK"
    BY <2>1, <2>2, PasoSobre
  <2>4. QED
    BY <1>8, <1>12, <2>3
<1>15. EstadoAbstracto(p0)' = EstadoAbstracto(p0)
  <2>1. CASE h = LargoPlazo
    <3>1. EstadoAbstracto(p0) = "NEW"
      BY <1>13, <2>1, ValoresDeSitio
    <3>2. ~Muerto(r0)'
      BY <1>3, <1>9, <2>1, HilosFijos, HilosPorIndice DEF Muerto
    <3>3. ~Dirigido(r0)'
      <4>1. ~(pc[CortoPlazo] = "dirigir" /\ ptr[CortoPlazo] = r0)
        BY <1>1, <1>4, <2>1, ElDirigido, HilosFijos, HilosPorIndice
      <4>2. QED
        BY <1>1, <1>2, <1>3, <4>1 DEF Dirigido
    <3>4. QED
      BY <1>14, <3>1, <3>2, <3>3
  <2>2. CASE h \in DePageFault
    <3>1. h = PF(r0)
      BY <1>5, <2>2
    <3>2. EstadoAbstracto(p0) = "BLOCK"
      BY <1>13, <3>1, ValoresDeSitio
    <3>3. Muerto(r0)'
      BY <1>3, <3>1 DEF Muerto
    <3>4. QED
      BY <1>14, <3>2, <3>3
  <2>3. QED
    BY <2>1, <2>2
<1>16. Abstracto' = Abstracto
  BY <1>14, <1>15, SinCambio
<1>17. EnCpuSolo'
  BY <1>1, <1>2, <1>3, EnCpuQuieto
<1>18. \A p : Lanzado(p)' <=> Lanzado(p)
  <2>1. pc'[LargoPlazo] \in EnAdmision <=> pc[LargoPlazo] \in EnAdmision
    BY <1>1, <1>3 DEF EnAdmision
  <2>2. QED
    BY <1>2, <2>1, LanzadosIguales DEF MismoCorte
<1>19. QED
  BY <1>14, <1>16, <1>17, <1>18 DEF PasoDelCiclo

\* The reply a thread of admission or of a page fault reads.
LEMMA RecibirCiclo ==
    ASSUME ITotal, IPropiedad', NEW h \in {LargoPlazo} \cup DePageFault,
           NEW l \in {"resp_indices", "push_ready", "muerto"}, l \in Lugares(h), NEW m,
           Recibir(h, l, m), pc[h] \in {"resp", "resp_indices"}, l = "muerto" => pc[h] = "resp"
    PROVE  PasoDelCiclo
<1>1. CASE l = "muerto"
  BY <1>1, AbandonarCiclo
<1>2. CASE l # "muerto"
  <2>1. /\ h \in Hilos /\ h # CortoPlazo /\ pc[h] \in Lugares(h)
    BY DeITotal, HilosFijos DEF Hilos, TypeOK
  <2>2. /\ Ir(h, l) /\ UNCHANGED <<cola, cola_dispositivo, ptr, vida, rafagas, pid_actual, cpu>>
    BY DEF Recibir, dispositivos, procesos, entorno
  <2>3. pc[h] \in EnHilo(h) /\ l \in EnHilo(h)
    BY <1>2, <2>1, EnHiloDe, LugaresDe
  <2>4. h = LargoPlazo => pc[h] \in EnAdmision /\ l \in EnAdmision
    BY <1>2 DEF EnAdmision
  <2>5. QED
    BY <1>2, <2>1, <2>2, <2>3, <2>4, PasoDeHilo
<1>3. QED
  BY <1>1, <1>2

LEMMA PedirCiclo ==
    ASSUME ITotal, IPropiedad', NEW h \in {LargoPlazo} \cup DePageFault, NEW cod, Pedir(h, cod)
    PROVE  PasoDelCiclo
<1>1. /\ h \in Hilos /\ h # CortoPlazo /\ "resp" \in Lugares(h)
      /\ "pedir" \in EnHilo(h) /\ "resp" \in EnHilo(h)
  BY HilosFijos, LugaresDe, EnHiloDe DEF Hilos
<1>2. /\ Ir(h, "resp") /\ UNCHANGED <<cola, cola_dispositivo, ptr, vida, rafagas, pid_actual, cpu>>
      /\ pc[h] = "pedir"
  BY DEF Pedir, En, dispositivos, procesos, entorno
<1>3. QED
  BY <1>1, <1>2, PasoDeHilo DEF EnAdmision

LEMMA NewAReadyCiclo ==
    ASSUME ITotal, IPropiedad', NewAReady
    PROVE  PasoDelCiclo
<1>1. /\ LargoPlazo \in Hilos /\ LargoPlazo \in Pasadores /\ LargoPlazo # CortoPlazo
      /\ {"espera_grado", "sacar_new", "resp_indices", "push_ready", "muerto"} \subseteq Lugares(LargoPlazo)
      /\ {"espera_new", "espera_grado", "sacar_new"} \cap EnHilo(LargoPlazo) = {}
      /\ {"espera_new", "espera_grado", "sacar_new"} \cap EnAdmision = {}
  BY HilosFijos, LugaresDe, EnHiloDe DEF Pasadores, EnAdmision
<1>2. CASE EsperarNew
  BY <1>1, <1>2, PasoDeSemaforo DEF EsperarNew
<1>3. CASE EsperarGrado
  BY <1>1, <1>3, PasoDeSemaforo DEF EsperarGrado
<1>4. CASE SacarNew
  BY <1>4, SacarNewCiclo
<1>5. CASE Pedir(LargoPlazo, "ESTRUCTURAS")
  BY <1>5, PedirCiclo
<1>6. CASE RecibirEstructuras
  <2>1. pc[LargoPlazo] = "resp"
    BY <1>6 DEF RecibirEstructuras, En
  <2>2. CASE Recibir(LargoPlazo, "resp_indices", conexion_memoria_mutex)
    BY <1>1, <2>1, <2>2, RecibirCiclo
  <2>3. CASE Recibir(LargoPlazo, "muerto", "libre")
    BY <1>1, <2>1, <2>3, RecibirCiclo
  <2>4. CASE TramaCortada
    BY <2>4, FallarCiclo DEF TramaCortada
  <2>5. QED
    BY <1>6, <2>2, <2>3, <2>4 DEF RecibirEstructuras
<1>7. CASE RecibirIndices
  <2>1. pc[LargoPlazo] = "resp_indices"
    BY <1>7 DEF RecibirIndices, En
  <2>2. CASE Recibir(LargoPlazo, "push_ready", "libre")
    BY <1>1, <2>1, <2>2, RecibirCiclo
  <2>3. CASE Fallar("trama_cortada")
    BY <2>3, FallarCiclo
  <2>4. QED
    BY <1>7, <2>2, <2>3 DEF RecibirIndices
<1>8. CASE PasarAReady(LargoPlazo)
  <2>1. CASE PushReady(LargoPlazo)
    BY <2>1, AdmitirCiclo
  <2>2. CASE ~PushReady(LargoPlazo)
    BY <1>1, <1>8, <2>2, PasarAReadyCiclo
  <2>3. QED
    BY <2>1, <2>2
<1>9. QED
  BY <1>2, <1>3, <1>4, <1>5, <1>6, <1>7, <1>8 DEF NewAReady

-----------------------------------------------------------------------------
(* Destruction. *)

LEMMA SacarExitCiclo ==
    ASSUME ITotal, IPropiedad', SacarExit
    PROVE  PasoDelCiclo
<1>1. /\ TypeOK /\ UnSoloSitio /\ SoloValidos /\ Difuntos /\ EnCpuSolo /\ ICiclico
      /\ Rajar \in Hilos /\ "post_grado" \in Lugares(Rajar) /\ Rajar # CortoPlazo /\ Rajar # LargoPlazo
      /\ Rajar \notin DePageFault /\ "exit" \in Colas /\ "new" \in Colas /\ EnHilo(Rajar) = {}
      /\ CortoPlazo \in Hilos /\ LargoPlazo \in Hilos /\ EnLaCola("exit") \in Sitios
  BY DeITotal, HilosFijos, LugaresDe, EnHiloDe, SitiosDe DEF Colas
<1>2. CASE PopIndebido(cola["exit"])
  BY <1>2, FallarCiclo DEF PopIndebido
<1>3. CASE ~PopIndebido(cola["exit"])
  <2>1. PICK r0 : r0 = Head(cola["exit"])
    OBVIOUS
  <2>2. /\ cola["exit"] # <<>> /\ cola' = [cola EXCEPT !["exit"] = Tail(@)] /\ Valido(r0)
        /\ vida' = [vida EXCEPT ![r0[1]] = "destruida"] /\ Ir(Rajar, "post_grado")
        /\ UNCHANGED <<cola_dispositivo, ptr, rafagas, pid_actual, cpu>>
    BY <1>3, <2>1 DEF SacarExit, PopPosible, dispositivos, entorno
  <2>3. pc'[Rajar] = "post_grado" /\ \A k \in Hilos : k # Rajar => pc'[k] = pc[k]
    BY <1>1, <2>2, IrTipo
  <2>4. /\ ColasSobre(r0) /\ r0 \in Refs /\ EnCola(r0, cola["exit"]) /\ cola'["new"] = cola["new"]
    BY <1>1, <2>1, <2>2, DesencolarSobre
  <2>5. PICK p0 \in Pids : p0 = r0[1]
    BY <2>2 DEF Valido
  <2>6. /\ vida'[p0] = "destruida" /\ \A q \in Pids : q # p0 => vida'[q] = vida[q]
        /\ vida[p0] = "viva"
    BY <1>1, <2>2, <2>5 DEF TypeOK, Valido
  <2>7. Sobre(Rajar, "post_grado", r0)
    BY <1>1, <2>2 DEF Sobre
  <2>8. Ajenos(p0) /\ OtrasVidas(p0)
    BY <1>1, <2>2, <2>4, <2>5, <2>6, <2>7, AjenosDe DEF OtrasVidas
  <2>9. Tiene(EnLaCola("exit"), r0)
    BY <1>1, <2>4, TieneDe
  <2>10. \A r \in Refs : r[1] = p0 => pc'[PF(r)] # "muerto"
    <3>1. SUFFICES ASSUME NEW r \in Refs, r[1] = p0, pc[PF(r)] = "muerto" PROVE FALSE
      BY <1>1, <2>3, HilosPorIndice
    <3>2. Valido(r) /\ \A s \in Sitios : ~Tiene(s, r)
      BY <1>1, <3>1 DEF Difuntos
    <3>3. r = r0
      BY <2>2, <2>4, <2>5, <3>1, <3>2, ValidoUnico
    <3>4. QED
      BY <1>1, <2>9, <3>2, <3>3
  <2>11. \A s \in Sitios : ~Tiene(s, r0)'
    BY <2>4, <2>5, <2>6, PunterosFijosTras DEF IDuenio, SoloValidos, Valido
  <2>12. r0 = Actual(p0) /\ r0 = Actual(p0)'
    BY <2>2, <2>4, <2>5, ActualValido
  <2>13. EstadoAbstracto(p0) = "EXIT"
    BY <1>1, <2>4, <2>9, <2>12, EstadoEnSitio, ValoresDeSitio DEF EstadosConSitio
  <2>14. Difuntos' /\ OtrosEstados(p0) /\ EstadoAbstracto(p0)' = "FIN"
    BY <2>4, <2>6, <2>8, <2>10, <2>11, <2>12, PasoSobre
  <2>15. Ciclo!Next \/ Abstracto' = Abstracto
    BY <2>13, <2>14, CambioLibre DEF Libres
  <2>16. EnCpuSolo'
    BY <1>1, <2>2, <2>3, <2>6 DEF EnCpuSolo
  <2>17. \A p : Lanzado(p)' <=> Lanzado(p)
    BY <1>1, <2>2, <2>3, <2>4, LanzadosIguales DEF MismoCorte
  <2>18. QED
    BY <2>14, <2>15, <2>16, <2>17 DEF PasoDelCiclo
<1>4. QED
  BY <1>2, <1>3

LEMMA RajarPcbCiclo ==
    ASSUME ITotal, IPropiedad', RajarPcb
    PROVE  PasoDelCiclo
<1>1. /\ Rajar \in Hilos /\ Rajar # LargoPlazo /\ EnHilo(Rajar) = {}
      /\ {"sacar_exit", "espera_finalizados"} \subseteq Lugares(Rajar)
  BY HilosFijos, LugaresDe, EnHiloDe
<1>2. CASE EsperarFinalizados
  BY <1>1, <1>2, PasoDeSemaforo DEF EsperarFinalizados
<1>3. CASE AvisarGrado
  BY <1>1, <1>3, PasoDeSemaforo DEF AvisarGrado
<1>4. QED
  BY <1>2, <1>3, SacarExitCiclo DEF RajarPcb

-----------------------------------------------------------------------------
(* The dispatcher. *)

LEMMA NadieEjecuta ==
    ASSUME ITotal, pc[CortoPlazo] \notin {"enviar", "destruir", "recibir", "dirigir", "push_ready"}
    PROVE  \A q \in Pids : EstadoAbstracto(q) # "EXEC"
<1> SUFFICES ASSUME NEW q \in Pids, EstadoAbstracto(q) = "EXEC" PROVE FALSE
  OBVIOUS
<1>1. vida[q] \notin {"sin_crear", "destruida"} /\ Ejecutando(Actual(q))
  BY EstadoDe
<1>2. vida[q] # "en_cpu"
  BY DeITotal DEF EnCpuSolo
<1>3. Actual(q)[1] = q
  BY ActualDe, DeITotal
<1>4. QED
  BY <1>1, <1>2, <1>3 DEF Ejecutando

LEMMA SacarReadyCiclo ==
    ASSUME ITotal, IPropiedad', NEW lugar \in {"sacar_rr", "sacar_fifo"}, NEW q0 \in {"rr", "fifo"},
           SacarReady(lugar, q0)
    PROVE  PasoDelCiclo
<1>1. /\ TypeOK /\ q0 \in Colas /\ "new" \in Colas /\ q0 # "new"
      /\ CortoPlazo \in Hilos /\ "enviar" \in Lugares(CortoPlazo) /\ CortoPlazo \in Sitios
      /\ CortoPlazo # LargoPlazo /\ CortoPlazo \notin DePageFault /\ LargoPlazo \in Hilos
      /\ pc[CortoPlazo] = lugar /\ "enviar" \in EnHilo(CortoPlazo) /\ lugar \notin EnHilo(CortoPlazo)
      /\ EnLaCola(q0) \in Sitios
  BY DeITotal, HilosFijos, LugaresDe, EnHiloDe, SitiosDe DEF Colas, SacarReady, En
<1>2. CASE PopIndebido(cola[q0])
  BY <1>2, FallarCiclo DEF PopIndebido
<1>3. CASE ~PopIndebido(cola[q0])
  <2>1. PICK r0 : r0 = Head(cola[q0])
    OBVIOUS
  <2>2. /\ cola[q0] # <<>> /\ cola' = [cola EXCEPT ![q0] = Tail(@)]
        /\ ptr' = [ptr EXCEPT ![CortoPlazo] = r0] /\ Ir(CortoPlazo, "enviar")
        /\ UNCHANGED <<cola_dispositivo, vida, rafagas, pid_actual, cpu>>
    BY <1>3, <2>1 DEF SacarReady, PopPosible, dispositivos, entorno
  <2>3. /\ ptr'[CortoPlazo] = r0 /\ \A k \in Hilos : k # CortoPlazo => ptr'[k] = ptr[k]
        /\ pc'[CortoPlazo] = "enviar" /\ \A k \in Hilos : k # CortoPlazo => pc'[k] = pc[k]
    BY <1>1, <2>2, IrTipo DEF TypeOK
  <2>4. ColasSobre(r0) /\ r0 \in Refs /\ EnCola(r0, cola[q0]) /\ cola'["new"] = cola["new"]
    BY <1>1, <2>1, <2>2, DesencolarSobre
  <2>5. Sobre(CortoPlazo, "enviar", r0)
    BY <1>1, <2>3 DEF Sobre
  <2>6. Ajenos(r0[1])
    BY <1>1, <2>2, <2>3, <2>4, <2>5, AjenosDe
  <2>7. Tiene(EnLaCola(q0), r0) /\ Tiene(CortoPlazo, r0)'
    BY <1>1, <2>3, <2>4, TieneDe, TieneDespues
  <2>8. /\ pc[CortoPlazo] = "recibir" => pc'[CortoPlazo] = "recibir" /\ cpu'.pid = cpu.pid
        /\ \A r \in Refs : pc'[PF(r)] = "muerto" => pc[PF(r)] = "muerto"
    BY <1>1, <2>2, <2>3, HilosPorIndice
  <2>9. /\ Difuntos' /\ EnCpuSolo' /\ OtrosEstados(r0[1]) /\ r0[1] \in Pids
        /\ EstadoAbstracto(r0[1]) = EstadoDeSitio(EnLaCola(q0))
        /\ EstadoAbstracto(r0[1])' = EstadoDeSitio(CortoPlazo)
    BY <1>1, <2>2, <2>4, <2>6, <2>7, <2>8, PasoDeTraspaso
  <2>10. Ciclo!Next
    <3>1. PICK p0 \in Pids : p0 = r0[1]
      BY <2>9
    <3>2. Ciclo!Cambiar(p0, "READY", "EXEC")
      BY <2>9, <3>1, ValoresDeSitio, CambioDe
    <3>3. \A q \in Pids : Abstracto[q] # "EXEC"
      BY <1>1, NadieEjecuta DEF Abstracto
    <3>4. Ciclo!Elegir(p0) /\ p0 \in Ciclo!Pids
      BY <3>2, <3>3 DEF Ciclo!Elegir, Ciclo!Pids, Pids, Abstracto
    <3>5. QED
      BY <3>4 DEF Ciclo!Next
  <2>11. \A p : Lanzado(p)' <=> Lanzado(p)
    BY <1>1, <2>2, <2>3, <2>4, LanzadosIguales DEF MismoCorte
  <2>12. QED
    BY <2>9, <2>10, <2>11 DEF PasoDelCiclo
<1>4. QED
  BY <1>2, <1>3

LEMMA DestruirPcbCiclo ==
    ASSUME ITotal, IPropiedad', DestruirPcb
    PROVE  PasoDelCiclo
<1>1. /\ TypeOK /\ UnSoloSitio /\ SoloValidos /\ Difuntos /\ EnCpuSolo /\ ICiclico /\ PcbEnCpu
      /\ CortoPlazo \in Hilos /\ "recibir" \in Lugares(CortoPlazo) /\ CortoPlazo \in Sitios
      /\ pc[CortoPlazo] = "destruir" /\ "recibir" \notin EnHilo(CortoPlazo)
      /\ "destruir" \in EnHilo(CortoPlazo)
      /\ CortoPlazo \notin DePageFault /\ CortoPlazo # LargoPlazo /\ LargoPlazo \in Hilos
  BY DeITotal, HilosFijos, LugaresDe, EnHiloDe, SitiosDe DEF DestruirPcb, En
<1>2. CASE UsoTrasLiberar(CortoPlazo)
  BY <1>2, FallarCiclo DEF UsoTrasLiberar
<1>3. CASE ~UsoTrasLiberar(CortoPlazo)
  <2>1. PICK r0 : r0 = ptr[CortoPlazo]
    OBVIOUS
  <2>2. /\ Valido(r0) /\ vida' = [vida EXCEPT ![r0[1]] = "en_cpu"] /\ Ir(CortoPlazo, "recibir")
        /\ UNCHANGED <<cola, cola_dispositivo, ptr, rafagas, pid_actual, cpu>>
    BY <1>3, <2>1 DEF DestruirPcb, dispositivos, entorno
  <2>3. pc'[CortoPlazo] = "recibir" /\ \A k \in Hilos : k # CortoPlazo => pc'[k] = pc[k]
    BY <1>1, <2>2, IrTipo
  <2>4. r0 \in Refs /\ Tiene(CortoPlazo, r0) /\ ColasSobre(r0)
    BY <1>1, <2>1, <2>2, ValidoRef, TieneDe, ColasIguales
  <2>5. PICK p0 \in Pids : p0 = r0[1]
    BY <2>2 DEF Valido
  <2>6. /\ vida'[p0] = "en_cpu" /\ \A q \in Pids : q # p0 => vida'[q] = vida[q]
        /\ vida[p0] = "viva" /\ cpu.pid = p0
    BY <1>1, <2>1, <2>2, <2>5 DEF TypeOK, Valido, PcbEnCpu
  <2>7. Sobre(CortoPlazo, "recibir", r0)
    BY <1>1, <2>1, <2>2 DEF Sobre
  <2>8. Ajenos(p0) /\ OtrasVidas(p0)
    BY <1>1, <2>2, <2>4, <2>5, <2>6, <2>7, AjenosDe DEF OtrasVidas
  <2>10. \A r \in Refs : r[1] = p0 => pc'[PF(r)] # "muerto"
    <3>1. SUFFICES ASSUME NEW r \in Refs, r[1] = p0, pc[PF(r)] = "muerto" PROVE FALSE
      BY <1>1, <2>3, HilosPorIndice
    <3>2. Valido(r) /\ \A s \in Sitios : ~Tiene(s, r)
      BY <1>1, <3>1 DEF Difuntos
    <3>3. r = r0
      BY <2>2, <2>4, <2>5, <3>1, <3>2, ValidoUnico
    <3>4. QED
      BY <1>1, <2>4, <3>2, <3>3
  <2>11. \A s \in Sitios : ~Tiene(s, r0)'
    BY <2>4, <2>5, <2>6, PunterosFijosTras DEF IDuenio, SoloValidos, Valido
  <2>12. r0 = Actual(p0) /\ r0 = Actual(p0)'
    BY <2>2, <2>4, <2>5, ActualValido
  <2>13. EstadoAbstracto(p0) = "EXEC"
    BY <1>1, <2>4, <2>12, EstadoEnSitio, ValoresDeSitio DEF EstadosConSitio
  <2>14. Difuntos' /\ OtrosEstados(p0) /\ EstadoAbstracto(p0)' = "EXEC"
    BY <2>4, <2>6, <2>8, <2>10, <2>11, <2>12, PasoSobre
  <2>15. Abstracto' = Abstracto
    BY <2>13, <2>14, SinCambio
  <2>16. EnCpuSolo'
    BY <1>1, <2>2, <2>3, <2>6 DEF EnCpuSolo
  <2>17. \A p : Lanzado(p)' <=> Lanzado(p)
    BY <1>1, <2>2, <2>3, LanzadosIguales DEF MismoCorte
  <2>18. QED
    BY <2>14, <2>15, <2>16, <2>17 DEF PasoDelCiclo
<1>4. QED
  BY <1>2, <1>3

\* The process comes back: the dispatcher directs its new PCB, or the thread of its page
\* fault has it.
LEMMA RecibirPcbCiclo ==
    ASSUME ITotal, IPropiedad', RecibirPcb
    PROVE  PasoDelCiclo
<1>1. /\ IInv /\ TypeOK /\ SoloValidos /\ Difuntos /\ EnCpuSolo /\ ICiclico /\ PcbEnCpu /\ PunterosFijos
      /\ CortoPlazo \in Hilos /\ CortoPlazo \notin DePageFault /\ CortoPlazo # LargoPlazo
      /\ LargoPlazo \in Hilos /\ LargoPlazo \notin DePageFault /\ PunterosFijos' /\ IDuenio' /\ TypeOK'
      /\ pid_actual' = pid_actual
  BY DeITotal, PunterosFijosTras, HilosFijos DEF RecibirPcb
<1>2. PICK p0 \in Pids, r0 \in Refs :
              /\ p0 = cpu.pid /\ r0 = <<p0, rafagas[p0] + 1>> /\ r0[1] = p0 /\ r0[2] = rafagas[p0] + 1
              /\ cpu.fase = "lista" /\ falla = "ninguna"
              /\ pc[CortoPlazo] = "recibir" /\ pc[PF(r0)] = "no_creado" /\ pc[IO(r0)] = "no_creado"
              /\ pc'[CortoPlazo] = "dirigir"
              /\ pc'[PF(r0)] = IF cpu.pcb.page_fault THEN "espera" ELSE "no_creado"
              /\ \A h \in Hilos : h # CortoPlazo /\ h # PF(r0) => pc'[h] = pc[h]
              /\ ptr'[CortoPlazo] = r0 /\ \A h \in Hilos : h # CortoPlazo => ptr'[h] = ptr[h]
              /\ vida'[p0] = "viva" /\ \A q \in Pids : q # p0 => vida'[q] = vida[q]
              /\ rafagas'[p0] = r0[2] /\ \A q \in Pids : q # p0 => rafagas'[q] = rafagas[q]
              /\ cpu'.fase = "libre" /\ cpu'.pid = p0
              /\ \A q \in Pids : q # p0 => pcb'[q] = pcb[q]
              /\ pcb'[p0].page_fault = cpu.pcb.page_fault
              /\ pcb'[p0].segmentation_fault = cpu.pcb.segmentation_fault
              /\ pcb'[p0].ultima = cpu.pcb.ultima
              /\ UNCHANGED <<cola, dispositivos, memoria, falla>>
  BY <1>1, RecibirPcbDe
<1>3. vida[p0] = "en_cpu" /\ UNCHANGED <<cola, cola_dispositivo>>
  BY <1>1, <1>2 DEF PcbEnCpu, dispositivos
<1>4. PF(r0) \in Hilos /\ PF(r0) \in DePageFault /\ PF(r0) \in Sitios /\ PF(r0) # CortoPlazo
  BY <1>1, HilosPorIndice, SitiosDe
<1>5. EstadoAbstracto(p0) = "EXEC"
  <2>1. PICK t \in Refs : t = Actual(p0) /\ t[1] = p0
    BY <1>1, ActualDe
  <2>2. \A s \in Sitios : ~Tiene(s, t)
    BY <1>1, <1>3, <2>1 DEF SoloValidos, Valido
  <2>3. QED
    BY <1>1, <1>3, <2>1, <2>2, EstadoSuelto DEF EstadosSinSitio
<1>6. ASSUME NEW r \in Refs, r[1] # p0 PROVE Igual(r)
  <2>1. ptr[PF(r0)] = r0 /\ r # r0
    BY <1>1, <1>2, <1>6 DEF PunterosFijos
  <2>2. \A k \in Hilos : Tiene(k, r)' <=> Tiene(k, r)
    <3>1. SUFFICES ASSUME NEW k \in Hilos
                   PROVE  ptr'[k] = r /\ pc'[k] \in EnHilo(k) <=> ptr[k] = r /\ pc[k] \in EnHilo(k)
      BY TieneDe, TieneDespues
    <3>2. CASE k = CortoPlazo
      BY <1>2, <3>2, EnHiloDe
    <3>3. CASE k = PF(r0)
      BY <1>2, <1>4, <2>1, <3>3
    <3>4. CASE k # CortoPlazo /\ k # PF(r0)
      BY <1>2, <3>4
    <3>5. QED
      BY <3>2, <3>3, <3>4
  <2>3. \A s \in Sitios : Tiene(s, r)' <=> Tiene(s, r)
    BY <1>3, <2>2, TieneColas, SitiosDe
  <2>4. Muerto(r)' <=> Muerto(r)
    BY <1>1, <1>2, <2>1, HilosPorIndice, PFInyectiva DEF Muerto
  <2>5. Dirigido(r)' <=> Dirigido(r)
    BY <1>2, <2>1 DEF Dirigido
  <2>6. QED
    BY <2>3, <2>4, <2>5 DEF Igual
<1>7. Ajenos(p0) /\ OtrasVidas(p0)
  BY <1>2, <1>6 DEF Ajenos, OtrasVidas
<1>8. \A r \in Refs : r[1] = p0 => pc'[PF(r)] # "muerto"
  <2>1. SUFFICES ASSUME NEW r \in Refs, r[1] = p0, pc'[PF(r)] = "muerto" PROVE FALSE
    OBVIOUS
  <2>2. PF(r) # PF(r0) /\ PF(r) # CortoPlazo /\ PF(r) \in Hilos
    BY <1>1, <1>2, <2>1, HilosPorIndice
  <2>3. pc[PF(r)] = "muerto"
    BY <1>2, <2>1, <2>2
  <2>4. QED
    BY <1>1, <1>3, <2>1, <2>3 DEF Difuntos, Valido
<1>9. r0 = Actual(p0)'
  BY <1>2 DEF Actual
<1>10. /\ Difuntos' /\ OtrosEstados(p0)
       /\ \A s \in Sitios : Tiene(s, r0)' => EstadoAbstracto(p0)' = EstadoDeSitio(s)
       /\ (\A s \in Sitios : ~Tiene(s, r0)') /\ ~Muerto(r0)' /\ Dirigido(r0)'
             => EstadoAbstracto(p0)' = "EXEC"
  BY <1>2, <1>7, <1>8, <1>9, PasoSobre
<1>11. EstadoAbstracto(p0)' \in {"EXEC", "BLOCK"}
  <2>1. CASE cpu.pcb.page_fault
    <3>1. Tiene(PF(r0), r0)'
      BY <1>1, <1>2, <1>4, <2>1, TieneDespues, EnHiloDe DEF PunterosFijos
    <3>2. QED
      BY <1>4, <1>10, <3>1, ValoresDeSitio
  <2>2. CASE ~cpu.pcb.page_fault
    <3>1. \A s \in Sitios : ~Tiene(s, r0)'
      BY <1>1, <1>2, <2>2 DEF IDuenio, ADirigir
    <3>2. ~Muerto(r0)' /\ Dirigido(r0)'
      BY <1>2, <2>2 DEF Muerto, Dirigido
    <3>3. QED
      BY <1>10, <3>1, <3>2
  <2>3. QED
    BY <2>1, <2>2
<1>12. Ciclo!Next \/ Abstracto' = Abstracto
  BY <1>5, <1>10, <1>11, CambioLibre DEF Libres
<1>13. EnCpuSolo'
  BY <1>1, <1>2 DEF EnCpuSolo
<1>14. \A p : Lanzado(p)' <=> Lanzado(p)
  BY <1>1, <1>2, <1>3, <1>4, LanzadosIguales DEF MismoCorte
<1>15. QED
  BY <1>10, <1>12, <1>13, <1>14 DEF PasoDelCiclo

\* The dispatcher leaves to place s1 the PCB it directs.
LEMMA DirigidoCiclo ==
    ASSUME ITotal, IPropiedad', pc[CortoPlazo] = "dirigir", NEW r0 \in Refs, r0 = ptr[CortoPlazo],
           ~pcb[r0[1]].page_fault, NEW s1 \in Sitios, Tiene(s1, r0)', Ajenos(r0[1]),
           UNCHANGED <<vida, rafagas>>, EstadoDeSitio(s1) \in {"EXEC", "EXIT", "BLOCK"},
           \A k \in Hilos : pc'[k] = pc[k] \/ pc'[k] # "muerto",
           MismoCorte, pc'[LargoPlazo] = pc[LargoPlazo]
    PROVE  PasoDelCiclo
<1>1. /\ TypeOK /\ ADirigir /\ Difuntos /\ EnCpuSolo /\ ICiclico
      /\ \A r \in Refs : PF(r) \in Hilos
  BY DeITotal, HilosPorIndice
<1>2. Valido(r0) /\ pc[PF(r0)] = "no_creado" /\ \A s \in Sitios : ~Tiene(s, r0)
  BY <1>1 DEF ADirigir
<1>3. PICK p0 \in Pids : p0 = r0[1]
  BY <1>2 DEF Valido
<1>4. r0 = Actual(p0) /\ r0 = Actual(p0)' /\ vida[p0] = "viva"
  BY <1>2, <1>3, ActualValido DEF Valido
<1>5. EstadoAbstracto(p0) = "EXEC"
  <2>1. ~Muerto(r0) /\ Dirigido(r0)
    BY <1>2 DEF Muerto, Dirigido
  <2>2. QED
    BY <1>1, <1>2, <1>4, <2>1, EstadoSuelto DEF EstadosSinSitio
<1>6. \A r \in Refs : r[1] = p0 => pc'[PF(r)] # "muerto"
  <2>1. SUFFICES ASSUME NEW r \in Refs, r[1] = p0, pc'[PF(r)] = "muerto" PROVE FALSE
    OBVIOUS
  <2>2. pc[PF(r)] = "muerto"
    BY <1>1, <2>1
  <2>3. Valido(r)
    BY <1>1, <2>1, <2>2 DEF Difuntos
  <2>4. r = r0
    BY <1>2, <1>3, <2>1, <2>3, ValidoUnico
  <2>5. QED
    BY <1>2, <2>2, <2>4
<1>7. Ajenos(p0) /\ OtrasVidas(p0)
  BY <1>3 DEF OtrasVidas
<1>8. Difuntos' /\ OtrosEstados(p0) /\ EstadoAbstracto(p0)' = EstadoDeSitio(s1)
  BY <1>4, <1>6, <1>7, PasoSobre
<1>9. Ciclo!Next \/ Abstracto' = Abstracto
  BY <1>5, <1>8, CambioLibre DEF Libres
<1>10. EnCpuSolo'
  BY <1>1, EnCpuQuieto
<1>11. \A p : Lanzado(p)' <=> Lanzado(p)
  BY LanzadosIguales
<1>12. QED
  BY <1>8, <1>9, <1>10, <1>11 DEF PasoDelCiclo

LEMMA EncolarDispositivoSobre ==
    ASSUME TypeOK, NEW d0 \in Dispositivos, NEW r0 \in Refs, cola' = cola,
           cola_dispositivo' = [cola_dispositivo EXCEPT ![d0] = Append(@, r0)]
    PROVE  ColasSobre(r0) /\ EnCola(r0, cola_dispositivo'[d0])
<1>1. /\ cola_dispositivo[d0] \in Seq(Refs) /\ cola_dispositivo'[d0] = Append(cola_dispositivo[d0], r0)
      /\ \A d \in Dispositivos : d # d0 => cola_dispositivo'[d] = cola_dispositivo[d]
  BY DEF TypeOK
<1>2. \A r : EnCola(r, cola_dispositivo'[d0]) <=> EnCola(r, cola_dispositivo[d0]) \/ r = r0
  BY <1>1, EnColaAppend
<1>3. QED
  BY <1>1, <1>2 DEF ColasSobre

LEMMA SolicitarIOCiclo ==
    ASSUME ITotal, IPropiedad', pc[CortoPlazo] = "dirigir",
           NEW r0 \in Refs, r0 = ptr[CortoPlazo], ~pcb[r0[1]].page_fault,
           SolicitarIO(r0)
    PROVE  PasoDelCiclo
<1>1. /\ TypeOK /\ PunterosFijos /\ PunterosFijos' /\ TypeOK'
      /\ CortoPlazo \in Hilos /\ "espera_ready" \in Lugares(CortoPlazo) /\ CortoPlazo # LargoPlazo
      /\ {"espera_ready", "dirigir"} \cap EnHilo(CortoPlazo) = {} /\ LargoPlazo \in Hilos
      /\ IO(r0) \in Hilos /\ IO(r0) \in DeConsola /\ IO(r0) # CortoPlazo /\ IO(r0) # LargoPlazo
      /\ CortoPlazo \notin DePageFault /\ IO(r0) \in Sitios /\ "solicitud" \in EnHilo(IO(r0))
  BY DeITotal, PunterosFijosTras, HilosFijos, HilosPorIndice, LugaresDe, EnHiloDe, SitiosDe
<1>2. UNCHANGED <<cola, vida, rafagas, ptr, cpu>> /\ MismoCorte
  BY DEF SolicitarIO, memoria, entorno, MismoCorte
<1>3. CASE /\ pc' = [pc EXCEPT ![CortoPlazo] = "espera_ready", ![IO(r0)] = "solicitud"]
           /\ UNCHANGED dispositivos
  <2>1. /\ pc'[CortoPlazo] = "espera_ready" /\ pc'[IO(r0)] = "solicitud"
        /\ \A k \in Hilos : k # CortoPlazo /\ k # IO(r0) => pc'[k] = pc[k]
        /\ cola_dispositivo' = cola_dispositivo
    BY <1>1, <1>3 DEF TypeOK, dispositivos
  <2>2. ptr[IO(r0)] = r0
    BY <1>1 DEF PunterosFijos
  <2>3. ASSUME NEW r \in Refs, r # r0 PROVE Igual(r)
    <3>1. \A k \in Hilos : Tiene(k, r)' <=> Tiene(k, r)
      <4>1. SUFFICES ASSUME NEW k \in Hilos
                     PROVE  ptr'[k] = r /\ pc'[k] \in EnHilo(k) <=> ptr[k] = r /\ pc[k] \in EnHilo(k)
        BY TieneDe, TieneDespues
      <4>2. CASE k = CortoPlazo
        BY <1>1, <2>1, <4>2
      <4>3. CASE k = IO(r0)
        BY <1>2, <2>2, <2>3, <4>3
      <4>4. CASE k # CortoPlazo /\ k # IO(r0)
        BY <1>2, <2>1, <4>4
      <4>5. QED
        BY <4>2, <4>3, <4>4
    <3>2. \A s \in Sitios : Tiene(s, r)' <=> Tiene(s, r)
      BY <1>2, <2>1, <3>1, TieneColas, SitiosDe
    <3>3. Muerto(r)' <=> Muerto(r)
      BY <1>1, <2>1, HilosPorIndice, HilosFijos DEF Muerto
    <3>4. Dirigido(r)' <=> Dirigido(r)
      BY <1>2, <2>1, <2>3 DEF Dirigido
    <3>5. QED
      BY <3>2, <3>3, <3>4 DEF Igual
  <2>4. Ajenos(r0[1])
    BY <2>3 DEF Ajenos
  <2>5. Tiene(IO(r0), r0)'
    BY <1>1, <1>2, <2>1, <2>2, TieneDespues
  <2>6. \A k \in Hilos : pc'[k] = pc[k] \/ pc'[k] # "muerto"
    BY <2>1
  <2>7. pc'[LargoPlazo] = pc[LargoPlazo] /\ EstadoDeSitio(IO(r0)) = "BLOCK"
    BY <1>1, <2>1, ValoresDeSitio
  <2>8. QED
    BY <1>1, <1>2, <2>4, <2>5, <2>6, <2>7, DirigidoCiclo
<1>4. ASSUME NEW d0 \in Dispositivos,
             cola_dispositivo' = [cola_dispositivo EXCEPT ![d0] = Append(@, r0)],
             Ir(CortoPlazo, "espera_ready")
      PROVE  PasoDelCiclo
  <2>1. EnDispositivo(d0) \in Sitios /\ EstadoDeSitio(EnDispositivo(d0)) = "BLOCK"
    BY SitiosDe, ValoresDeSitio
  <2>2. ColasSobre(r0) /\ Tiene(EnDispositivo(d0), r0)'
    BY <1>1, <1>2, <1>4, EncolarDispositivoSobre, TieneDespues
  <2>3. pc'[CortoPlazo] = "espera_ready" /\ \A k \in Hilos : k # CortoPlazo => pc'[k] = pc[k]
    BY <1>1, <1>4, IrTipo
  <2>4. Sobre(CortoPlazo, "espera_ready", r0)
    BY <1>1, <1>2 DEF Sobre
  <2>5. Ajenos(r0[1])
    BY <1>1, <1>2, <1>4, <2>2, <2>4, AjenosDe
  <2>6. pc'[LargoPlazo] = pc[LargoPlazo] /\ \A k \in Hilos : pc'[k] = pc[k] \/ pc'[k] # "muerto"
    BY <1>1, <2>3
  <2>7. QED
    BY <1>2, <2>1, <2>2, <2>5, <2>6, DirigidoCiclo
<1>5. QED
  <2>1. Dispositivo(pcb[r0[1]].ultima) \in Dispositivos
    BY DispositivoTipo
  <2>2. QED
    BY <1>3, <1>4, <2>1 DEF SolicitarIO

LEMMA FinalizacionCiclo ==
    ASSUME ITotal, IPropiedad', pc[CortoPlazo] = "dirigir",
           NEW r0 \in Refs, r0 = ptr[CortoPlazo], ~pcb[r0[1]].page_fault,
           SolicitarFinalizacion(r0)
    PROVE  PasoDelCiclo
<1>1. /\ TypeOK /\ CortoPlazo \in Hilos /\ "resp_liberar" \in Lugares(CortoPlazo) /\ CortoPlazo # LargoPlazo
      /\ {"resp_liberar", "dirigir"} \cap EnHilo(CortoPlazo) = {} /\ LargoPlazo \in Hilos
      /\ CortoPlazo \notin DePageFault /\ "exit" \in Colas /\ "new" \in Colas
      /\ EnLaCola("exit") \in Sitios
  BY DeITotal, HilosFijos, LugaresDe, EnHiloDe, SitiosDe DEF Colas
<1>2. /\ Ir(CortoPlazo, "resp_liberar") /\ cola' = [cola EXCEPT !["exit"] = Append(@, r0)]
      /\ UNCHANGED <<cola_dispositivo, vida, rafagas, ptr, pid_actual>>
  BY DEF SolicitarFinalizacion, dispositivos
<1>3. ColasSobre(r0) /\ EnCola(r0, cola'["exit"]) /\ cola'["new"] = cola["new"]
  BY <1>1, <1>2, EncolarSobre
<1>4. pc'[CortoPlazo] = "resp_liberar" /\ \A k \in Hilos : k # CortoPlazo => pc'[k] = pc[k]
  BY <1>1, <1>2, IrTipo
<1>5. Sobre(CortoPlazo, "resp_liberar", r0)
  BY <1>1, <1>2 DEF Sobre
<1>6. Ajenos(r0[1])
  BY <1>1, <1>2, <1>3, <1>5, AjenosDe
<1>7. Tiene(EnLaCola("exit"), r0)' /\ EstadoDeSitio(EnLaCola("exit")) = "EXIT"
  BY <1>1, <1>3, TieneDespues, ValoresDeSitio
<1>8. /\ pc'[LargoPlazo] = pc[LargoPlazo] /\ MismoCorte
      /\ \A k \in Hilos : pc'[k] = pc[k] \/ pc'[k] # "muerto"
  BY <1>1, <1>2, <1>3, <1>4 DEF MismoCorte
<1>9. QED
  BY <1>1, <1>2, <1>6, <1>7, <1>8, DirigidoCiclo

\* A process that waits for its page stays with the thread of its fault.
LEMMA SoltarCiclo ==
    ASSUME ITotal, IPropiedad', pc[CortoPlazo] = "dirigir",
           NEW r0 \in Refs, r0 = ptr[CortoPlazo], pcb[r0[1]].page_fault,
           Seguir(CortoPlazo, "espera_ready")
    PROVE  PasoDelCiclo
<1>1. /\ TypeOK /\ ADirigir /\ CortoPlazo \in Hilos /\ "espera_ready" \in Lugares(CortoPlazo)
      /\ {"espera_ready", "dirigir"} \cap EnHilo(CortoPlazo) = {} /\ CortoPlazo # LargoPlazo
      /\ CortoPlazo \notin DePageFault /\ LargoPlazo \in Hilos /\ PunterosFijos
      /\ PF(r0) \in Sitios /\ PF(r0) \in Hilos /\ PF(r0) \in DePageFault /\ PF(r0) # CortoPlazo
  BY DeITotal, HilosFijos, HilosPorIndice, LugaresDe, EnHiloDe, SitiosDe
<1>2. Valido(r0) /\ pc[PF(r0)] \in {"espera", "pedir", "resp"}
  BY <1>1 DEF ADirigir
<1>3. /\ Ir(CortoPlazo, "espera_ready")
      /\ UNCHANGED <<cola, cola_dispositivo, ptr, vida, rafagas, pid_actual, cpu>>
  BY DEF Seguir, dispositivos, procesos, entorno
<1>4. pc'[CortoPlazo] = "espera_ready" /\ \A k \in Hilos : k # CortoPlazo => pc'[k] = pc[k]
  BY <1>1, <1>3, IrTipo
<1>5. Sobre(CortoPlazo, "espera_ready", r0) /\ ColasSobre(r0)
  BY <1>1, <1>3, ColasIguales DEF Sobre
<1>6. Ajenos(r0[1])
  BY <1>1, <1>3, <1>5, AjenosDe
<1>7. Tiene(PF(r0), r0) /\ Tiene(PF(r0), r0)'
  BY <1>1, <1>2, <1>3, <1>4, TieneDe, TieneDespues, EnHiloDe DEF PunterosFijos
<1>8. \A p : Lanzado(p)' <=> Lanzado(p)
  BY <1>1, <1>3, <1>4, LanzadosIguales DEF MismoCorte
<1>9. \A r \in Refs : pc'[PF(r)] = "muerto" => pc[PF(r)] = "muerto"
  BY <1>1, <1>4, HilosPorIndice
<1>10. QED
  BY <1>1, <1>3, <1>6, <1>7, <1>8, <1>9, TraspasoLibre

LEMMA DirigirCiclo ==
    ASSUME ITotal, IPropiedad', DirigirProcesoEjecutado
    PROVE  PasoDelCiclo
<1>1. /\ TypeOK /\ ADirigir /\ pc[CortoPlazo] = "dirigir"
      /\ CortoPlazo \in Hilos /\ "push_ready" \in Lugares(CortoPlazo) /\ CortoPlazo \in Sitios
      /\ "dirigir" \notin EnHilo(CortoPlazo) /\ CortoPlazo # LargoPlazo /\ LargoPlazo \in Hilos
      /\ "push_ready" \in EnHilo(CortoPlazo) /\ CortoPlazo \notin DePageFault
  BY DeITotal, HilosFijos, LugaresDe, EnHiloDe, SitiosDe DEF DirigirProcesoEjecutado, En
<1>2. Valido(ptr[CortoPlazo]) /\ Encaminable(pcb[ptr[CortoPlazo][1]])
  BY <1>1 DEF ADirigir
<1>3. PICK r0 \in Refs : r0 = ptr[CortoPlazo]
  BY <1>1, <1>2, ValidoRef
<1>4. PICK c : c = pcb[r0[1]]
  OBVIOUS
<1>5. \/ c.segmentation_fault /\ SolicitarFinalizacion(r0)
      \/ c.page_fault /\ Seguir(CortoPlazo, "espera_ready")
      \/ ~c.segmentation_fault /\ ~c.page_fault /\ SolicitarFinalizacion(r0)
      \/ ~c.segmentation_fault /\ ~c.page_fault /\ SolicitarIO(r0)
      \/ ~c.segmentation_fault /\ ~c.page_fault /\ Seguir(CortoPlazo, "push_ready")
  BY <1>2, <1>3, <1>4 DEF DirigirProcesoEjecutado, UsoTrasLiberar, Encaminable, SinFallo
<1>6. c.segmentation_fault => ~c.page_fault
  BY <1>2, <1>3, <1>4 DEF Encaminable
<1>7. CASE c.page_fault /\ Seguir(CortoPlazo, "espera_ready")
  BY <1>1, <1>3, <1>4, <1>7, SoltarCiclo
<1>8. CASE SolicitarFinalizacion(r0) /\ ~c.page_fault
  BY <1>1, <1>3, <1>4, <1>8, FinalizacionCiclo
<1>9. CASE SolicitarIO(r0) /\ ~c.page_fault
  BY <1>1, <1>3, <1>4, <1>9, SolicitarIOCiclo
<1>10. CASE Seguir(CortoPlazo, "push_ready") /\ ~c.page_fault
  <2>1. /\ Ir(CortoPlazo, "push_ready")
        /\ UNCHANGED <<cola, cola_dispositivo, ptr, vida, rafagas, pid_actual>>
    BY <1>10 DEF Seguir, dispositivos, procesos
  <2>2. pc'[CortoPlazo] = "push_ready" /\ \A k \in Hilos : k # CortoPlazo => pc'[k] = pc[k]
    BY <1>1, <2>1, IrTipo
  <2>3. Sobre(CortoPlazo, "push_ready", r0) /\ ColasSobre(r0)
    BY <1>1, <1>3, <2>1, ColasIguales DEF Sobre
  <2>4. Ajenos(r0[1])
    BY <1>1, <2>1, <2>3, AjenosDe
  <2>5. Tiene(CortoPlazo, r0)' /\ EstadoDeSitio(CortoPlazo) = "EXEC"
    BY <1>1, <1>3, <2>1, <2>2, TieneDespues, ValoresDeSitio
  <2>6. /\ pc'[LargoPlazo] = pc[LargoPlazo] /\ MismoCorte
        /\ \A k \in Hilos : pc'[k] = pc[k] \/ pc'[k] # "muerto"
    BY <1>1, <2>1, <2>2 DEF MismoCorte
  <2>7. QED
    BY <1>1, <1>3, <1>4, <1>10, <2>1, <2>4, <2>5, <2>6, DirigidoCiclo
<1>11. QED
  BY <1>5, <1>6, <1>7, <1>8, <1>9, <1>10

LEMMA PlanificarEjecucionCiclo ==
    ASSUME ITotal, IPropiedad', PlanificarEjecucion
    PROVE  PasoDelCiclo
<1>1. /\ CortoPlazo \in Hilos /\ CortoPlazo \in Pasadores /\ CortoPlazo # LargoPlazo
      /\ {"mirar_rr", "sacar_rr", "sacar_fifo", "destruir", "espera_ready"} \subseteq Lugares(CortoPlazo)
      /\ {"espera_ready", "mirar_rr", "sacar_rr", "sacar_fifo", "resp_liberar"} \cap EnHilo(CortoPlazo) = {}
      /\ {"enviar", "destruir"} \subseteq EnHilo(CortoPlazo) /\ CortoPlazo \notin DePageFault
  BY HilosFijos, LugaresDe, EnHiloDe DEF Pasadores
<1>2. CASE EsperarReady
  BY <1>1, <1>2, PasoDeSemaforo DEF EsperarReady
<1>3. CASE MirarRR
  <2>1. PICK l \in {"sacar_rr", "sacar_fifo"} : Seguir(CortoPlazo, l)
    BY <1>3 DEF MirarRR
  <2>2. /\ Ir(CortoPlazo, l) /\ pc[CortoPlazo] = "mirar_rr"
        /\ UNCHANGED <<cola, cola_dispositivo, ptr, vida, rafagas, pid_actual>>
    BY <1>3, <2>1 DEF Seguir, MirarRR, En, dispositivos, procesos
  <2>3. QED
    BY <1>1, <2>2, PasoDeHilo
<1>4. CASE SacarReady("sacar_rr", "rr") \/ SacarReady("sacar_fifo", "fifo")
  BY <1>4, SacarReadyCiclo
<1>5. CASE EnviarPcb
  <2>1. CASE UsoTrasLiberar(CortoPlazo)
    BY <2>1, FallarCiclo DEF UsoTrasLiberar
  <2>2. CASE ~UsoTrasLiberar(CortoPlazo)
    <3>1. /\ Ir(CortoPlazo, "destruir") /\ pc[CortoPlazo] = "enviar"
          /\ UNCHANGED <<cola, cola_dispositivo, ptr, vida, rafagas, pid_actual>>
      BY <1>5, <2>2 DEF EnviarPcb, En, dispositivos, procesos
    <3>2. QED
      BY <1>1, <3>1, PasoDeHilo
  <2>3. QED
    BY <2>1, <2>2
<1>6. CASE DestruirPcb
  BY <1>6, DestruirPcbCiclo
<1>7. CASE RecibirPcb
  BY <1>7, RecibirPcbCiclo
<1>8. CASE DirigirProcesoEjecutado
  BY <1>8, DirigirCiclo
<1>9. CASE RecibirLiberar
  <2>1. CASE TramaCortada
    BY <2>1, FallarCiclo DEF TramaCortada
  <2>2. CASE ~TramaCortada
    <3>1. /\ Ir(CortoPlazo, "espera_ready") /\ pc[CortoPlazo] = "resp_liberar"
          /\ UNCHANGED <<cola, cola_dispositivo, ptr, vida, rafagas, pid_actual>>
      BY <1>9, <2>2 DEF RecibirLiberar, En, dispositivos, procesos
    <3>2. QED
      BY <1>1, <3>1, PasoDeHilo
  <2>3. QED
    BY <2>1, <2>2
<1>10. CASE PasarAReady(CortoPlazo)
  BY <1>1, <1>10, PasarAReadyCiclo
<1>11. QED
  BY <1>2, <1>3, <1>4, <1>5, <1>6, <1>7, <1>8, <1>9, <1>10 DEF PlanificarEjecucion

-----------------------------------------------------------------------------
(* Devices, consoles and page faults. *)

LEMMA DesencolarDispositivoSobre ==
    ASSUME TypeOK, NEW d0 \in Dispositivos, cola_dispositivo[d0] # <<>>, cola' = cola,
           cola_dispositivo' = [cola_dispositivo EXCEPT ![d0] = Tail(@)],
           NEW r0, r0 = Head(cola_dispositivo[d0])
    PROVE  ColasSobre(r0) /\ r0 \in Refs /\ EnCola(r0, cola_dispositivo[d0])
<1>1. /\ cola_dispositivo[d0] \in Seq(Refs) /\ r0 \in Refs
      /\ cola_dispositivo'[d0] = Tail(cola_dispositivo[d0])
      /\ \A d \in Dispositivos : d # d0 => cola_dispositivo'[d] = cola_dispositivo[d]
  BY DEF TypeOK
<1>2. \A r : EnCola(r, cola_dispositivo[d0]) <=> EnCola(r, cola_dispositivo'[d0]) \/ r = r0
  BY <1>1, EnColaTail
<1>3. QED
  BY <1>1, <1>2 DEF ColasSobre

LEMMA SacarDispositivoCiclo ==
    ASSUME ITotal, IPropiedad', NEW d \in Dispositivos, SacarDispositivo(d)
    PROVE  PasoDelCiclo
<1>1. /\ TypeOK /\ ES(d) \in Hilos /\ "push_ready" \in Lugares(ES(d)) /\ ES(d) # CortoPlazo
      /\ ES(d) # LargoPlazo /\ ES(d) \notin DePageFault /\ LargoPlazo \in Hilos
      /\ CortoPlazo \in Hilos /\ ES(d) \in Sitios /\ EnDispositivo(d) \in Sitios
      /\ pc[ES(d)] = "sacar" /\ "sacar" \notin EnHilo(ES(d)) /\ "push_ready" \in EnHilo(ES(d))
  BY DeITotal, HilosFijos, HilosPorIndice, LugaresDe, EnHiloDe, SitiosDe DEF SacarDispositivo, En
<1>2. CASE PopIndebido(cola_dispositivo[d])
  BY <1>2, FallarCiclo DEF PopIndebido
<1>3. CASE ~PopIndebido(cola_dispositivo[d])
  <2>1. PICK r0 : r0 = Head(cola_dispositivo[d])
    OBVIOUS
  <2>2. /\ cola_dispositivo[d] # <<>> /\ ptr' = [ptr EXCEPT ![ES(d)] = r0]
        /\ cola_dispositivo' = [cola_dispositivo EXCEPT ![d] = Tail(@)]
        /\ Ir(ES(d), "push_ready") /\ UNCHANGED <<cola, vida, rafagas, pid_actual, cpu>>
    BY <1>3, <2>1 DEF SacarDispositivo, PopPosible, procesos, entorno
  <2>3. /\ ptr'[ES(d)] = r0 /\ \A k \in Hilos : k # ES(d) => ptr'[k] = ptr[k]
        /\ pc'[ES(d)] = "push_ready" /\ \A k \in Hilos : k # ES(d) => pc'[k] = pc[k]
    BY <1>1, <2>2, IrTipo DEF TypeOK
  <2>4. ColasSobre(r0) /\ r0 \in Refs /\ EnCola(r0, cola_dispositivo[d])
    BY <1>1, <2>1, <2>2, DesencolarDispositivoSobre
  <2>5. Sobre(ES(d), "push_ready", r0)
    BY <1>1, <2>3 DEF Sobre
  <2>6. Ajenos(r0[1])
    BY <1>1, <2>2, <2>3, <2>4, <2>5, AjenosDe
  <2>7. Tiene(EnDispositivo(d), r0) /\ Tiene(ES(d), r0)'
    BY <1>1, <2>3, <2>4, TieneDe, TieneDespues
  <2>8. /\ pc[CortoPlazo] = "recibir" => pc'[CortoPlazo] = "recibir" /\ cpu'.pid = cpu.pid
        /\ \A r \in Refs : pc'[PF(r)] = "muerto" => pc[PF(r)] = "muerto"
    BY <1>1, <2>2, <2>3, HilosPorIndice
  <2>9. \A p : Lanzado(p)' <=> Lanzado(p)
    BY <1>1, <2>2, <2>3, LanzadosIguales DEF MismoCorte
  <2>10. EstadoDeSitio(EnDispositivo(d)) = "BLOCK" /\ EstadoDeSitio(ES(d)) = "BLOCK"
    BY ValoresDeSitio
  <2>11. QED
    BY <1>1, <2>2, <2>4, <2>6, <2>7, <2>8, <2>9, <2>10, TraspasoLibre
<1>4. QED
  BY <1>2, <1>3

LEMMA EjecucionIOCiclo ==
    ASSUME ITotal, IPropiedad', NEW d \in Dispositivos, EjecucionIO(d)
    PROVE  PasoDelCiclo
<1>1. /\ ES(d) \in Hilos /\ "sacar" \in Lugares(ES(d)) /\ ES(d) # CortoPlazo /\ ES(d) \in Pasadores
      /\ ES(d) # LargoPlazo /\ ES(d) \notin DePageFault
      /\ "espera" \notin EnHilo(ES(d)) /\ "sacar" \notin EnHilo(ES(d))
  BY HilosFijos, HilosPorIndice, LugaresDe, EnHiloDe DEF Pasadores
<1>2. CASE EsperarDispositivo(d)
  <2>1. /\ Ir(ES(d), "sacar") /\ pc[ES(d)] = "espera"
        /\ UNCHANGED <<cola, cola_dispositivo, ptr, vida, rafagas, pid_actual, cpu>>
    BY <1>2 DEF EsperarDispositivo, En, procesos, entorno
  <2>2. QED
    BY <1>1, <2>1, PasoDeHilo
<1>3. CASE SacarDispositivo(d)
  BY <1>3, SacarDispositivoCiclo
<1>4. CASE PasarAReady(ES(d))
  BY <1>1, <1>4, PasarAReadyCiclo
<1>5. QED
  BY <1>2, <1>3, <1>4 DEF EjecucionIO

LEMMA SolicitarIOConsolaCiclo ==
    ASSUME ITotal, IPropiedad', NEW r \in Refs, SolicitarIOConsola(r)
    PROVE  PasoDelCiclo
<1>1. /\ IO(r) \in Hilos /\ "push_ready" \in Lugares(IO(r)) /\ IO(r) # CortoPlazo
      /\ IO(r) # LargoPlazo /\ IO(r) \notin DePageFault /\ IO(r) \in Pasadores
      /\ "solicitud" \in EnHilo(IO(r)) /\ "push_ready" \in EnHilo(IO(r))
  BY HilosFijos, HilosPorIndice, LugaresDe, EnHiloDe DEF Pasadores
<1>2. CASE Solicitud(r)
  <2>1. CASE UsoTrasLiberar(IO(r))
    BY <2>1, FallarCiclo DEF UsoTrasLiberar
  <2>2. CASE ~UsoTrasLiberar(IO(r))
    <3>1. /\ Ir(IO(r), "push_ready") /\ pc[IO(r)] = "solicitud"
          /\ UNCHANGED <<cola, cola_dispositivo, ptr, vida, rafagas, pid_actual, cpu>>
      BY <1>2, <2>2 DEF Solicitud, Seguir, En, dispositivos, procesos, entorno
    <3>2. QED
      BY <1>1, <3>1, PasoDeHilo
  <2>3. QED
    BY <2>1, <2>2
<1>3. CASE PasarAReady(IO(r))
  BY <1>1, <1>3, PasarAReadyCiclo
<1>4. QED
  BY <1>2, <1>3 DEF SolicitarIOConsola

LEMMA ManejarPageFaultCiclo ==
    ASSUME ITotal, IPropiedad', NEW r \in Refs, ManejarPageFault(r)
    PROVE  PasoDelCiclo
<1>1. /\ PF(r) \in Hilos /\ PF(r) \in DePageFault /\ PF(r) # LargoPlazo /\ PF(r) \in Pasadores
      /\ {"pedir", "push_ready", "muerto"} \subseteq Lugares(PF(r))
      /\ "espera" \in EnHilo(PF(r)) /\ "pedir" \in EnHilo(PF(r))
  BY HilosFijos, HilosPorIndice, LugaresDe, EnHiloDe DEF Pasadores
<1>2. CASE EsperarPageFault(r)
  BY <1>1, <1>2, PasoDeSemaforo DEF EsperarPageFault
<1>3. CASE PedirPagina(r)
  <2>1. CASE Pedir(PF(r), "PAGINA")
    BY <1>1, <2>1, PedirCiclo
  <2>2. CASE UsoTrasLiberar(PF(r))
    BY <2>2, FallarCiclo DEF UsoTrasLiberar
  <2>3. QED
    BY <1>3, <2>1, <2>2 DEF PedirPagina
<1>4. CASE RecibirPagina(r)
  <2>1. pc[PF(r)] = "resp"
    BY <1>4 DEF RecibirPagina, En
  <2>2. CASE Recibir(PF(r), "push_ready", "libre")
    BY <1>1, <2>1, <2>2, RecibirCiclo
  <2>3. CASE Recibir(PF(r), "muerto", "libre")
    BY <1>1, <2>1, <2>3, RecibirCiclo
  <2>4. CASE TramaCortada
    BY <2>4, FallarCiclo DEF TramaCortada
  <2>5. QED
    BY <1>4, <2>2, <2>3, <2>4 DEF RecibirPagina
<1>5. CASE PasarAReady(PF(r))
  BY <1>1, <1>5, PasarAReadyCiclo
<1>6. QED
  BY <1>2, <1>3, <1>4, <1>5 DEF ManejarPageFault

-----------------------------------------------------------------------------
(* The scheduler implements the life cycle. *)

LEMMA PasoCiclo ==
    ASSUME ITotal, IPropiedad', [Next]_vars
    PROVE  PasoDelCiclo
<1>1. CASE AtenderNuevaConsola
  BY <1>1, AtenderNuevaConsolaCiclo
<1>2. CASE AvisarNew
  <2>1. /\ Conexiones \in Hilos /\ "esperar_cliente" \in Lugares(Conexiones)
        /\ EnHilo(Conexiones) = {} /\ Conexiones # LargoPlazo
    BY HilosFijos, LugaresDe, EnHiloDe
  <2>2. QED
    BY <1>2, <2>1, PasoDeSemaforo DEF AvisarNew
<1>3. CASE NewAReady
  BY <1>3, NewAReadyCiclo
<1>4. CASE RajarPcb
  BY <1>4, RajarPcbCiclo
<1>5. CASE PlanificarEjecucion
  BY <1>5, PlanificarEjecucionCiclo
<1>6. CASE \E d \in Dispositivos : EjecucionIO(d)
  BY <1>6, EjecucionIOCiclo
<1>7. CASE \E r \in Refs : SolicitarIOConsola(r)
  BY <1>7, SolicitarIOConsolaCiclo
<1>8. CASE \E r \in Refs : ManejarPageFault(r)
  BY <1>8, ManejarPageFaultCiclo
<1>9. CASE AtenderKernel
  BY <1>9, PasoInmovil DEF AtenderKernel, dispositivos, entorno
<1>10. CASE EjecutarRafaga
  <2>1. cpu'.pid = cpu.pid
    <3>1. PICK c : cpu' = [cpu EXCEPT !.fase = "lista", !.pcb = c]
      BY <1>10 DEF EjecutarRafaga
    <3>2. QED
      BY <3>1, DeITotal DEF TypeOK
  <2>2. QED
    BY <1>10, <2>1, PasoInmovil DEF EjecutarRafaga, dispositivos
<1>11. CASE UNCHANGED vars
  BY <1>11, FallarCiclo
<1>12. QED
  BY <1>1, <1>2, <1>3, <1>4, <1>5, <1>6, <1>7, <1>8, <1>9, <1>10, <1>11 DEF Next

\* In the life cycle no process goes back to NEW or out of the system.
LEMMA CicloNoPierde ==
    ASSUME NEW p \in Pids, Ciclo!Next \/ Abstracto' = Abstracto,
           EstadoAbstracto(p) \notin {"FUERA", "NEW"}
    PROVE  EstadoAbstracto(p)' \notin {"FUERA", "NEW"}
<1>1. Abstracto[p] = EstadoAbstracto(p) /\ Abstracto'[p] = EstadoAbstracto(p)'
  BY DEF Abstracto
<1>2. CASE Abstracto' = Abstracto
  BY <1>1, <1>2
<1>3. CASE Ciclo!Next
  <2>1. PICK p0 \in Ciclo!Pids : \/ Ciclo!Llegar(p0) \/ Ciclo!Admitir(p0) \/ Ciclo!Elegir(p0)
                                 \/ Ciclo!Dejar(p0) \/ Ciclo!Despertar(p0) \/ Ciclo!Terminar(p0)
    BY <1>3 DEF Ciclo!Next
  <2>2. PICK de, a : Ciclo!Cambiar(p0, de, a) /\ (a = "NEW" => de = "FUERA") /\ a # "FUERA"
    BY <2>1 DEF Ciclo!Llegar, Ciclo!Admitir, Ciclo!Elegir, Ciclo!Dejar, Ciclo!Despertar, Ciclo!Terminar
  <2>3. Abstracto[p0] = de /\ Abstracto' = [Abstracto EXCEPT ![p0] = a]
    BY <2>2 DEF Ciclo!Cambiar, Abstracto
  <2>4. p = p0 => Abstracto'[p] = a /\ de = Abstracto[p]
    BY <2>3 DEF Abstracto
  <2>5. p # p0 => Abstracto'[p] = Abstracto[p]
    BY <2>3 DEF Abstracto
  <2>6. QED
    BY <1>1, <2>2, <2>4, <2>5
<1>4. QED
  BY <1>2, <1>3

LEMMA ITotalPaso ==
    ASSUME Carreras = {}, ITotal, [Next]_vars
    PROVE  ITotal' /\ (Ciclo!Next \/ Abstracto' = Abstracto)
<1>1. IPropiedad'
  BY IDuenioPaso DEF ITotal
<1>2. PasoDelCiclo
  BY <1>1, PasoCiclo
<1>3. NadieSePierde'
  <2>1. SUFFICES ASSUME NEW p \in Pids, Lanzado(p)'
                 PROVE  EstadoAbstracto(p)' \notin {"FUERA", "NEW"}
    BY DEF NadieSePierde
  <2>2. CASE ~Lanzado(p)
    BY <1>2, <2>1, <2>2 DEF PasoDelCiclo
  <2>3. CASE Lanzado(p)
    <3>1. EstadoAbstracto(p) \notin {"FUERA", "NEW"}
      BY <2>3, DeITotal DEF NadieSePierde
    <3>2. QED
      BY <1>2, <3>1, CicloNoPierde DEF PasoDelCiclo
  <2>4. QED
    BY <2>2, <2>3
<1>4. QED
  BY <1>1, <1>2, <1>3 DEF PasoDelCiclo, ITotal, ICiclo

LEMMA ITotalInicial == Init => ITotal /\ Ciclo!Init
<1> SUFFICES ASSUME Init PROVE ITotal /\ Ciclo!Init
  OBVIOUS
<1>1. IPropiedad
  BY IDuenioInicial
<1>2. \A r \in Refs : pc[PF(r)] = "no_creado"
  BY PcInicialDe, HilosPorIndice DEF Init
<1>3. \A p \in Pids : vida[p] = "sin_crear"
  BY DEF Init
<1>4. \A p \in Pids : EstadoAbstracto(p) = "FUERA"
  BY <1>3, EstadoDe
<1>5. Difuntos /\ EnCpuSolo
  BY <1>2, <1>3 DEF Difuntos, EnCpuSolo
<1>6. NadieSePierde
  <2>1. Corte = 0
    <3>1. cola["new"] = <<>> /\ pid_actual = 0
      BY DEF Init, Colas
    <3>2. Len(cola["new"]) = 0
      BY <3>1
    <3>3. Corte = 0 - 0
      BY <3>1, <3>2 DEF Corte
    <3>4. QED
      BY <3>3
  <2>2. QED
    BY <2>1 DEF NadieSePierde, Lanzado
<1>7. Ciclo!Init
  BY <1>4 DEF Ciclo!Init, Ciclo!Pids, Pids
<1>8. QED
  BY <1>1, <1>5, <1>6, <1>7 DEF ITotal, ICiclo

LEMMA ITotalSiempre ==
    ASSUME Carreras = {}
    PROVE  Spec => []ITotal
<1>1. Init => ITotal
  BY ITotalInicial
<1>2. ITotal /\ [Next]_vars => ITotal'
  BY ITotalPaso
<1>3. QED
  BY <1>1, <1>2, PTL DEF Spec

\* What ties the scheduler to the life cycle at every step when no thread hits the
\* windows of Carreras: a page fault thread that gave up leaves its PCB to nobody, the
\* CPU has the process obtener_proceso_ejecutado waits for, and a process that was
\* admitted is ready, running, blocked or finished: no hand-off loses it.
THEOREM InvarianteCiclo ==
    ASSUME Carreras = {}
    PROVE  Spec => []ICiclo
<1>1. ITotal => ICiclo
  BY DEF ITotal
<1>2. QED
  BY <1>1, ITotalSiempre, PTL

\* Whatever the interleaving of its threads, every step of the scheduler takes one
\* process one edge further in the five-state life cycle, or none: admission in order
\* of arrival under the degree of multiprogramming, one process on the CPU, nobody back
\* from EXIT, provided that no thread hits the windows of Carreras.
THEOREM RefinamientoSeguro ==
    ASSUME Carreras = {}
    PROVE  Spec => RefinaCicloDeVida
<1>1. Init => Ciclo!Init
  BY ITotalInicial
<1>2. ITotal /\ [Next]_vars => [Ciclo!Next]_([p \in Pids |-> EstadoAbstracto(p)])
  BY ITotalPaso DEF Abstracto
<1>3. QED
  BY <1>1, <1>2, ITotalSiempre, PTL DEF Spec, RefinaCicloDeVida, Ciclo!Spec
=============================================================================
