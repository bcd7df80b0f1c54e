------------------------ MODULE PlanificacionPruebas ------------------------
(***************************************************************************)
(* Proofs about the scheduler, for any number of consoles, any degree of   *)
(* multiprogramming, any algorithm, any devices and every race: the        *)
(* accounts of queues and semaphores; then the requests under way and the  *)
(* threads that wait for them, the degree, the order of admission and what *)
(* the memory holds.                                                       *)
(***************************************************************************)
EXTENDS PlanificacionPropiedades, FiniteSetTheorems, SequenceTheorems, TLAPS

(* Threads are told apart by their names. *)

LEMMA HilosFijos ==
    /\ {Conexiones, LargoPlazo, CortoPlazo, Rajar} \subseteq Hilos
    /\ Conexiones # LargoPlazo /\ Conexiones # CortoPlazo /\ Conexiones # Rajar
    /\ LargoPlazo # CortoPlazo /\ LargoPlazo # Rajar /\ CortoPlazo # Rajar
    /\ {Conexiones, LargoPlazo, CortoPlazo, Rajar} \cap DeDispositivo = {}
    /\ {Conexiones, LargoPlazo, CortoPlazo, Rajar} \cap DePageFault = {}
    /\ {Conexiones, LargoPlazo, CortoPlazo, Rajar} \cap DeConsola = {}
    /\ DeDispositivo \cap DePageFault = {} /\ DeDispositivo \cap DeConsola = {}
    /\ DePageFault \cap DeConsola = {}
BY DEF Hilos, Conexiones, LargoPlazo, CortoPlazo, Rajar, DeDispositivo, DePageFault,
       DeConsola, ES, PF, IO

LEMMA HilosPorIndice ==
    /\ \A d \in Dispositivos : ES(d) \in DeDispositivo /\ ES(d) \in Hilos
    /\ \A r \in Refs : PF(r) \in DePageFault /\ PF(r) \in Hilos
    /\ \A r \in Refs : IO(r) \in DeConsola /\ IO(r) \in Hilos
    /\ \A d, e \in Dispositivos : ES(d) = ES(e) => d = e
BY DEF Hilos, DeDispositivo, DePageFault, DeConsola, ES, PF, IO

LEMMA LugaresDe ==
    /\ Lugares(Conexiones) = {"esperar_cliente", "post_new"}
    /\ Lugares(LargoPlazo) =
            {"espera_new", "espera_grado", "sacar_new", "pedir", "resp",
             "resp_indices", "push_ready", "limpiar", "post_ready", "muerto"}
    /\ Lugares(CortoPlazo) =
            {"espera_ready", "mirar_rr", "sacar_rr", "sacar_fifo", "enviar",
             "destruir", "recibir", "dirigir", "resp_liberar", "push_ready",
             "limpiar", "post_ready"}
    /\ Lugares(Rajar) = {"espera_finalizados", "sacar_exit", "post_grado"}
    /\ \A h \in DeDispositivo :
            Lugares(h) = {"espera", "sacar", "push_ready", "limpiar", "post_ready"}
    /\ \A h \in DePageFault :
            Lugares(h) = {"no_creado", "espera", "pedir", "resp", "push_ready", "limpiar",
                          "post_ready", "fin", "muerto"}
    /\ \A h \in DeConsola :
            Lugares(h) = {"no_creado", "solicitud", "push_ready", "limpiar", "post_ready",
                          "fin"}
BY HilosFijos DEF Lugares

LEMMA TrasReadyDe ==
    /\ TrasReady(LargoPlazo) = "espera_new"
    /\ TrasReady(CortoPlazo) = "espera_ready"
    /\ \A h \in DeDispositivo : TrasReady(h) = "espera"
    /\ \A h \in DePageFault \cup DeConsola : TrasReady(h) = "fin"
BY HilosFijos DEF TrasReady

-----------------------------------------------------------------------------
(* What the building blocks of a step do. *)

\* A thread moves to a line of its own.
LEMMA IrTipo ==
    ASSUME TypeOK, NEW h \in Hilos, NEW l \in Lugares(h), Ir(h, l)
    PROVE  /\ pc' \in [Hilos -> Lineas]
           /\ \A k \in Hilos : pc'[k] \in Lugares(k)
           /\ pc'[h] = l
           /\ \A k \in Hilos : k # h => pc'[k] = pc[k]
<1>1. l \in Lineas
  BY DEF Lineas
<1>2. QED
  BY <1>1 DEF TypeOK, Ir

\* Where that leaves the threads between their push and their post.
LEMMA IrPublicando ==
    ASSUME TypeOK, NEW h \in Hilos, NEW l \in Lugares(h), Ir(h, l)
    PROVE  /\ (pc[h] \notin {"limpiar", "post_ready"} /\ l \notin {"limpiar", "post_ready"})
                => Publicando' = Publicando
           /\ (pc[h] \in {"limpiar", "post_ready"} /\ l \in {"limpiar", "post_ready"})
                => Publicando' = Publicando
           /\ (pc[h] \notin {"limpiar", "post_ready"} /\ l \in {"limpiar", "post_ready"})
                => Publicando' = Publicando \cup {h} /\ h \notin Publicando
           /\ (pc[h] \in {"limpiar", "post_ready"} /\ l \notin {"limpiar", "post_ready"})
                => Publicando' = Publicando \ {h} /\ h \in Publicando
BY IrTipo DEF Publicando

LEMMA EsperarTipo ==
    ASSUME TypeOK, NEW h \in Hilos, NEW s \in Semaforos, NEW de, NEW a \in Lugares(h),
           Esperar(h, de, s, a)
    PROVE  TypeOK'
<1>1. Ir(h, a)
  BY DEF Esperar
<1>2. sem' \in [Semaforos -> Nat]
  BY DEF TypeOK, Esperar
<1>3. QED
  BY <1>1, <1>2, IrTipo DEF TypeOK, Esperar, dispositivos, procesos, memoria, entorno

LEMMA AvisarTipo ==
    ASSUME TypeOK, NEW h \in Hilos, NEW s \in Semaforos, NEW de, NEW a \in Lugares(h),
           Avisar(h, de, s, a)
    PROVE  TypeOK'
<1>1. Ir(h, a)
  BY DEF Avisar
<1>2. sem' \in [Semaforos -> Nat]
  BY DEF TypeOK, Avisar
<1>3. QED
  BY <1>1, <1>2, IrTipo DEF TypeOK, Avisar, dispositivos, procesos, memoria, entorno

LEMMA SeguirTipo ==
    ASSUME TypeOK, NEW h \in Hilos, NEW l \in Lugares(h), Seguir(h, l)
    PROVE  TypeOK'
<1>1. Ir(h, l)
  BY DEF Seguir
<1>2. QED
  BY <1>1, IrTipo DEF TypeOK, Seguir, dispositivos, procesos, memoria, entorno

LEMMA FallarIInv ==
    ASSUME IInv, NEW f \in {"uso_tras_liberar", "uso_tras_publicar", "instruccion_nula", "trama_cortada"},
           Fallar(f)
    PROVE  IInv'
<1>1. TypeOK' /\ SinColaVacia'
  BY DEF IInv, TypeOK, SinColaVacia, Fallar, dispositivos, procesos, memoria
<1>2. Referencias'
  BY DEF IInv, Referencias, Fallar, procesos
<1>3. CuentaNew' /\ CuentaExit' /\ CuentaDispositivos' /\ CuentaReady' /\ ColaElegida'
  BY DEF IInv, CuentaNew, CuentaExit, CuentaDispositivos, CuentaReady, EnReadys,
         Publicando, ColaElegida, Fallar, dispositivos
<1>4. QED
  BY <1>1, <1>2, <1>3 DEF IInv

-----------------------------------------------------------------------------
(* The accounts: a step outside the lines they count leaves them alone. *)

Contados == {"post_new", "espera_grado", "sacar_new", "resp_liberar", "sacar_exit", "sacar",
             "mirar_rr", "sacar_rr", "sacar_fifo", "limpiar", "post_ready"}

Cuentas == CuentaNew /\ CuentaExit /\ CuentaDispositivos /\ CuentaReady /\ ColaElegida

LEMMA CuentasAjenas ==
    ASSUME TypeOK, Cuentas, NEW h \in Hilos, NEW l \in Lugares(h), Ir(h, l),
           pc[h] \notin Contados, l \notin Contados,
           UNCHANGED <<cola, sem, dispositivos>>
    PROVE  Cuentas'
<1>1. Publicando' = Publicando
  BY IrPublicando DEF Contados
<1>2. /\ pc'[h] \notin Contados
      /\ \A k \in Hilos : k # h => pc'[k] = pc[k]
  BY IrTipo
<1>3. \A k \in Hilos, c \in Contados : pc'[k] = c <=> pc[k] = c
  BY <1>2
<1>4. CuentaNew' /\ CuentaExit'
  BY <1>3, HilosFijos DEF Cuentas, CuentaNew, CuentaExit, Contados, Uno
<1>5. CuentaDispositivos'
  BY <1>3, HilosPorIndice DEF Cuentas, CuentaDispositivos, Contados, Uno, dispositivos
<1>6. CuentaReady'
  BY <1>1, <1>3, HilosFijos DEF Cuentas, CuentaReady, EnReadys, Contados, Uno
<1>7. ColaElegida'
  BY <1>3, HilosFijos DEF Cuentas, ColaElegida, Contados
<1>8. QED
  BY <1>4, <1>5, <1>6, <1>7 DEF Cuentas

\* Nor does a step disturb the references, if it creates no thread and brings no
\* PCB to the dispatcher.
LEMMA ReferenciasDeHilos ==
    ASSUME TypeOK, Referencias, NEW h \in Hilos, NEW l \in Lugares(h), Ir(h, l),
           pc[h] # "no_creado", l # "dirigir", UNCHANGED rafagas,
           h = CortoPlazo \/ ptr'[CortoPlazo] = ptr[CortoPlazo]
    PROVE  /\ \A r \in Refs : (pc'[PF(r)] # "no_creado" \/ pc'[IO(r)] # "no_creado")
                              => r[2] <= rafagas'[r[1]]
           /\ pc'[CortoPlazo] = "dirigir"
                => ptr'[CortoPlazo] \in Refs /\ pc'[IO(ptr'[CortoPlazo])] = "no_creado"
<1>1. pc'[h] = l /\ \A k \in Hilos : k # h => pc'[k] = pc[k]
  BY IrTipo
<1>2. \A k \in Hilos : pc'[k] # "no_creado" => pc[k] # "no_creado"
  BY <1>1
<1>3. pc'[CortoPlazo] = "dirigir" => pc[CortoPlazo] = "dirigir" /\ h # CortoPlazo
  BY <1>1, HilosFijos
<1>4. QED
  BY <1>2, <1>3, HilosPorIndice, LugaresDe DEF Referencias, TypeOK

LEMMA ReferenciasQuietas ==
    ASSUME TypeOK, Referencias, NEW h \in Hilos, NEW l \in Lugares(h), Ir(h, l),
           pc[h] # "no_creado", l # "dirigir",
           l # "pedir" \/ h # LargoPlazo, UNCHANGED <<ptr, cpu, rafagas>>
    PROVE  Referencias'
<1>1. pc'[LargoPlazo] = "pedir" => pc[LargoPlazo] = "pedir"
  BY IrTipo, HilosFijos
<1>2. QED
  BY <1>1, ReferenciasDeHilos DEF Referencias

LEMMA PedirIInv ==
    ASSUME IInv, NEW h \in {LargoPlazo} \cup DePageFault,
           NEW cod \in {"ESTRUCTURAS", "PAGINA"}, Pedir(h, cod), ptr[h] \in Refs
    PROVE  IInv'
<1>1. h \in Hilos /\ {"pedir", "resp"} \subseteq Lugares(h)
      /\ h[1] \in {"largo_plazo", "page_fault"}
  BY LugaresDe DEF Hilos, LargoPlazo, DePageFault, PF
<1>2. TypeOK /\ Cuentas
  BY DEF IInv, Cuentas
<1>3. Ir(h, "resp") /\ UNCHANGED <<cola, sem, dispositivos>> /\ pc[h] = "pedir"
  BY DEF Pedir, En
<1>4. Cuentas'
  BY <1>1, <1>2, <1>3, CuentasAjenas DEF Contados
<1>5. TypeOK'
  <2>1. [cod |-> cod, pid |-> ptr[h][1]] \in
          [cod : {"ESTRUCTURAS", "PAGINA", "LIBERAR_ESTRUCTURAS"}, pid : Pids]
    BY DEF Refs
  <2>2. pedidos' \in Seq([cod : {"ESTRUCTURAS", "PAGINA", "LIBERAR_ESTRUCTURAS"}, pid : Pids])
    BY <2>1, <1>2 DEF Pedir, TypeOK
  <2>3. conexion_memoria_mutex' \in {"libre", "largo_plazo", "page_fault"}
    BY <1>1 DEF Pedir
  <2>4. QED
    BY <2>2, <2>3, <1>1, <1>2, <1>3, IrTipo DEF Pedir, TypeOK, dispositivos, procesos, entorno
<1>6. Referencias'
  BY <1>1, <1>2, <1>3, ReferenciasQuietas DEF IInv, Pedir, procesos, entorno
<1>7. QED
  BY <1>4, <1>5, <1>6 DEF IInv, Cuentas, SinColaVacia, Pedir, entorno

LEMMA RecibirIInv ==
    ASSUME IInv, NEW h \in {LargoPlazo} \cup DePageFault,
           NEW l \in Lugares(h), l \notin Contados \cup {"pedir", "dirigir"},
           pc[h] \notin Contados \cup {"no_creado"}, respuestas # <<>>,
           NEW m \in {"libre", "largo_plazo", "page_fault"}, Recibir(h, l, m)
    PROVE  IInv'
<1>1. h \in Hilos
  BY DEF Hilos
<1>2. TypeOK /\ Cuentas
  BY DEF IInv, Cuentas
<1>3. Ir(h, l) /\ UNCHANGED <<cola, sem, dispositivos>>
  BY DEF Recibir
<1>4. Cuentas'
  BY <1>1, <1>2, <1>3, CuentasAjenas
<1>5. TypeOK'
  <2>1. pc' \in [Hilos -> Lineas] /\ \A k \in Hilos : pc'[k] \in Lugares(k)
    BY <1>1, <1>2, <1>3, IrTipo
  <2>2. respuestas' \in Seq([cod : {"OKI_ESTRUCTURAS", "INDICES", "OKI_PAGINA",
                                  "OKI_LIBERAR_ESTRUCTURAS"}, pid : Pids])
    <3>1. PICK S : S = [cod : {"OKI_ESTRUCTURAS", "INDICES", "OKI_PAGINA",
                               "OKI_LIBERAR_ESTRUCTURAS"}, pid : Pids]
      OBVIOUS
    <3>2. respuestas \in Seq(S) /\ respuestas # <<>> /\ respuestas' = Tail(respuestas)
      BY <1>2, <3>1 DEF TypeOK, Recibir
    <3>3. respuestas' \in Seq(S)
      BY ONLY <3>2
    <3> QED BY ONLY <3>1, <3>3
  <2>3. conexion_memoria_mutex' \in {"libre", "largo_plazo", "page_fault"}
    BY DEF Recibir
  <2> QED BY <1>2, <1>3, <2>1, <2>2, <2>3 DEF Recibir, TypeOK, dispositivos, procesos, entorno
<1>6. Referencias'
  BY <1>1, <1>2, <1>3, ReferenciasQuietas DEF IInv, Recibir, procesos, entorno
<1>7. QED
  BY <1>4, <1>5, <1>6 DEF IInv, Cuentas, SinColaVacia, Recibir, entorno

LEMMA SeguirIInv ==
    ASSUME IInv, NEW h \in Hilos, NEW l \in Lugares(h),
           pc[h] \notin Contados \cup {"no_creado"}, l \notin Contados \cup {"dirigir"},
           l # "pedir" \/ h # LargoPlazo, Seguir(h, l)
    PROVE  IInv'
<1>1. TypeOK /\ Cuentas
  BY DEF IInv, Cuentas
<1>2. Ir(h, l) /\ UNCHANGED <<cola, sem, dispositivos>>
  BY DEF Seguir
<1>3. Cuentas' /\ TypeOK'
  BY <1>1, <1>2, CuentasAjenas, SeguirTipo
<1>4. Referencias'
  BY <1>1, <1>2, ReferenciasQuietas DEF IInv, Seguir, procesos, entorno
<1>5. QED
  BY <1>3, <1>4 DEF IInv, Cuentas, SinColaVacia, Seguir, entorno

-----------------------------------------------------------------------------
(* Sums of lengths and of units, as numbers. *)

\* n elements are s units, k threads that pushed and u thread about to pop.
LEMMA Saldo ==
    ASSUME NEW s \in Int, NEW k \in Int, NEW u \in Int
    PROVE  /\ (s + k + u) + 1 = s + (k + 1) + u
           /\ (s + k + u) + 1 = (s + 1) + k + u
           /\ (s + k + u) - 1 = s + k + (u - 1)
           /\ s + k + u = (s + 1) + (k - 1) + u
           /\ s + k + u = (s - 1) + k + (u + 1)
OBVIOUS

\* A push to a ready queue, or a pop from it, and what is in the two.
Largo(c) == Len(cola[c])

LEMMA EnReadysCambia ==
    ASSUME NEW q \in {"rr", "fifo"},
           Len(cola["rr"]) \in Nat, Len(cola["fifo"]) \in Nat,
           \A c \in {"rr", "fifo"} : c # q => cola'[c] = cola[c]
    PROVE  /\ EnReadys \in Nat
           /\ Len(cola'[q]) = Len(cola[q]) + 1 => EnReadys' = EnReadys + 1
           /\ Len(cola'[q]) = Len(cola[q]) - 1 => EnReadys' = EnReadys - 1
<1>1. /\ Largo("rr") \in Nat /\ Largo("fifo") \in Nat
      /\ \A c \in {"rr", "fifo"} : c # q => Largo(c)' = Largo(c)
  BY DEF Largo
<1>2. Largo("rr") + Largo("fifo") \in Nat
  BY ONLY <1>1
<1>3. /\ EnReadys = Largo("rr") + Largo("fifo")
      /\ EnReadys' = Largo("rr")' + Largo("fifo")'
  BY DEF EnReadys, Largo
<1>4. ASSUME Largo(q)' = Largo(q) + 1
      PROVE  Largo("rr")' + Largo("fifo")' = Largo("rr") + Largo("fifo") + 1
  <2>1. CASE q = "rr"
    BY <2>1, <1>1, <1>4
  <2>2. CASE q = "fifo"
    BY <2>2, <1>1, <1>4
  <2>3. QED
    BY <2>1, <2>2
<1>5. ASSUME Largo(q)' = Largo(q) - 1
      PROVE  Largo("rr")' + Largo("fifo")' = Largo("rr") + Largo("fifo") - 1
  <2>1. CASE q = "rr"
    BY <2>1, <1>1, <1>5
  <2>2. CASE q = "fifo"
    BY <2>2, <1>1, <1>5
  <2>3. QED
    BY <2>1, <2>2
<1>6. /\ Len(cola'[q]) = Len(cola[q]) + 1 => Largo(q)' = Largo(q) + 1
      /\ Len(cola'[q]) = Len(cola[q]) - 1 => Largo(q)' = Largo(q) - 1
  BY DEF Largo
<1>7. EnReadys \in Nat
  BY ONLY <1>2, <1>3
<1>8. ASSUME Len(cola'[q]) = Len(cola[q]) + 1 PROVE EnReadys' = EnReadys + 1
  <2>1. Largo(q)' = Largo(q) + 1
    BY <1>6, <1>8
  <2>2. QED
    BY ONLY <2>1, <1>4, <1>3
<1>9. ASSUME Len(cola'[q]) = Len(cola[q]) - 1 PROVE EnReadys' = EnReadys - 1
  <2>1. Largo(q)' = Largo(q) - 1
    BY <1>6, <1>9
  <2>2. QED
    BY ONLY <2>1, <1>5, <1>3, <1>1, <1>7
<1>10. QED
  BY <1>7, <1>8, <1>9

-----------------------------------------------------------------------------
(* pasar_a_ready: the push adds an element and a thread that has yet to post. *)

Pasadores == {LargoPlazo, CortoPlazo} \cup DeDispositivo \cup DePageFault \cup DeConsola

LEMMA PasadoresDe ==
    /\ Pasadores \subseteq Hilos
    /\ \A h \in Pasadores :
         /\ {"push_ready", "limpiar", "post_ready"} \subseteq Lugares(h)
         /\ TrasReady(h) \in Lugares(h)
         /\ TrasReady(h) \notin Contados \cup {"pedir", "dirigir"}
BY LugaresDe, TrasReadyDe DEF Pasadores, Hilos, Contados

LEMMA ValidoRef == ASSUME TypeOK, NEW h \in Hilos, Valido(ptr[h])
                   PROVE  ptr[h] \in Refs /\ ptr[h][1] \in Pids
BY DEF TypeOK, Valido, Refs, Pids, NULO

\* What the kernel and the CPU write to a PCB keeps its type.
LEMMA PcbExcept ==
    ASSUME NEW c \in Pcb
    PROVE  /\ \A b : [c EXCEPT !.con_desalojo = Preemptible(b)] \in Pcb
           /\ \A b : [c EXCEPT !.con_desalojo = Preemptible(b), !.interrupcion = FALSE,
                               !.page_fault = FALSE, !.segmentation_fault = FALSE] \in Pcb
           /\ [c EXCEPT !.interrupcion = FALSE, !.page_fault = FALSE,
                        !.segmentation_fault = FALSE, !.estado = "READY"] \in Pcb
           /\ \A e \in {"EXEC", "BLOCK", "FINISH_EXIT"} : [c EXCEPT !.estado = e] \in Pcb
           /\ c.page_fault \in BOOLEAN /\ c.interrupcion \in BOOLEAN
<1>1. \A b : Preemptible(b) \in BOOLEAN
  BY DEF Preemptible
<1>2. QED
  BY <1>1 DEF Pcb

\* Only the ready accounts look at a step of pasar_a_ready.
LEMMA CuentasDePasador ==
    ASSUME TypeOK, Cuentas, NEW h \in Pasadores, NEW l \in Lugares(h), Ir(h, l),
           pc[h] \in {"push_ready", "limpiar", "post_ready"},
           l \in {"limpiar", "post_ready", TrasReady(h)},
           cola'["new"] = cola["new"], cola'["exit"] = cola["exit"],
           sem'["procesos_new"] = sem["procesos_new"],
           sem'["procesos_finalizados"] = sem["procesos_finalizados"],
           UNCHANGED dispositivos
    PROVE  /\ CuentaNew' /\ CuentaExit' /\ CuentaDispositivos'
           /\ pc'[CortoPlazo] \in {"mirar_rr", "sacar_rr", "sacar_fifo"}
                <=> pc[CortoPlazo] \in {"mirar_rr", "sacar_rr", "sacar_fifo"}
           /\ pc'[CortoPlazo] = "sacar_rr" <=> pc[CortoPlazo] = "sacar_rr"
           /\ pc'[CortoPlazo] = "sacar_fifo" <=> pc[CortoPlazo] = "sacar_fifo"
<1> DEFINE Otros == {"post_new", "espera_grado", "sacar_new", "resp_liberar", "sacar_exit",
                     "sacar", "mirar_rr", "sacar_rr", "sacar_fifo"}
<1>1. h \in Hilos /\ pc[h] \notin Otros /\ l \notin Otros
  BY PasadoresDe DEF Contados
<1>2. \A k \in Hilos, c \in Otros : pc'[k] = c <=> pc[k] = c
  BY <1>1, IrTipo
<1>3. CuentaNew' /\ CuentaExit'
  BY <1>2, HilosFijos DEF Cuentas, CuentaNew, CuentaExit, Uno
<1>4. CuentaDispositivos'
  BY <1>2, HilosPorIndice DEF Cuentas, CuentaDispositivos, Uno, dispositivos
<1>5. QED
  BY <1>2, <1>3, <1>4, HilosFijos

LEMMA PushReadyIInv ==
    ASSUME IInv, NEW h \in Pasadores, PushReady(h)
    PROVE  IInv'
<1> PICK q \in {"rr", "fifo"} : q = "rr" <=> Preemptible(ptr[h])
  OBVIOUS
<1>0. cola' = [cola EXCEPT ![q] = Append(@, ptr[h])]
  BY DEF PushReady
<1>1. /\ TypeOK /\ Cuentas /\ h \in Hilos /\ "limpiar" \in Lugares(h)
      /\ Ir(h, "limpiar") /\ pc[h] = "push_ready"
      /\ ptr[h] \in Refs /\ ptr[h][1] \in Pids
  BY PasadoresDe, ValidoRef DEF IInv, Cuentas, PushReady, En
<1>2. /\ cola[q] \in Seq(Refs) /\ cola'[q] = Append(cola[q], ptr[h])
      /\ \A c \in Colas : c # q => cola'[c] = cola[c]
      /\ cola' \in [Colas -> Seq(Refs)]
      /\ Len(cola'[q]) = Len(cola[q]) + 1 /\ cola'[q] # <<>>
  <2>1. cola \in [Colas -> Seq(Refs)] /\ q \in Colas
    BY <1>1 DEF TypeOK, Colas
  <2>2. cola[q] \in Seq(Refs)
    BY <2>1
  <2>3. /\ Append(cola[q], ptr[h]) \in Seq(Refs) /\ Append(cola[q], ptr[h]) # <<>>
        /\ Len(Append(cola[q], ptr[h])) = Len(cola[q]) + 1
    BY <2>2, <1>1
  <2>4. cola' = [cola EXCEPT ![q] = Append(cola[q], ptr[h])]
    BY <1>0
  <2>5. QED
    BY <2>1, <2>2, <2>3, <2>4
<1>3. TypeOK'
  <2>1. pcb' \in [Pids -> Pcb]
    <3>1. PICK d \in Pcb : pcb' = [pcb EXCEPT ![ptr[h][1]] = d]
      <4>1. pcb[ptr[h][1]] \in Pcb
        BY <1>1 DEF TypeOK
      <4>2. CASE "banderas" \in Carreras
        BY <1>1, <4>1, <4>2, PcbExcept DEF PushReady
      <4>3. CASE "banderas" \notin Carreras
        BY <1>1, <4>1, <4>3, PcbExcept DEF PushReady
      <4>4. QED
        BY <4>2, <4>3
    <3>2. QED
      BY <1>1, <3>1 DEF TypeOK
  <2>2. QED
    BY <2>1, <1>1, <1>2, IrTipo DEF TypeOK, PushReady, dispositivos, memoria, entorno
<1>4. Referencias'
  BY <1>1, ReferenciasQuietas DEF IInv, PushReady, entorno
<1>5. /\ CuentaNew' /\ CuentaExit' /\ CuentaDispositivos'
      /\ pc'[CortoPlazo] \in {"mirar_rr", "sacar_rr", "sacar_fifo"}
                <=> pc[CortoPlazo] \in {"mirar_rr", "sacar_rr", "sacar_fifo"}
      /\ pc'[CortoPlazo] = "sacar_rr" <=> pc[CortoPlazo] = "sacar_rr"
      /\ pc'[CortoPlazo] = "sacar_fifo" <=> pc[CortoPlazo] = "sacar_fifo"
  <2>1. cola'["new"] = cola["new"] /\ cola'["exit"] = cola["exit"]
    BY <1>1, <1>2 DEF Colas
  <2>2. QED
    BY <2>1, <1>1, CuentasDePasador DEF PushReady
<1>6. CuentaReady'
  <2>1. Publicando' = Publicando \cup {h} /\ h \notin Publicando
    BY <1>1, IrPublicando
  <2>2. IsFiniteSet(Publicando') /\ Cardinality(Publicando') = Cardinality(Publicando) + 1
        /\ Cardinality(Publicando) \in Nat
    BY <1>1, <2>1, FS_AddElement, FS_CardinalityType DEF Cuentas, CuentaReady
  <2>3. EnReadys \in Nat /\ EnReadys' = EnReadys + 1
    <3>1. Len(cola["rr"]) \in Nat /\ Len(cola["fifo"]) \in Nat
      BY <1>1 DEF TypeOK, Colas
    <3>2. \A c \in {"rr", "fifo"} : c # q => cola'[c] = cola[c]
      BY <1>2 DEF Colas
    <3>3. Len(cola'[q]) = Len(cola[q]) + 1
      BY <1>2
    <3>4. QED
      BY <3>1, <3>2, <3>3, EnReadysCambia
  <2>4. sem' = sem /\ sem["procesos_ready"] \in Nat
    BY <1>1 DEF PushReady, TypeOK, Semaforos
  <2>5. /\ Uno(pc[CortoPlazo] \in {"mirar_rr", "sacar_rr", "sacar_fifo"}) \in Nat
        /\ Uno(pc'[CortoPlazo] \in {"mirar_rr", "sacar_rr", "sacar_fifo"})
             = Uno(pc[CortoPlazo] \in {"mirar_rr", "sacar_rr", "sacar_fifo"})
    BY <1>5 DEF Uno
  <2>6. EnReadys
         = sem["procesos_ready"] + Cardinality(Publicando)
           + Uno(pc[CortoPlazo] \in {"mirar_rr", "sacar_rr", "sacar_fifo"})
    BY <1>1 DEF Cuentas, CuentaReady
  <2>7. EnReadys'
         = sem'["procesos_ready"] + Cardinality(Publicando')
           + Uno(pc'[CortoPlazo] \in {"mirar_rr", "sacar_rr", "sacar_fifo"})
    BY <2>2, <2>3, <2>4, <2>5, <2>6, Saldo
  <2>8. QED
    BY <2>2, <2>7 DEF CuentaReady
<1>7. ColaElegida'
  BY <1>1, <1>2, <1>5 DEF Cuentas, ColaElegida, Preemptible, Colas
<1>8. QED
  BY <1>3, <1>4, <1>5, <1>6, <1>7 DEF IInv, SinColaVacia, PushReady, entorno

LEMMA LimpiarIInv ==
    ASSUME IInv, NEW h \in Pasadores, LimpiarBanderas(h)
    PROVE  IInv'
<1>1. /\ TypeOK /\ Cuentas /\ h \in Hilos /\ "post_ready" \in Lugares(h)
      /\ Ir(h, "post_ready") /\ pc[h] = "limpiar" /\ ptr[h][1] \in Pids
  BY PasadoresDe, ValidoRef DEF IInv, Cuentas, LimpiarBanderas, En
<1>2. TypeOK'
  <2>1. pcb' \in [Pids -> Pcb]
    BY <1>1, PcbExcept DEF LimpiarBanderas, TypeOK
  <2>2. QED
    BY <2>1, <1>1, IrTipo DEF TypeOK, LimpiarBanderas, dispositivos, memoria, entorno
<1>3. Referencias'
  BY <1>1, ReferenciasQuietas DEF IInv, LimpiarBanderas, entorno
<1>4. /\ CuentaNew' /\ CuentaExit' /\ CuentaDispositivos'
      /\ pc'[CortoPlazo] \in {"mirar_rr", "sacar_rr", "sacar_fifo"}
                <=> pc[CortoPlazo] \in {"mirar_rr", "sacar_rr", "sacar_fifo"}
      /\ pc'[CortoPlazo] = "sacar_rr" <=> pc[CortoPlazo] = "sacar_rr"
      /\ pc'[CortoPlazo] = "sacar_fifo" <=> pc[CortoPlazo] = "sacar_fifo"
  BY <1>1, CuentasDePasador DEF LimpiarBanderas
<1>5. Publicando' = Publicando
  BY <1>1, IrPublicando
<1>6. CuentaReady' /\ ColaElegida'
  BY <1>1, <1>4, <1>5 DEF Cuentas, CuentaReady, EnReadys, ColaElegida, LimpiarBanderas, Uno
<1>7. QED
  BY <1>2, <1>3, <1>4, <1>6 DEF IInv, SinColaVacia, LimpiarBanderas, entorno

LEMMA PostReadyIInv ==
    ASSUME IInv, NEW h \in Pasadores,
           Avisar(h, "post_ready", "procesos_ready", TrasReady(h))
    PROVE  IInv'
<1>1. /\ TypeOK /\ Cuentas /\ h \in Hilos /\ TrasReady(h) \in Lugares(h)
      /\ TrasReady(h) \notin Contados \cup {"pedir", "dirigir"}
      /\ Ir(h, TrasReady(h)) /\ pc[h] = "post_ready"
  BY PasadoresDe DEF IInv, Cuentas, Avisar, En
<1>2. /\ sem["procesos_ready"] \in Nat
      /\ sem'["procesos_ready"] = sem["procesos_ready"] + 1
      /\ \A s \in Semaforos : s # "procesos_ready" => sem'[s] = sem[s]
  BY <1>1 DEF Avisar, TypeOK, Semaforos
<1>3. TypeOK'
  BY <1>1, AvisarTipo DEF Semaforos
<1>4. Referencias'
  BY <1>1, ReferenciasQuietas DEF IInv, Avisar, procesos, entorno
<1>5. /\ CuentaNew' /\ CuentaExit' /\ CuentaDispositivos'
      /\ pc'[CortoPlazo] \in {"mirar_rr", "sacar_rr", "sacar_fifo"}
                <=> pc[CortoPlazo] \in {"mirar_rr", "sacar_rr", "sacar_fifo"}
      /\ pc'[CortoPlazo] = "sacar_rr" <=> pc[CortoPlazo] = "sacar_rr"
      /\ pc'[CortoPlazo] = "sacar_fifo" <=> pc[CortoPlazo] = "sacar_fifo"
  <2>1. sem'["procesos_new"] = sem["procesos_new"]
        /\ sem'["procesos_finalizados"] = sem["procesos_finalizados"]
    BY <1>2 DEF Semaforos
  <2>2. QED
    BY <2>1, <1>1, CuentasDePasador DEF Avisar
<1>6. CuentaReady'
  <2>1. Publicando' = Publicando \ {h} /\ h \in Publicando
    BY <1>1, IrPublicando DEF Contados
  <2>2. IsFiniteSet(Publicando') /\ Cardinality(Publicando') = Cardinality(Publicando) - 1
        /\ Cardinality(Publicando) \in Nat
    BY <1>1, <2>1, FS_RemoveElement, FS_CardinalityType DEF Cuentas, CuentaReady
  <2>3. /\ Uno(pc[CortoPlazo] \in {"mirar_rr", "sacar_rr", "sacar_fifo"}) \in Nat
        /\ Uno(pc'[CortoPlazo] \in {"mirar_rr", "sacar_rr", "sacar_fifo"})
             = Uno(pc[CortoPlazo] \in {"mirar_rr", "sacar_rr", "sacar_fifo"})
    BY <1>5 DEF Uno
  <2>4. EnReadys
         = sem["procesos_ready"] + Cardinality(Publicando)
           + Uno(pc[CortoPlazo] \in {"mirar_rr", "sacar_rr", "sacar_fifo"})
    BY <1>1 DEF Cuentas, CuentaReady
  <2>5. EnReadys'
         = sem'["procesos_ready"] + Cardinality(Publicando')
           + Uno(pc'[CortoPlazo] \in {"mirar_rr", "sacar_rr", "sacar_fifo"})
    <3>1. EnReadys' = EnReadys
      BY DEF Avisar, EnReadys
    <3>2. QED
      BY <3>1, <2>2, <2>3, <2>4, <1>2, Saldo
  <2>6. QED
    BY <2>2, <2>5 DEF CuentaReady
<1>7. ColaElegida'
  BY <1>1, <1>5 DEF Cuentas, ColaElegida, Avisar
<1>8. QED
  BY <1>3, <1>4, <1>5, <1>6, <1>7 DEF IInv, SinColaVacia, Avisar, entorno

LEMMA PasarAReadyIInv ==
    ASSUME IInv, NEW h \in Pasadores, PasarAReady(h)
    PROVE  IInv'
<1>1. CASE PushReady(h)
  BY <1>1, PushReadyIInv
<1>2. CASE LimpiarBanderas(h)
  BY <1>2, LimpiarIInv
<1>3. CASE UsoTrasLiberar(h)
  BY <1>3, FallarIInv DEF UsoTrasLiberar
<1>4. CASE Avisar(h, "post_ready", "procesos_ready", TrasReady(h))
  BY <1>4, PostReadyIInv
<1>5. QED
  BY <1>1, <1>2, <1>3, <1>4 DEF PasarAReady

-----------------------------------------------------------------------------
(* Each account looks at a few lines of two threads only. *)

LEMMA CuentasSalvo ==
    ASSUME TypeOK, Cuentas, NEW h \in Hilos, NEW l \in Lugares(h), Ir(h, l)
    PROVE  /\ ({pc[h], l} \cap {"post_new", "espera_grado", "sacar_new"} = {}
               /\ cola'["new"] = cola["new"] /\ sem'["procesos_new"] = sem["procesos_new"])
                => CuentaNew'
           /\ ({pc[h], l} \cap {"resp_liberar", "sacar_exit"} = {}
               /\ cola'["exit"] = cola["exit"]
               /\ sem'["procesos_finalizados"] = sem["procesos_finalizados"])
                => CuentaExit'
           /\ ({pc[h], l} \cap {"sacar"} = {} /\ UNCHANGED dispositivos)
                => CuentaDispositivos'
           /\ ({pc[h], l} \cap {"limpiar", "post_ready", "mirar_rr", "sacar_rr",
                                "sacar_fifo"} = {}
               /\ cola'["rr"] = cola["rr"] /\ cola'["fifo"] = cola["fifo"]
               /\ sem'["procesos_ready"] = sem["procesos_ready"])
                => CuentaReady' /\ ColaElegida'
<1>1. /\ pc'[h] = l
      /\ \A k \in Hilos : k # h => pc'[k] = pc[k]
  BY IrTipo
<1>2. ASSUME NEW S, {pc[h], l} \cap S = {}
      PROVE  \A k \in Hilos, c \in S : pc'[k] = c <=> pc[k] = c
  BY <1>1, <1>2
<1>3. ASSUME {pc[h], l} \cap {"post_new", "espera_grado", "sacar_new"} = {},
             cola'["new"] = cola["new"], sem'["procesos_new"] = sem["procesos_new"]
      PROVE  CuentaNew'
  <2>1. \A k \in Hilos, c \in {"post_new", "espera_grado", "sacar_new"} :
            pc'[k] = c <=> pc[k] = c
    BY <1>2, <1>3
  <2>2. QED
    BY <2>1, <1>3, HilosFijos DEF Cuentas, CuentaNew, Uno
<1>4. ASSUME {pc[h], l} \cap {"resp_liberar", "sacar_exit"} = {},
             cola'["exit"] = cola["exit"],
             sem'["procesos_finalizados"] = sem["procesos_finalizados"]
      PROVE  CuentaExit'
  <2>1. \A k \in Hilos, c \in {"resp_liberar", "sacar_exit"} : pc'[k] = c <=> pc[k] = c
    BY <1>2, <1>4
  <2>2. QED
    BY <2>1, <1>4, HilosFijos DEF Cuentas, CuentaExit, Uno
<1>5. ASSUME {pc[h], l} \cap {"sacar"} = {}, UNCHANGED dispositivos
      PROVE  CuentaDispositivos'
  <2>1. \A k \in Hilos : pc'[k] = "sacar" <=> pc[k] = "sacar"
    BY <1>2, <1>5
  <2>2. QED
    BY <2>1, <1>5, HilosPorIndice DEF Cuentas, CuentaDispositivos, Uno, dispositivos
<1>6. ASSUME {pc[h], l} \cap {"limpiar", "post_ready", "mirar_rr", "sacar_rr",
                              "sacar_fifo"} = {},
             cola'["rr"] = cola["rr"], cola'["fifo"] = cola["fifo"],
             sem'["procesos_ready"] = sem["procesos_ready"]
      PROVE  CuentaReady' /\ ColaElegida'
  <2>1. \A k \in Hilos, c \in {"limpiar", "post_ready", "mirar_rr", "sacar_rr",
                               "sacar_fifo"} : pc'[k] = c <=> pc[k] = c
    BY <1>2, <1>6
  <2>2. Publicando' = Publicando
    BY <2>1 DEF Publicando
  <2>3. QED
    BY <2>1, <2>2, <1>6, HilosFijos DEF Cuentas, CuentaReady, EnReadys, ColaElegida, Uno
<1>7. QED
  BY <1>3, <1>4, <1>5, <1>6

\* A wait or a post changes one semaphore by one.
LEMMA EsperarDe ==
    ASSUME TypeOK, NEW h \in Hilos, NEW s \in Semaforos, NEW de, NEW a \in Lugares(h),
           Esperar(h, de, s, a)
    PROVE  /\ Ir(h, a) /\ pc[h] = de /\ sem[s] \in Nat
           /\ sem'[s] = sem[s] - 1 /\ \A t \in Semaforos : t # s => sem'[t] = sem[t]
           /\ UNCHANGED <<cola, dispositivos, ptr, cpu, rafagas, falla>>
BY DEF TypeOK, Esperar, En, entorno, procesos

LEMMA AvisarDe ==
    ASSUME TypeOK, NEW h \in Hilos, NEW s \in Semaforos, NEW de, NEW a \in Lugares(h),
           Avisar(h, de, s, a)
    PROVE  /\ Ir(h, a) /\ pc[h] = de /\ sem[s] \in Nat
           /\ sem'[s] = sem[s] + 1 /\ \A t \in Semaforos : t # s => sem'[t] = sem[t]
           /\ UNCHANGED <<cola, dispositivos, ptr, cpu, rafagas, falla>>
BY DEF TypeOK, Avisar, En, entorno, procesos

\* A queue that gains or loses an element.
LEMMA Encolar ==
    ASSUME TypeOK, NEW q \in Colas, NEW r \in Refs,
           cola' = [cola EXCEPT ![q] = Append(@, r)]
    PROVE  /\ cola' \in [Colas -> Seq(Refs)] /\ Len(cola[q]) \in Nat
           /\ Len(cola'[q]) = Len(cola[q]) + 1
           /\ \A c \in Colas : c # q => cola'[c] = cola[c]
<1>1. cola \in [Colas -> Seq(Refs)]
  BY DEF TypeOK
<1>2. Append(cola[q], r) \in Seq(Refs) /\ Len(Append(cola[q], r)) = Len(cola[q]) + 1
  BY <1>1
<1>3. QED
  BY <1>1, <1>2

LEMMA Desencolar ==
    ASSUME TypeOK, NEW q \in Colas, cola[q] # <<>>, cola' = [cola EXCEPT ![q] = Tail(@)]
    PROVE  /\ cola' \in [Colas -> Seq(Refs)] /\ Len(cola[q]) \in Nat
           /\ Len(cola'[q]) = Len(cola[q]) - 1
           /\ Head(cola[q]) \in Refs
           /\ \A c \in Colas : c # q => cola'[c] = cola[c]
<1>1. cola \in [Colas -> Seq(Refs)]
  BY DEF TypeOK
<1>2. /\ Tail(cola[q]) \in Seq(Refs) /\ Len(Tail(cola[q])) = Len(cola[q]) - 1
      /\ Head(cola[q]) \in Refs
  BY <1>1
<1>3. QED
  BY <1>1, <1>2

-----------------------------------------------------------------------------
(* Long term *)

LEMMA AtenderNuevaConsolaIInv ==
    ASSUME IInv, AtenderNuevaConsola
    PROVE  IInv'
<1> DEFINE p == pid_actual + 1
           r == <<p, 0>>
<1>1. /\ TypeOK /\ Cuentas /\ Referencias /\ Conexiones \in Hilos
      /\ "post_new" \in Lugares(Conexiones)
      /\ Ir(Conexiones, "post_new") /\ pc[Conexiones] = "esperar_cliente"
  BY HilosFijos, LugaresDe DEF IInv, Cuentas, AtenderNuevaConsola, En
<1>2. /\ p \in Pids /\ r \in Refs
      /\ cola' = [cola EXCEPT !["new"] = Append(@, r)]
      /\ UNCHANGED sem /\ UNCHANGED dispositivos
  BY <1>1, LimitesAssumption DEF AtenderNuevaConsola, TypeOK, Pids, Refs
<1> HIDE DEF p, r
<1>3. /\ cola' \in [Colas -> Seq(Refs)] /\ Len(cola["new"]) \in Nat
      /\ Len(cola'["new"]) = Len(cola["new"]) + 1
      /\ \A c \in Colas : c # "new" => cola'[c] = cola[c]
  BY <1>1, <1>2, Encolar DEF Colas
<1>4. CuentaExit' /\ CuentaDispositivos' /\ CuentaReady' /\ ColaElegida'
  BY <1>1, <1>2, <1>3, CuentasSalvo DEF Colas
<1>5. CuentaNew'
  <2>1. pc'[Conexiones] = "post_new" /\ pc'[LargoPlazo] = pc[LargoPlazo]
    BY <1>1, IrTipo, HilosFijos
  <2>2. sem["procesos_new"] \in Nat
    BY <1>1 DEF TypeOK, Semaforos
  <2>3. QED
    BY <1>1, <1>2, <1>3, <2>1, <2>2 DEF Cuentas, CuentaNew, Uno
<1>6. TypeOK'
  <2>1. PcbNuevo \in Pcb
    BY DEF PcbNuevo, Pcb
  <2>2. pid_actual' \in 0..MaxPid /\ pcb' \in [Pids -> Pcb]
        /\ vida' \in [Pids -> {"sin_crear", "viva", "en_cpu", "destruida"}]
        /\ consola' \in [Pids -> {"sin_conectar", "esperando", "finalizada"}]
    BY <1>1, <1>2, <2>1, LimitesAssumption DEF AtenderNuevaConsola, TypeOK, Pids, p
  <2>3. QED
    BY <1>1, <1>3, <2>2, IrTipo DEF AtenderNuevaConsola, TypeOK, dispositivos, memoria
<1>7. Referencias'
  BY <1>1, HilosFijos, ReferenciasQuietas DEF AtenderNuevaConsola
<1>8. QED
  BY <1>4, <1>5, <1>6, <1>7 DEF IInv, SinColaVacia, AtenderNuevaConsola

LEMMA AvisarNewIInv ==
    ASSUME IInv, AvisarNew
    PROVE  IInv'
<1>1. /\ TypeOK /\ Cuentas /\ Referencias /\ Conexiones \in Hilos
      /\ "esperar_cliente" \in Lugares(Conexiones) /\ "procesos_new" \in Semaforos
      /\ Avisar(Conexiones, "post_new", "procesos_new", "esperar_cliente")
  BY HilosFijos, LugaresDe DEF IInv, Cuentas, AvisarNew, Semaforos
<1>2. /\ Ir(Conexiones, "esperar_cliente") /\ pc[Conexiones] = "post_new"
      /\ sem["procesos_new"] \in Nat /\ sem'["procesos_new"] = sem["procesos_new"] + 1
      /\ \A t \in Semaforos : t # "procesos_new" => sem'[t] = sem[t]
      /\ UNCHANGED <<cola, dispositivos, ptr, cpu, rafagas, falla>>
  BY <1>1, AvisarDe
<1>3. CuentaExit' /\ CuentaDispositivos' /\ CuentaReady' /\ ColaElegida'
  BY <1>1, <1>2, CuentasSalvo DEF Semaforos
<1>4. CuentaNew'
  <2>1. pc'[Conexiones] = "esperar_cliente" /\ pc'[LargoPlazo] = pc[LargoPlazo]
    BY <1>1, <1>2, IrTipo, HilosFijos
  <2>2. QED
    BY <1>1, <1>2, <2>1 DEF Cuentas, CuentaNew, Uno
<1>5. TypeOK' /\ Referencias'
  BY <1>1, <1>2, AvisarTipo, ReferenciasQuietas
<1>6. QED
  BY <1>2, <1>3, <1>4, <1>5 DEF IInv, SinColaVacia

LEMMA EsperarNewIInv ==
    ASSUME IInv, EsperarNew
    PROVE  IInv'
<1>1. /\ TypeOK /\ Cuentas /\ Referencias /\ LargoPlazo \in Hilos
      /\ "espera_grado" \in Lugares(LargoPlazo) /\ "procesos_new" \in Semaforos
      /\ Esperar(LargoPlazo, "espera_new", "procesos_new", "espera_grado")
  BY HilosFijos, LugaresDe DEF IInv, Cuentas, EsperarNew, Semaforos
<1>2. /\ Ir(LargoPlazo, "espera_grado") /\ pc[LargoPlazo] = "espera_new"
      /\ sem["procesos_new"] \in Nat /\ sem'["procesos_new"] = sem["procesos_new"] - 1
      /\ \A t \in Semaforos : t # "procesos_new" => sem'[t] = sem[t]
      /\ UNCHANGED <<cola, dispositivos, ptr, cpu, rafagas, falla>>
  BY <1>1, EsperarDe
<1>3. CuentaExit' /\ CuentaDispositivos' /\ CuentaReady' /\ ColaElegida'
  BY <1>1, <1>2, CuentasSalvo DEF Semaforos
<1>4. CuentaNew'
  <2>1. pc'[LargoPlazo] = "espera_grado" /\ pc'[Conexiones] = pc[Conexiones]
    BY <1>1, <1>2, IrTipo, HilosFijos
  <2>2. QED
    BY <1>1, <1>2, <2>1 DEF Cuentas, CuentaNew, Uno
<1>5. TypeOK' /\ Referencias'
  BY <1>1, <1>2, EsperarTipo, ReferenciasQuietas
<1>6. QED
  BY <1>2, <1>3, <1>4, <1>5 DEF IInv, SinColaVacia

LEMMA EsperarGradoIInv ==
    ASSUME IInv, EsperarGrado
    PROVE  IInv'
<1>1. /\ TypeOK /\ Cuentas /\ Referencias /\ LargoPlazo \in Hilos
      /\ "sacar_new" \in Lugares(LargoPlazo) /\ "multiprogramacion" \in Semaforos
      /\ Esperar(LargoPlazo, "espera_grado", "multiprogramacion", "sacar_new")
  BY HilosFijos, LugaresDe DEF IInv, Cuentas, EsperarGrado, Semaforos
<1>2. /\ Ir(LargoPlazo, "sacar_new") /\ pc[LargoPlazo] = "espera_grado"
      /\ \A t \in Semaforos : t # "multiprogramacion" => sem'[t] = sem[t]
      /\ UNCHANGED <<cola, dispositivos, ptr, cpu, rafagas, falla>>
  BY <1>1, EsperarDe
<1>3. CuentaExit' /\ CuentaDispositivos' /\ CuentaReady' /\ ColaElegida'
  BY <1>1, <1>2, CuentasSalvo DEF Semaforos
<1>4. CuentaNew'
  <2>1. pc'[LargoPlazo] = "sacar_new" /\ pc'[Conexiones] = pc[Conexiones]
    BY <1>1, <1>2, IrTipo, HilosFijos
  <2>2. QED
    BY <1>1, <1>2, <2>1 DEF Cuentas, CuentaNew, Uno, Semaforos
<1>5. TypeOK' /\ Referencias'
  BY <1>1, <1>2, EsperarTipo, ReferenciasQuietas
<1>6. QED
  BY <1>2, <1>3, <1>4, <1>5 DEF IInv, SinColaVacia

\* A thread that is about to pop finds an element: PopIndebido is only reached
\* through a freed PCB.
LEMMA SacarNewIInv ==
    ASSUME IInv, SacarNew
    PROVE  IInv'
<1>1. /\ TypeOK /\ Cuentas /\ Referencias /\ LargoPlazo \in Hilos
      /\ "pedir" \in Lugares(LargoPlazo) /\ pc[LargoPlazo] = "sacar_new"
  BY HilosFijos, LugaresDe DEF IInv, Cuentas, SacarNew, En
<1>2. cola["new"] # <<>>
  <2>1. sem["procesos_new"] \in Nat /\ Uno(pc[Conexiones] = "post_new") \in Nat
    BY <1>1 DEF TypeOK, Semaforos, Uno
  <2>2. Len(cola["new"]) > 0
    BY <1>1, <2>1 DEF Cuentas, CuentaNew, Uno
  <2>3. QED
    BY <2>2
<1>3. CASE PopIndebido(cola["new"])
  BY <1>2, <1>3, FallarIInv DEF PopIndebido
<1>4. CASE ~PopIndebido(cola["new"])
  <2>1. /\ PopPosible(cola["new"]) /\ Ir(LargoPlazo, "pedir")
        /\ ptr' = [ptr EXCEPT ![LargoPlazo] = Head(cola["new"])]
        /\ cola' = [cola EXCEPT !["new"] = Tail(@)]
        /\ UNCHANGED <<sem, dispositivos, procesos, memoria, entorno>>
    BY <1>4 DEF SacarNew
  <2>2. /\ cola' \in [Colas -> Seq(Refs)] /\ Len(cola["new"]) \in Nat
        /\ Len(cola'["new"]) = Len(cola["new"]) - 1
        /\ Head(cola["new"]) \in Refs
        /\ \A c \in Colas : c # "new" => cola'[c] = cola[c]
    BY <1>1, <1>2, <2>1, Desencolar DEF Colas
  <2>3. CuentaExit' /\ CuentaDispositivos' /\ CuentaReady' /\ ColaElegida'
    BY <1>1, <2>1, <2>2, CuentasSalvo DEF Colas
  <2>4. CuentaNew'
    <3>1. pc'[LargoPlazo] = "pedir" /\ pc'[Conexiones] = pc[Conexiones]
      BY <1>1, <2>1, IrTipo, HilosFijos
    <3>2. sem["procesos_new"] \in Nat
      BY <1>1 DEF TypeOK, Semaforos
    <3>3. QED
      BY <1>1, <2>1, <2>2, <3>1, <3>2 DEF Cuentas, CuentaNew, Uno
  <2>5. TypeOK'
    BY <1>1, <2>1, <2>2, IrTipo DEF TypeOK, dispositivos, procesos, memoria, entorno
  <2>6. Referencias'
    <3>1. ptr'[LargoPlazo] \in Refs /\ ptr'[CortoPlazo] = ptr[CortoPlazo]
      BY <1>1, <2>1, <2>2, HilosFijos DEF TypeOK
    <3>2. QED
      BY <1>1, <2>1, <3>1, HilosFijos, ReferenciasDeHilos DEF Referencias, procesos, entorno
  <2>7. QED
    BY <2>1, <2>3, <2>4, <2>5, <2>6 DEF IInv, SinColaVacia, entorno
<1>5. QED
  BY <1>3, <1>4

LEMMA RecibirEstructurasIInv ==
    ASSUME IInv, RecibirEstructuras
    PROVE  IInv'
<1>1. /\ LargoPlazo \in Hilos /\ {"resp_indices", "muerto"} \subseteq Lugares(LargoPlazo)
      /\ pc[LargoPlazo] = "resp" /\ respuestas # <<>>
      /\ conexion_memoria_mutex \in {"libre", "largo_plazo", "page_fault"}
  BY HilosFijos, LugaresDe DEF RecibirEstructuras, En, IInv, TypeOK
<1>2. CASE Recibir(LargoPlazo, "resp_indices", conexion_memoria_mutex)
  BY <1>1, <1>2, RecibirIInv DEF Contados
<1>3. CASE Recibir(LargoPlazo, "muerto", "libre")
  BY <1>1, <1>3, RecibirIInv DEF Contados
<1>4. CASE TramaCortada
  BY <1>4, FallarIInv DEF TramaCortada
<1>5. QED
  BY <1>2, <1>3, <1>4 DEF RecibirEstructuras

LEMMA RecibirIndicesIInv ==
    ASSUME IInv, RecibirIndices
    PROVE  IInv'
<1>1. /\ LargoPlazo \in Hilos /\ "push_ready" \in Lugares(LargoPlazo)
      /\ pc[LargoPlazo] = "resp_indices" /\ respuestas # <<>>
  BY HilosFijos, LugaresDe DEF RecibirIndices, En
<1>2. CASE Recibir(LargoPlazo, "push_ready", "libre")
  BY <1>1, <1>2, RecibirIInv DEF Contados
<1>3. CASE Fallar("trama_cortada")
  BY <1>3, FallarIInv
<1>4. QED
  BY <1>2, <1>3 DEF RecibirIndices

LEMMA NewAReadyIInv ==
    ASSUME IInv, NewAReady
    PROVE  IInv'
<1>1. CASE Pedir(LargoPlazo, "ESTRUCTURAS")
  <2>1. ptr[LargoPlazo] \in Refs
    BY <1>1 DEF IInv, Referencias, Pedir, En
  <2>2. QED
    BY <1>1, <2>1, PedirIInv
<1>2. CASE PasarAReady(LargoPlazo)
  BY <1>2, PasarAReadyIInv DEF Pasadores
<1>3. QED
  BY <1>1, <1>2, EsperarNewIInv, EsperarGradoIInv, SacarNewIInv, RecibirEstructurasIInv,
     RecibirIndicesIInv DEF NewAReady

LEMMA EsperarFinalizadosIInv ==
    ASSUME IInv, EsperarFinalizados
    PROVE  IInv'
<1>1. /\ TypeOK /\ Cuentas /\ Referencias /\ Rajar \in Hilos
      /\ "sacar_exit" \in Lugares(Rajar) /\ "procesos_finalizados" \in Semaforos
      /\ Esperar(Rajar, "espera_finalizados", "procesos_finalizados", "sacar_exit")
  BY HilosFijos, LugaresDe DEF IInv, Cuentas, EsperarFinalizados, Semaforos
<1>2. /\ Ir(Rajar, "sacar_exit") /\ pc[Rajar] = "espera_finalizados"
      /\ sem["procesos_finalizados"] \in Nat
      /\ sem'["procesos_finalizados"] = sem["procesos_finalizados"] - 1
      /\ \A t \in Semaforos : t # "procesos_finalizados" => sem'[t] = sem[t]
      /\ UNCHANGED <<cola, dispositivos, ptr, cpu, rafagas, falla>>
  BY <1>1, EsperarDe
<1>3. CuentaNew' /\ CuentaDispositivos' /\ CuentaReady' /\ ColaElegida'
  BY <1>1, <1>2, CuentasSalvo DEF Semaforos
<1>4. CuentaExit'
  <2>1. pc'[Rajar] = "sacar_exit" /\ pc'[CortoPlazo] = pc[CortoPlazo]
    BY <1>1, <1>2, IrTipo, HilosFijos
  <2>2. QED
    BY <1>1, <1>2, <2>1 DEF Cuentas, CuentaExit, Uno
<1>5. TypeOK' /\ Referencias'
  BY <1>1, <1>2, HilosFijos, EsperarTipo, ReferenciasQuietas
<1>6. QED
  BY <1>2, <1>3, <1>4, <1>5 DEF IInv, SinColaVacia

LEMMA SacarExitIInv ==
    ASSUME IInv, SacarExit
    PROVE  IInv'
<1>1. /\ TypeOK /\ Cuentas /\ Referencias /\ Rajar \in Hilos
      /\ "post_grado" \in Lugares(Rajar) /\ pc[Rajar] = "sacar_exit"
  BY HilosFijos, LugaresDe DEF IInv, Cuentas, SacarExit, En
<1>2. cola["exit"] # <<>>
  <2>1. sem["procesos_finalizados"] \in Nat /\ Uno(pc[CortoPlazo] = "resp_liberar") \in Nat
    BY <1>1 DEF TypeOK, Semaforos, Uno
  <2>2. Len(cola["exit"]) > 0
    BY <1>1, <2>1 DEF Cuentas, CuentaExit, Uno
  <2>3. QED
    BY <2>2
<1>3. CASE PopIndebido(cola["exit"])
  BY <1>2, <1>3, FallarIInv DEF PopIndebido
<1>4. CASE ~PopIndebido(cola["exit"])
  <2>1. /\ PopPosible(cola["exit"]) /\ Ir(Rajar, "post_grado")
        /\ vida' = [vida EXCEPT ![Head(cola["exit"])[1]] = "destruida"]
        /\ cola' = [cola EXCEPT !["exit"] = Tail(@)]
        /\ UNCHANGED <<sem, dispositivos, pid_actual, pcb, rafagas, ptr, memoria, entorno>>
    BY <1>4 DEF SacarExit
  <2>2. /\ cola' \in [Colas -> Seq(Refs)] /\ Len(cola["exit"]) \in Nat
        /\ Len(cola'["exit"]) = Len(cola["exit"]) - 1
        /\ \A c \in Colas : c # "exit" => cola'[c] = cola[c]
    BY <1>1, <1>2, <2>1, Desencolar DEF Colas
  <2>3. CuentaNew' /\ CuentaDispositivos' /\ CuentaReady' /\ ColaElegida'
    BY <1>1, <2>1, <2>2, CuentasSalvo DEF Colas
  <2>4. CuentaExit'
    <3>1. pc'[Rajar] = "post_grado" /\ pc'[CortoPlazo] = pc[CortoPlazo]
      BY <1>1, <2>1, IrTipo, HilosFijos
    <3>2. sem["procesos_finalizados"] \in Nat
      BY <1>1 DEF TypeOK, Semaforos
    <3>3. QED
      BY <1>1, <2>1, <2>2, <3>1, <3>2 DEF Cuentas, CuentaExit, Uno
  <2>5. TypeOK'
    BY <1>1, <2>1, <2>2, IrTipo DEF TypeOK, dispositivos, memoria, entorno
  <2>6. Referencias'
    BY <1>1, <2>1, HilosFijos, ReferenciasQuietas DEF entorno
  <2>7. QED
    BY <2>1, <2>3, <2>4, <2>5, <2>6 DEF IInv, SinColaVacia, entorno
<1>5. QED
  BY <1>3, <1>4

LEMMA RajarPcbIInv ==
    ASSUME IInv, RajarPcb
    PROVE  IInv'
<1>1. CASE AvisarGrado
  <2>1. /\ TypeOK /\ Cuentas /\ Referencias /\ Rajar \in Hilos
        /\ "espera_finalizados" \in Lugares(Rajar) /\ "multiprogramacion" \in Semaforos
        /\ Avisar(Rajar, "post_grado", "multiprogramacion", "espera_finalizados")
    BY <1>1, HilosFijos, LugaresDe DEF IInv, Cuentas, AvisarGrado, Semaforos
  <2>2. /\ Ir(Rajar, "espera_finalizados") /\ pc[Rajar] = "post_grado"
        /\ \A t \in Semaforos : t # "multiprogramacion" => sem'[t] = sem[t]
        /\ UNCHANGED <<cola, dispositivos, ptr, cpu, rafagas, falla>>
    BY <2>1, AvisarDe
  <2>3. CuentaNew' /\ CuentaExit' /\ CuentaDispositivos' /\ CuentaReady' /\ ColaElegida'
    BY <2>1, <2>2, CuentasSalvo DEF Semaforos
  <2>4. TypeOK' /\ Referencias'
    BY <2>1, <2>2, HilosFijos, AvisarTipo, ReferenciasQuietas
  <2>5. QED
    BY <2>2, <2>3, <2>4 DEF IInv, SinColaVacia
<1>2. QED
  BY <1>1, EsperarFinalizadosIInv, SacarExitIInv DEF RajarPcb

-----------------------------------------------------------------------------
(* Short term *)

LEMMA EsperarReadyIInv ==
    ASSUME IInv, EsperarReady
    PROVE  IInv'
<1>1. /\ TypeOK /\ Cuentas /\ Referencias /\ CortoPlazo \in Hilos
      /\ "mirar_rr" \in Lugares(CortoPlazo) /\ "procesos_ready" \in Semaforos
      /\ Esperar(CortoPlazo, "espera_ready", "procesos_ready", "mirar_rr")
  BY HilosFijos, LugaresDe DEF IInv, Cuentas, EsperarReady, Semaforos
<1>2. /\ Ir(CortoPlazo, "mirar_rr") /\ pc[CortoPlazo] = "espera_ready"
      /\ sem["procesos_ready"] \in Nat
      /\ sem'["procesos_ready"] = sem["procesos_ready"] - 1
      /\ \A t \in Semaforos : t # "procesos_ready" => sem'[t] = sem[t]
      /\ UNCHANGED <<cola, dispositivos, ptr, cpu, rafagas, falla>>
  BY <1>1, EsperarDe
<1>3. CuentaNew' /\ CuentaExit' /\ CuentaDispositivos'
  BY <1>1, <1>2, CuentasSalvo DEF Semaforos
<1>4. pc'[CortoPlazo] = "mirar_rr"
  BY <1>1, <1>2, IrTipo
<1>5. CuentaReady'
  <2>1. Publicando' = Publicando
    BY <1>1, <1>2, IrPublicando
  <2>2. IsFiniteSet(Publicando) /\ Cardinality(Publicando) \in Nat
    BY <1>1, FS_CardinalityType DEF Cuentas, CuentaReady
  <2>3. EnReadys' = EnReadys /\ EnReadys = sem["procesos_ready"] + Cardinality(Publicando) + 0
    BY <1>1, <1>2 DEF EnReadys, Cuentas, CuentaReady, Uno
  <2>4. EnReadys' = sem'["procesos_ready"] + Cardinality(Publicando') + 1
    BY <1>2, <2>1, <2>2, <2>3
  <2>5. QED
    BY <1>4, <2>1, <2>2, <2>4 DEF CuentaReady, Uno
<1>6. ColaElegida'
  BY <1>1, <1>2, <1>4 DEF Cuentas, ColaElegida
<1>7. TypeOK' /\ Referencias'
  BY <1>1, <1>2, HilosFijos, EsperarTipo, ReferenciasQuietas
<1>8. QED
  BY <1>2, <1>3, <1>5, <1>6, <1>7 DEF IInv, SinColaVacia

\* The unit the dispatcher took stands for an element of one of the queues, and
\* the look at the RR queue tells which.
LEMMA MirarRRIInv ==
    ASSUME IInv, MirarRR
    PROVE  IInv'
<1> PICK l \in {"sacar_rr", "sacar_fifo"} :
        l = "sacar_rr" <=> Algoritmo = "RR" \/ (Algoritmo = "FEEDBACK" /\ cola["rr"] # <<>>)
  OBVIOUS
<1>1. /\ TypeOK /\ Cuentas /\ Referencias /\ CortoPlazo \in Hilos
      /\ l \in Lugares(CortoPlazo) /\ pc[CortoPlazo] = "mirar_rr"
      /\ Seguir(CortoPlazo, l)
  BY HilosFijos, LugaresDe DEF IInv, Cuentas, MirarRR, En
<1>2. /\ Ir(CortoPlazo, l) /\ UNCHANGED <<cola, sem, dispositivos>>
      /\ UNCHANGED <<ptr, cpu, rafagas, falla>>
  BY <1>1 DEF Seguir, procesos, entorno
<1>3. CuentaNew' /\ CuentaExit' /\ CuentaDispositivos'
  BY <1>1, <1>2, CuentasSalvo
<1>4. pc'[CortoPlazo] = l
  BY <1>1, <1>2, IrTipo
<1>5. CuentaReady'
  <2>1. Publicando' = Publicando
    BY <1>1, <1>2, IrPublicando
  <2>2. QED
    BY <1>1, <1>2, <1>4, <2>1 DEF Cuentas, CuentaReady, EnReadys, Uno
<1>6. cola["rr"] # <<>> \/ cola["fifo"] # <<>>
  <2>1. sem["procesos_ready"] \in Nat /\ Cardinality(Publicando) \in Nat
    BY <1>1, FS_CardinalityType DEF Cuentas, CuentaReady, TypeOK, Semaforos
  <2>2. EnReadys = sem["procesos_ready"] + Cardinality(Publicando) + 1
    BY <1>1 DEF Cuentas, CuentaReady, Uno
  <2>3. EnReadys # 0
    BY <2>1, <2>2
  <2>4. cola["rr"] = <<>> /\ cola["fifo"] = <<>> => EnReadys = Len(<<>>) + Len(<<>>)
    BY Zenon DEF EnReadys
  <2>5. QED
    BY <2>3, <2>4
<1>7. ColaElegida'
  BY <1>1, <1>2, <1>4, <1>6, AlgoritmoAssumption DEF Cuentas, ColaElegida
<1>8. TypeOK' /\ Referencias'
  BY <1>1, <1>2, HilosFijos, SeguirTipo, ReferenciasQuietas
<1>9. QED
  BY <1>2, <1>3, <1>5, <1>7, <1>8 DEF IInv, SinColaVacia

LEMMA SacarReadyIInv ==
    ASSUME IInv, NEW q \in {"rr", "fifo"}, NEW l,
           l = IF q = "rr" THEN "sacar_rr" ELSE "sacar_fifo", SacarReady(l, q)
    PROVE  IInv'
<1>1. /\ TypeOK /\ Cuentas /\ Referencias /\ CortoPlazo \in Hilos /\ q \in Colas
      /\ "enviar" \in Lugares(CortoPlazo) /\ pc[CortoPlazo] = l
  BY HilosFijos, LugaresDe DEF IInv, Cuentas, SacarReady, En, Colas
<1>2. cola[q] # <<>>
  BY <1>1 DEF Cuentas, ColaElegida
<1>3. CASE PopIndebido(cola[q])
  BY <1>2, <1>3, FallarIInv DEF PopIndebido
<1>4. CASE ~PopIndebido(cola[q])
  <2>1. /\ PopPosible(cola[q]) /\ Ir(CortoPlazo, "enviar")
        /\ ptr' = [ptr EXCEPT ![CortoPlazo] = Head(cola[q])]
        /\ cola' = [cola EXCEPT ![q] = Tail(@)]
        /\ pcb' = [pcb EXCEPT ![Head(cola[q])[1]].estado = "EXEC"]
        /\ UNCHANGED <<sem, dispositivos, pid_actual, vida, rafagas, memoria, entorno>>
    BY <1>4 DEF SacarReady
  <2>2. /\ cola' \in [Colas -> Seq(Refs)] /\ Len(cola[q]) \in Nat
        /\ Len(cola'[q]) = Len(cola[q]) - 1
        /\ Head(cola[q]) \in Refs
        /\ \A c \in Colas : c # q => cola'[c] = cola[c]
    BY <1>1, <1>2, <2>1, Desencolar
  <2>3. CuentaNew' /\ CuentaExit' /\ CuentaDispositivos'
    BY <1>1, <2>1, <2>2, CuentasSalvo DEF Colas
  <2>4. pc'[CortoPlazo] = "enviar"
    BY <1>1, <2>1, IrTipo
  <2>5. CuentaReady'
    <3>1. Publicando' = Publicando
      BY <1>1, <2>1, IrPublicando
    <3>2. /\ IsFiniteSet(Publicando) /\ Cardinality(Publicando) \in Nat
          /\ sem["procesos_ready"] \in Nat
      BY <1>1, FS_CardinalityType DEF Cuentas, CuentaReady, TypeOK, Semaforos
    <3>3. EnReadys = sem["procesos_ready"] + Cardinality(Publicando) + 1
      BY <1>1 DEF Cuentas, CuentaReady, Uno
    <3>4. EnReadys' = EnReadys - 1
      <4>1. Len(cola["rr"]) \in Nat /\ Len(cola["fifo"]) \in Nat
        BY <1>1 DEF TypeOK, Colas
      <4>2. Len(cola'[q]) = Len(cola[q]) - 1
        BY <2>2
      <4>3. \A c \in {"rr", "fifo"} : c # q => cola'[c] = cola[c]
        BY <2>2 DEF Colas
      <4>4. QED
        BY <4>1, <4>2, <4>3, EnReadysCambia
    <3>5. EnReadys' = sem'["procesos_ready"] + Cardinality(Publicando') + 0
      BY <2>1, <3>1, <3>2, <3>3, <3>4
    <3>6. QED
      BY <2>4, <3>1, <3>2, <3>5 DEF CuentaReady, Uno
  <2>6. ColaElegida'
    BY <1>1, <1>2, <2>2, <2>4 DEF Cuentas, ColaElegida, Colas
  <2>7. TypeOK'
    <3>1. Head(cola[q])[1] \in Pids
      BY <2>2 DEF Refs
    <3>2. pcb' \in [Pids -> Pcb]
      BY <1>1, <2>1, <3>1, PcbExcept DEF TypeOK
    <3>3. QED
      BY <1>1, <2>1, <2>2, <3>2, IrTipo DEF TypeOK, dispositivos, memoria, entorno
  <2>8. Referencias'
    <3>1. /\ pc'[LargoPlazo] = pc[LargoPlazo] /\ ptr'[LargoPlazo] = ptr[LargoPlazo]
          /\ UNCHANGED <<cpu, rafagas>>
      BY <1>1, <2>1, IrTipo, HilosFijos DEF TypeOK, entorno
    <3>2. QED
      BY <1>1, <2>1, <3>1, ReferenciasDeHilos DEF Referencias
  <2>9. QED
    BY <2>1, <2>3, <2>5, <2>6, <2>7, <2>8 DEF IInv, SinColaVacia, entorno
<1>5. QED
  BY <1>3, <1>4

LEMMA EnviarPcbIInv ==
    ASSUME IInv, EnviarPcb
    PROVE  IInv'
<1>1. /\ TypeOK /\ Cuentas /\ Referencias /\ CortoPlazo \in Hilos
      /\ "destruir" \in Lugares(CortoPlazo) /\ pc[CortoPlazo] = "enviar"
  BY HilosFijos, LugaresDe DEF IInv, Cuentas, EnviarPcb, En
<1>2. CASE UsoTrasLiberar(CortoPlazo)
  BY <1>2, FallarIInv DEF UsoTrasLiberar
<1>3. CASE ~UsoTrasLiberar(CortoPlazo)
  <2>1. /\ Valido(ptr[CortoPlazo]) /\ Ir(CortoPlazo, "destruir")
        /\ cpu' = [fase |-> "ejecutando", pid |-> ptr[CortoPlazo][1],
                   pcb |-> pcb[ptr[CortoPlazo][1]]]
        /\ UNCHANGED <<cola, sem, dispositivos, procesos, ptr, memoria, consola, falla>>
    BY <1>3 DEF EnviarPcb
  <2>2. ptr[CortoPlazo][1] \in Pids
    BY <1>1, <2>1, ValidoRef
  <2>3. CuentaNew' /\ CuentaExit' /\ CuentaDispositivos' /\ CuentaReady' /\ ColaElegida'
    BY <1>1, <2>1, CuentasSalvo
  <2>4. TypeOK'
    <3>1. cpu' \in [fase : {"libre", "ejecutando", "lista"}, pid : 0..MaxPid, pcb : Pcb]
      BY <1>1, <2>1, <2>2, LimitesAssumption DEF TypeOK, Pids
    <3>2. QED
      BY <1>1, <2>1, <3>1, IrTipo DEF TypeOK, dispositivos, procesos, memoria
  <2>5. Referencias'
    <3>1. /\ pc'[LargoPlazo] = pc[LargoPlazo] /\ UNCHANGED <<ptr, rafagas>>
          /\ cpu'.fase = "ejecutando" /\ cpu'.pid \in Pids
      BY <1>1, <2>1, <2>2, IrTipo, HilosFijos DEF procesos
    <3>2. QED
      BY <1>1, <2>1, <3>1, ReferenciasDeHilos DEF Referencias
  <2>6. QED
    BY <2>1, <2>3, <2>4, <2>5 DEF IInv, SinColaVacia
<1>4. QED
  BY <1>2, <1>3

LEMMA DestruirPcbIInv ==
    ASSUME IInv, DestruirPcb
    PROVE  IInv'
<1>1. /\ TypeOK /\ Cuentas /\ Referencias /\ CortoPlazo \in Hilos
      /\ "recibir" \in Lugares(CortoPlazo) /\ pc[CortoPlazo] = "destruir"
  BY HilosFijos, LugaresDe DEF IInv, Cuentas, DestruirPcb, En
<1>2. CASE UsoTrasLiberar(CortoPlazo)
  BY <1>2, FallarIInv DEF UsoTrasLiberar
<1>3. CASE ~UsoTrasLiberar(CortoPlazo)
  <2>1. /\ Ir(CortoPlazo, "recibir")
        /\ vida' = [vida EXCEPT ![ptr[CortoPlazo][1]] = "en_cpu"]
        /\ UNCHANGED <<cola, sem, dispositivos, pid_actual, pcb, rafagas, ptr, memoria,
                       entorno>>
    BY <1>3 DEF DestruirPcb
  <2>2. CuentaNew' /\ CuentaExit' /\ CuentaDispositivos' /\ CuentaReady' /\ ColaElegida'
    BY <1>1, <2>1, CuentasSalvo
  <2>3. TypeOK'
    BY <1>1, <2>1, IrTipo DEF TypeOK, dispositivos, memoria, entorno
  <2>4. Referencias'
    BY <1>1, <2>1, HilosFijos, ReferenciasQuietas DEF entorno
  <2>5. QED
    BY <2>1, <2>2, <2>3, <2>4 DEF IInv, SinColaVacia, entorno
<1>4. QED
  BY <1>2, <1>3

\* A step that moves two threads at once, the second one just created.
LEMMA DosHilos ==
    ASSUME TypeOK, Cuentas, NEW h \in Hilos, NEW k \in DePageFault \cup DeConsola,
           NEW l \in Lugares(h), NEW m \in Lugares(k), h # k,
           pc' = [pc EXCEPT ![h] = l, ![k] = m],
           pc[h] \notin Contados, pc[k] = "no_creado",
           l \notin Contados, m \notin Contados, UNCHANGED <<cola, dispositivos>>,
           \A s \in {"procesos_new", "procesos_finalizados", "procesos_ready"} :
                sem'[s] = sem[s]
    PROVE  /\ pc' \in [Hilos -> Lineas]
           /\ \A j \in Hilos : pc'[j] \in Lugares(j)
           /\ pc'[h] = l /\ pc'[k] = m
           /\ \A j \in Hilos : j # h /\ j # k => pc'[j] = pc[j]
           /\ Cuentas'
<1>1. k \in Hilos /\ l \in Lineas /\ m \in Lineas
  BY DEF Hilos, Lineas
<1>2. /\ pc' \in [Hilos -> Lineas]
      /\ \A j \in Hilos : pc'[j] \in Lugares(j)
      /\ pc'[h] = l /\ pc'[k] = m
      /\ \A j \in Hilos : j # h /\ j # k => pc'[j] = pc[j]
  BY <1>1 DEF TypeOK
<1>3. \A j \in Hilos, c \in Contados : pc'[j] = c <=> pc[j] = c
  BY <1>1, <1>2 DEF Contados
<1>4. Publicando' = Publicando
  BY <1>3 DEF Publicando, Contados
<1>5. CuentaNew' /\ CuentaExit'
  <2>1. CuentaNew /\ CuentaExit
    BY DEF Cuentas
  <2>2. /\ cola' = cola /\ sem'["procesos_new"] = sem["procesos_new"]
        /\ sem'["procesos_finalizados"] = sem["procesos_finalizados"]
    OBVIOUS
  <2>3. CuentaNew'
    BY ONLY <1>3, <2>1, <2>2, HilosFijos DEF CuentaNew, Contados
  <2>4. CuentaExit'
    BY ONLY <1>3, <2>1, <2>2, HilosFijos DEF CuentaExit, Contados
  <2> QED BY <2>3, <2>4
<1>6. CuentaDispositivos'
  BY <1>3, HilosPorIndice DEF Cuentas, CuentaDispositivos, Contados, Uno, dispositivos
<1>7. CuentaReady'
  BY <1>3, <1>4, HilosFijos DEF Cuentas, CuentaReady, EnReadys, Contados, Uno
<1>8. ColaElegida'
  BY <1>3, HilosFijos DEF Cuentas, ColaElegida, Contados
<1>9. QED
  BY <1>2, <1>5, <1>6, <1>7, <1>8 DEF Cuentas

LEMMA RecibirPcbIInv ==
    ASSUME IInv, RecibirPcb
    PROVE  IInv'
<1> DEFINE p == cpu.pid
           r == <<p, rafagas[p] + 1>>
           c == cpu.pcb
           d == [c EXCEPT !.interrupcion = FALSE,
                          !.con_desalojo = @ /\ ~c.interrupcion,
                          !.estado = IF c.page_fault THEN "BLOCK" ELSE @]
<1>1. /\ TypeOK /\ Cuentas /\ Referencias /\ CortoPlazo \in Hilos
      /\ "dirigir" \in Lugares(CortoPlazo) /\ pc[CortoPlazo] = "recibir"
  BY HilosFijos, LugaresDe DEF IInv, Cuentas, RecibirPcb, En
<1>2. /\ p \in Pids /\ rafagas[p] \in 0..MaxRafagas /\ rafagas[p] + 1 \in 0..MaxRafagas
      /\ r \in Refs
  BY <1>1, LimitesAssumption DEF RecibirPcb, Referencias, TypeOK, Refs
<1>3. c \in Pcb /\ d \in Pcb /\ cpu \in [fase : {"libre", "ejecutando", "lista"},
                                         pid : 0..MaxPid, pcb : Pcb]
  BY <1>1 DEF TypeOK, Pcb
<1>4. /\ rafagas' = [rafagas EXCEPT ![p] = rafagas[p] + 1]
      /\ vida' = [vida EXCEPT ![p] = "viva"]
      /\ ptr' = [ptr EXCEPT ![CortoPlazo] = r]
      /\ cpu' = [cpu EXCEPT !.fase = "libre"]
      /\ pcb' = [pcb EXCEPT ![p] = d]
      /\ UNCHANGED <<cola, dispositivos, pid_actual, memoria, consola, falla>>
  BY DEF RecibirPcb
<1>5. /\ r[1] = p /\ r[2] = rafagas[p] + 1
      /\ pc[PF(r)] = "no_creado" /\ pc[IO(r)] = "no_creado"
  BY <1>1, <1>2 DEF Referencias
<1>6. /\ pc' \in [Hilos -> Lineas] /\ \A j \in Hilos : pc'[j] \in Lugares(j)
      /\ sem' \in [Semaforos -> Nat]
      /\ pc'[CortoPlazo] = "dirigir"
      /\ \A j \in Hilos : j # CortoPlazo /\ j # PF(r) => pc'[j] = pc[j]
      /\ Cuentas'
  <2>1. CASE c.page_fault
    <3>1. /\ pc' = [pc EXCEPT ![CortoPlazo] = "dirigir", ![PF(r)] = "espera"]
          /\ sem' = [sem EXCEPT !["proceso_page_fault"] = @ + 1]
      BY <2>1 DEF RecibirPcb
    <3>2. /\ PF(r) \in DePageFault /\ CortoPlazo # PF(r) /\ "espera" \in Lugares(PF(r))
      BY <1>2, HilosFijos, HilosPorIndice, LugaresDe
    <3>3. /\ sem' \in [Semaforos -> Nat]
          /\ \A s \in {"procesos_new", "procesos_finalizados", "procesos_ready"} :
                sem'[s] = sem[s]
      BY <1>1, <3>1 DEF TypeOK, Semaforos
    <3>4. QED
      BY <1>1, <1>4, <1>5, <3>1, <3>2, <3>3, DosHilos DEF Contados
  <2>2. CASE ~c.page_fault
    <3>1. Ir(CortoPlazo, "dirigir") /\ UNCHANGED sem
      BY <2>2 DEF RecibirPcb
    <3>2. Cuentas'
      BY <1>1, <1>4, <3>1, CuentasAjenas DEF Contados
    <3>3. QED
      BY <1>1, <3>1, <3>2, IrTipo DEF TypeOK
  <2>3. QED
    BY <2>1, <2>2
<1>7. TypeOK'
  <2>1. /\ rafagas' \in [Pids -> 0..MaxRafagas]
        /\ vida' \in [Pids -> {"sin_crear", "viva", "en_cpu", "destruida"}]
        /\ ptr' \in [Hilos -> Refs \cup {NULO}] /\ pcb' \in [Pids -> Pcb]
        /\ cpu' \in [fase : {"libre", "ejecutando", "lista"}, pid : 0..MaxPid, pcb : Pcb]
    BY <1>1, <1>2, <1>3, <1>4 DEF TypeOK
  <2>2. QED
    BY <1>1, <1>4, <1>6, <2>1 DEF TypeOK, dispositivos, memoria
<1>8. Referencias'
  <2>1. ptr'[CortoPlazo] = r /\ r \in Refs /\ pc'[IO(r)] = "no_creado"
    <3>1. r \in Refs /\ CortoPlazo \in Hilos /\ IO(r) \in Hilos
          /\ IO(r) # CortoPlazo /\ IO(r) # PF(r)
      BY <1>1, <1>2, HilosFijos, HilosPorIndice
    <3>2. ptr'[CortoPlazo] = r
      BY <1>1, <1>4, <3>1 DEF TypeOK
    <3> QED BY <1>5, <1>6, <3>1, <3>2
  <2>2. \A s \in Refs : (pc'[PF(s)] # "no_creado" \/ pc'[IO(s)] # "no_creado")
                           => s[2] <= rafagas'[s[1]]
    <3>1. SUFFICES ASSUME NEW s \in Refs, pc'[PF(s)] # "no_creado" \/ pc'[IO(s)] # "no_creado"
                   PROVE  s[2] <= rafagas'[s[1]]
      OBVIOUS
    <3>2. rafagas'[s[1]] >= rafagas[s[1]] /\ s[2] \in Nat /\ rafagas[s[1]] \in Nat
          /\ rafagas'[s[1]] \in Nat
      BY <1>1, <1>2, <1>4, LimitesAssumption DEF TypeOK, Refs
    <3>3. CASE s = r
      BY <1>1, <1>2, <1>4, <1>5, <3>3, LimitesAssumption DEF TypeOK
    <3>4. CASE s # r
      <4>1. /\ PF(s) \in Hilos /\ IO(s) \in Hilos /\ PF(s) # PF(r) /\ IO(s) # PF(r)
            /\ PF(s) # CortoPlazo /\ IO(s) # CortoPlazo
        BY <1>2, <3>4, HilosFijos, HilosPorIndice DEF PF, IO
      <4>2. pc'[PF(s)] = pc[PF(s)] /\ pc'[IO(s)] = pc[IO(s)]
        BY <4>1, <1>6
      <4>3. s[2] <= rafagas[s[1]]
        BY <1>1, <3>1, <4>2 DEF Referencias
      <4>4. QED
        BY <3>2, <4>3
    <3>5. QED
      BY <3>3, <3>4
  <2>3. /\ pc'[LargoPlazo] = pc[LargoPlazo] /\ ptr'[LargoPlazo] = ptr[LargoPlazo]
        /\ cpu'.fase = "libre"
    BY <1>1, <1>2, <1>3, <1>4, <1>6, HilosFijos, HilosPorIndice DEF TypeOK
  <2>4. QED
    BY <1>1, <2>1, <2>2, <2>3 DEF Referencias
<1>9. QED
  BY <1>4, <1>6, <1>7, <1>8 DEF IInv, Cuentas, SinColaVacia

\* obtener_dispositivo_por_nombre always yields a device.
LEMMA DispositivoTipo ==
    ASSUME NEW nombre
    PROVE  Dispositivo(nombre) \in Dispositivos
<1> DEFINE T == {d \in Dispositivos : DispositivosIO[d] = nombre}
           Primero(d) == /\ DispositivosIO[d] = nombre
                         /\ \A e \in 1..(d - 1) : DispositivosIO[e] # nombre
<1>1. CASE T # {}
  <2>1. T \subseteq Nat
    BY DEF Dispositivos
  <2>2. PICK x \in T : \A y \in T : ~(<<y, x>> \in OpToRel(<, Nat))
    BY <1>1, <2>1, WFMin, NatLessThanWellFounded
  <2>3. \A y \in T : ~(y < x)
    BY <2>1, <2>2 DEF OpToRel
  <2>4. \A e \in 1..(x - 1) : e \in Dispositivos /\ e < x
    BY <2>1, DispositivosAssumption DEF Dispositivos
  <2>5. x \in Dispositivos /\ Primero(x)
    BY <2>3, <2>4
  <2>6. (CHOOSE d \in Dispositivos : Primero(d)) \in Dispositivos
    BY <2>5, Zenon
  <2>7. QED
    BY <1>1, <2>6 DEF Dispositivo
<1>2. CASE T = {}
  <2>1. Dispositivo(nombre) = Len(DispositivosIO)
    BY <1>2 DEF Dispositivo
  <2>2. Len(DispositivosIO) \in Nat \ {0}
    BY DispositivosAssumption
  <2>3. QED
    BY <2>1, <2>2 DEF Dispositivos
<1>3. QED
  BY <1>1, <1>2

LEMMA SolicitarFinalizacionIInv ==
    ASSUME IInv, NEW r, r = ptr[CortoPlazo], Valido(r), pc[CortoPlazo] = "dirigir",
           SolicitarFinalizacion(r)
    PROVE  IInv'
<1>1. /\ TypeOK /\ Cuentas /\ Referencias /\ CortoPlazo \in Hilos
      /\ "resp_liberar" \in Lugares(CortoPlazo) /\ Ir(CortoPlazo, "resp_liberar")
  BY HilosFijos, LugaresDe DEF IInv, Cuentas, SolicitarFinalizacion
<1>2. /\ r \in Refs /\ r[1] \in Pids
      /\ cola' = [cola EXCEPT !["exit"] = Append(@, r)]
      /\ UNCHANGED sem /\ UNCHANGED dispositivos
  BY <1>1, ValidoRef DEF SolicitarFinalizacion
<1>3. /\ cola' \in [Colas -> Seq(Refs)] /\ Len(cola["exit"]) \in Nat
      /\ Len(cola'["exit"]) = Len(cola["exit"]) + 1
      /\ \A c \in Colas : c # "exit" => cola'[c] = cola[c]
  BY <1>1, <1>2, Encolar DEF Colas
<1>4. CuentaNew' /\ CuentaDispositivos' /\ CuentaReady' /\ ColaElegida'
  BY <1>1, <1>2, <1>3, CuentasSalvo DEF Colas
<1>5. CuentaExit'
  <2>1. pc'[CortoPlazo] = "resp_liberar" /\ pc'[Rajar] = pc[Rajar]
    BY <1>1, IrTipo, HilosFijos
  <2>2. sem["procesos_finalizados"] \in Nat
    BY <1>1 DEF TypeOK, Semaforos
  <2>3. QED
    BY <1>1, <1>2, <1>3, <2>1, <2>2 DEF Cuentas, CuentaExit, Uno
<1>6. TypeOK'
  <2>1. pcb' \in [Pids -> Pcb]
    BY <1>1, <1>2, PcbExcept DEF SolicitarFinalizacion, TypeOK
  <2>2. pedidos' \in Seq([cod : {"ESTRUCTURAS", "PAGINA", "LIBERAR_ESTRUCTURAS"}, pid : Pids])
    BY <1>1, <1>2 DEF SolicitarFinalizacion, TypeOK
  <2>3. QED
    BY <1>1, <1>3, <2>1, <2>2, IrTipo DEF SolicitarFinalizacion, TypeOK, dispositivos, entorno
<1>7. Referencias'
  BY <1>1, HilosFijos, ReferenciasQuietas DEF SolicitarFinalizacion, entorno
<1>8. QED
  BY <1>4, <1>5, <1>6, <1>7 DEF IInv, SinColaVacia, SolicitarFinalizacion, entorno

LEMMA SolicitarIOIInv ==
    ASSUME IInv, NEW r, r = ptr[CortoPlazo], Valido(r), pc[CortoPlazo] = "dirigir",
           SolicitarIO(r)
    PROVE  IInv'
<1> DEFINE nombre == pcb[r[1]].ultima
           d == Dispositivo(nombre)
<1>1. /\ TypeOK /\ Cuentas /\ Referencias /\ CortoPlazo \in Hilos
      /\ "espera_ready" \in Lugares(CortoPlazo) /\ d \in Dispositivos
  BY HilosFijos, LugaresDe, DispositivoTipo DEF IInv, Cuentas
<1>2. r \in Refs /\ r[1] \in Pids
  BY <1>1, ValidoRef
<1>3. /\ pcb' = [pcb EXCEPT ![r[1]].estado = "BLOCK"]
      /\ UNCHANGED <<cola, sem, pid_actual, vida, rafagas, ptr, memoria, entorno>>
  BY DEF SolicitarIO
<1>4. pcb' \in [Pids -> Pcb]
  BY <1>1, <1>2, <1>3, PcbExcept DEF TypeOK
<1>5. CASE nombre \in ConsolaIO
  <2>1. /\ pc' = [pc EXCEPT ![CortoPlazo] = "espera_ready", ![IO(r)] = "solicitud"]
        /\ UNCHANGED dispositivos
    BY <1>5 DEF SolicitarIO
  <2>2. /\ IO(r) \in DeConsola /\ IO(r) \in Hilos /\ CortoPlazo # IO(r)
        /\ "solicitud" \in Lugares(IO(r)) /\ pc[IO(r)] = "no_creado"
    BY <1>1, <1>2, HilosFijos, HilosPorIndice, LugaresDe DEF Referencias
  <2>3. /\ pc' \in [Hilos -> Lineas] /\ \A j \in Hilos : pc'[j] \in Lugares(j)
        /\ pc'[CortoPlazo] = "espera_ready"
        /\ \A j \in Hilos : j # CortoPlazo /\ j # IO(r) => pc'[j] = pc[j]
        /\ Cuentas'
    BY <1>1, <1>3, <2>1, <2>2, DosHilos DEF Contados
  <2>4. TypeOK'
    BY <1>1, <1>3, <1>4, <2>1, <2>3 DEF TypeOK, dispositivos, memoria, entorno
  <2>5. Referencias'
    <3>1. r[2] <= rafagas[r[1]]
      BY <1>1, <1>2, LimitesAssumption DEF Valido, TypeOK, Refs
    <3>2. ASSUME NEW s \in Refs, pc'[PF(s)] # "no_creado" \/ pc'[IO(s)] # "no_creado"
          PROVE  s[2] <= rafagas'[s[1]]
      <4>1. /\ PF(s) \in Hilos /\ IO(s) \in Hilos /\ PF(s) # IO(r)
            /\ PF(s) # CortoPlazo /\ IO(s) # CortoPlazo /\ (s # r => IO(s) # IO(r))
        BY <1>2, HilosFijos, HilosPorIndice DEF PF, IO
      <4>2. CASE s = r
        BY <1>3, <3>1, <4>2
      <4>3. CASE s # r
        BY <1>1, <1>3, <2>3, <3>2, <4>1, <4>3 DEF Referencias
      <4>4. QED
        BY <4>2, <4>3
    <3>3. pc'[LargoPlazo] = pc[LargoPlazo] /\ UNCHANGED <<ptr, cpu, rafagas>>
      BY <1>3, <2>2, <2>3, HilosFijos DEF entorno
    <3>4. QED
      BY <1>1, <2>3, <3>2, <3>3 DEF Referencias
  <2>6. QED
    BY <1>3, <2>3, <2>4, <2>5 DEF IInv, Cuentas, SinColaVacia, entorno
<1>6. CASE nombre \notin ConsolaIO
  <2>1. /\ cola_dispositivo' = [cola_dispositivo EXCEPT ![d] = Append(@, r)]
        /\ s_dispositivos_io' = [s_dispositivos_io EXCEPT ![d] = @ + 1]
        /\ Ir(CortoPlazo, "espera_ready")
    BY <1>6 DEF SolicitarIO
  <2> HIDE DEF nombre, d
  <2>2. CuentaNew' /\ CuentaExit' /\ CuentaReady' /\ ColaElegida'
    BY <1>1, <1>3, <2>1, CuentasSalvo
  <2>3. /\ cola_dispositivo \in [Dispositivos -> Seq(Refs)]
        /\ s_dispositivos_io \in [Dispositivos -> Nat]
        /\ Append(cola_dispositivo[d], r) \in Seq(Refs)
        /\ Len(Append(cola_dispositivo[d], r)) = Len(cola_dispositivo[d]) + 1
        /\ Len(cola_dispositivo[d]) \in Nat
    BY <1>1, <1>2 DEF TypeOK
  <2>4. CuentaDispositivos'
    <3>1. SUFFICES ASSUME NEW e \in Dispositivos
                   PROVE  Len(cola_dispositivo'[e])
                            = s_dispositivos_io'[e] + Uno(pc'[ES(e)] = "sacar")
      BY DEF CuentaDispositivos
    <3>2. pc'[ES(e)] = pc[ES(e)]
      BY <1>1, <2>1, IrTipo, HilosFijos, HilosPorIndice
    <3>3. Len(cola_dispositivo[e]) = s_dispositivos_io[e] + Uno(pc[ES(e)] = "sacar")
      BY <1>1 DEF Cuentas, CuentaDispositivos
    <3>4. CASE e = d
      <4>1. /\ Len(cola_dispositivo'[e]) = Len(cola_dispositivo[e]) + 1
            /\ s_dispositivos_io'[e] = s_dispositivos_io[e] + 1
            /\ s_dispositivos_io[e] \in Nat
        BY <1>1, <2>1, <2>3, <3>4
      <4>2. QED
        BY <3>2, <3>3, <4>1 DEF Uno
    <3>5. CASE e # d
      <4>1. /\ cola_dispositivo'[e] = cola_dispositivo[e]
            /\ s_dispositivos_io'[e] = s_dispositivos_io[e]
        BY <2>1, <2>3, <3>5
      <4>2. QED
        BY <3>2, <3>3, <4>1
    <3>6. QED
      BY <3>4, <3>5
  <2>5. TypeOK'
    <3>1. /\ cola_dispositivo' \in [Dispositivos -> Seq(Refs)]
          /\ s_dispositivos_io' \in [Dispositivos -> Nat]
      BY <1>1, <2>1, <2>3
    <3>2. QED
      BY <1>1, <1>3, <1>4, <2>1, <3>1, IrTipo DEF TypeOK, memoria, entorno
  <2>6. Referencias'
    BY <1>1, <1>3, <2>1, HilosFijos, ReferenciasQuietas DEF entorno
  <2>7. QED
    BY <1>3, <2>2, <2>4, <2>5, <2>6 DEF IInv, SinColaVacia, entorno
<1>7. QED
  BY <1>5, <1>6

LEMMA DirigirIInv ==
    ASSUME IInv, DirigirProcesoEjecutado
    PROVE  IInv'
<1> DEFINE r == ptr[CortoPlazo]
<1>1. /\ CortoPlazo \in Hilos /\ {"espera_ready", "push_ready"} \subseteq Lugares(CortoPlazo)
      /\ pc[CortoPlazo] = "dirigir"
  BY HilosFijos, LugaresDe DEF DirigirProcesoEjecutado, En
<1>2. CASE UsoTrasLiberar(CortoPlazo)
  BY <1>2, FallarIInv DEF UsoTrasLiberar
<1>3. CASE Valido(r) /\ SolicitarFinalizacion(r)
  BY <1>1, <1>3, SolicitarFinalizacionIInv
<1>4. CASE Valido(r) /\ SolicitarIO(r)
  BY <1>1, <1>4, SolicitarIOIInv
<1>5. CASE Seguir(CortoPlazo, "espera_ready")
  BY <1>1, <1>5, SeguirIInv DEF Contados
<1>6. CASE Seguir(CortoPlazo, "push_ready")
  BY <1>1, <1>6, SeguirIInv DEF Contados
<1>7. CASE Fallar("instruccion_nula")
  BY <1>7, FallarIInv
<1>8. QED
  BY <1>2, <1>3, <1>4, <1>5, <1>6, <1>7 DEF DirigirProcesoEjecutado

LEMMA RecibirLiberarIInv ==
    ASSUME IInv, RecibirLiberar
    PROVE  IInv'
<1>1. /\ TypeOK /\ Cuentas /\ Referencias /\ CortoPlazo \in Hilos
      /\ "espera_ready" \in Lugares(CortoPlazo) /\ pc[CortoPlazo] = "resp_liberar"
  BY HilosFijos, LugaresDe DEF IInv, Cuentas, RecibirLiberar, En
<1>2. CASE TramaCortada
  BY <1>2, FallarIInv DEF TramaCortada
<1>3. CASE ~TramaCortada
  <2>1. /\ respuestas # <<>> /\ respuestas' = Tail(respuestas)
        /\ consola' \in {consola, [consola EXCEPT ![ptr[CortoPlazo][1]] = "finalizada"]}
        /\ sem' = [sem EXCEPT !["procesos_finalizados"] = @ + 1]
        /\ Ir(CortoPlazo, "espera_ready")
        /\ UNCHANGED <<cola, dispositivos, procesos, ptr, conexion_memoria_mutex, pedidos,
                       estructuras, cpu, falla>>
    BY <1>3 DEF RecibirLiberar
  <2>2. /\ sem["procesos_finalizados"] \in Nat /\ sem' \in [Semaforos -> Nat]
        /\ sem'["procesos_finalizados"] = sem["procesos_finalizados"] + 1
        /\ \A s \in Semaforos : s # "procesos_finalizados" => sem'[s] = sem[s]
    BY <1>1, <2>1 DEF TypeOK, Semaforos
  <2>3. CuentaNew' /\ CuentaDispositivos' /\ CuentaReady' /\ ColaElegida'
    BY <1>1, <2>1, <2>2, CuentasSalvo DEF Semaforos
  <2>4. CuentaExit'
    <3>1. pc'[CortoPlazo] = "espera_ready" /\ pc'[Rajar] = pc[Rajar]
      BY <1>1, <2>1, IrTipo, HilosFijos
    <3>2. QED
      BY <1>1, <2>1, <2>2, <3>1 DEF Cuentas, CuentaExit, Uno
  <2>5. TypeOK'
    <3>1. consola' \in [Pids -> {"sin_conectar", "esperando", "finalizada"}]
      BY <1>1, <2>1 DEF TypeOK
    <3>2. respuestas' \in Seq([cod : {"OKI_ESTRUCTURAS", "INDICES", "OKI_PAGINA",
                                      "OKI_LIBERAR_ESTRUCTURAS"}, pid : Pids])
      BY <1>1, <2>1 DEF TypeOK
    <3>3. QED
      BY <1>1, <2>1, <2>2, <3>1, <3>2, IrTipo DEF TypeOK, dispositivos, procesos
  <2>6. Referencias'
    BY <1>1, <2>1, HilosFijos, ReferenciasQuietas DEF procesos
  <2>7. QED
    BY <2>1, <2>3, <2>4, <2>5, <2>6 DEF IInv, SinColaVacia
<1>4. QED
  BY <1>2, <1>3

LEMMA PlanificarEjecucionIInv ==
    ASSUME IInv, PlanificarEjecucion
    PROVE  IInv'
<1>1. CASE SacarReady("sacar_rr", "rr")
  BY <1>1, SacarReadyIInv
<1>2. CASE SacarReady("sacar_fifo", "fifo")
  BY <1>2, SacarReadyIInv
<1>3. CASE PasarAReady(CortoPlazo)
  BY <1>3, PasarAReadyIInv DEF Pasadores
<1>4. QED
  BY <1>1, <1>2, <1>3, EsperarReadyIInv, MirarRRIInv, EnviarPcbIInv, DestruirPcbIInv,
     RecibirPcbIInv, DirigirIInv, RecibirLiberarIInv DEF PlanificarEjecucion

-----------------------------------------------------------------------------
(* Devices, console IO and page faults *)

LEMMA EsperarDispositivoIInv ==
    ASSUME IInv, NEW d \in Dispositivos, EsperarDispositivo(d)
    PROVE  IInv'
<1>1. /\ TypeOK /\ Cuentas /\ Referencias /\ ES(d) \in Hilos /\ ES(d) \in DeDispositivo
      /\ "sacar" \in Lugares(ES(d)) /\ pc[ES(d)] = "espera" /\ Ir(ES(d), "sacar")
      /\ s_dispositivos_io[d] > 0
      /\ s_dispositivos_io' = [s_dispositivos_io EXCEPT ![d] = @ - 1]
      /\ UNCHANGED <<cola, sem, cola_dispositivo, procesos, ptr, memoria, entorno>>
  BY HilosPorIndice, LugaresDe DEF IInv, Cuentas, EsperarDispositivo, En
<1>2. CuentaNew' /\ CuentaExit' /\ CuentaReady' /\ ColaElegida'
  BY <1>1, CuentasSalvo
<1>3. s_dispositivos_io \in [Dispositivos -> Nat] /\ s_dispositivos_io' \in [Dispositivos -> Nat]
  BY <1>1 DEF TypeOK
<1>4. CuentaDispositivos'
  <2>1. SUFFICES ASSUME NEW e \in Dispositivos
                 PROVE  Len(cola_dispositivo'[e])
                          = s_dispositivos_io'[e] + Uno(pc'[ES(e)] = "sacar")
    BY DEF CuentaDispositivos
  <2>2. Len(cola_dispositivo[e]) = s_dispositivos_io[e] + Uno(pc[ES(e)] = "sacar")
        /\ cola_dispositivo' = cola_dispositivo
    BY <1>1 DEF Cuentas, CuentaDispositivos
  <2>3. CASE e = d
    <3>1. pc'[ES(e)] = "sacar" /\ s_dispositivos_io'[e] = s_dispositivos_io[e] - 1
          /\ s_dispositivos_io[e] \in Nat
      BY <1>1, <1>3, <2>3, IrTipo
    <3>2. QED
      BY <1>1, <2>2, <2>3, <3>1 DEF Uno
  <2>4. CASE e # d
    <3>1. pc'[ES(e)] = pc[ES(e)] /\ s_dispositivos_io'[e] = s_dispositivos_io[e]
      BY <1>1, <1>3, <2>4, IrTipo, HilosPorIndice
    <3>2. QED
      BY <2>2, <3>1
  <2>5. QED
    BY <2>3, <2>4
<1>5. TypeOK'
  BY <1>1, <1>3, IrTipo DEF TypeOK, procesos, memoria, entorno
<1>6. Referencias'
  BY <1>1, ReferenciasQuietas DEF procesos, entorno
<1>7. QED
  BY <1>1, <1>2, <1>4, <1>5, <1>6 DEF IInv, SinColaVacia, entorno

LEMMA SacarDispositivoIInv ==
    ASSUME IInv, NEW d \in Dispositivos, SacarDispositivo(d)
    PROVE  IInv'
<1>1. /\ TypeOK /\ Cuentas /\ Referencias /\ ES(d) \in Hilos /\ ES(d) \in DeDispositivo
      /\ "push_ready" \in Lugares(ES(d)) /\ pc[ES(d)] = "sacar" /\ ES(d) # CortoPlazo
      /\ ES(d) # LargoPlazo
  BY HilosFijos, HilosPorIndice, LugaresDe DEF IInv, Cuentas, SacarDispositivo, En
<1>2. /\ cola_dispositivo \in [Dispositivos -> Seq(Refs)]
      /\ s_dispositivos_io[d] \in Nat
      /\ Len(cola_dispositivo[d]) = s_dispositivos_io[d] + Uno(pc[ES(d)] = "sacar")
  BY <1>1 DEF TypeOK, Cuentas, CuentaDispositivos
<1>3. cola_dispositivo[d] # <<>>
  BY <1>1, <1>2 DEF Uno
<1>4. CASE PopIndebido(cola_dispositivo[d])
  BY <1>3, <1>4, FallarIInv DEF PopIndebido
<1>5. CASE ~PopIndebido(cola_dispositivo[d])
  <2>1. /\ ptr' = [ptr EXCEPT ![ES(d)] = Head(cola_dispositivo[d])]
        /\ cola_dispositivo' = [cola_dispositivo EXCEPT ![d] = Tail(@)]
        /\ Ir(ES(d), "push_ready")
        /\ UNCHANGED <<cola, sem, s_dispositivos_io, procesos, memoria, entorno>>
    BY <1>5 DEF SacarDispositivo
  <2>2. /\ Head(cola_dispositivo[d]) \in Refs /\ Tail(cola_dispositivo[d]) \in Seq(Refs)
        /\ Len(Tail(cola_dispositivo[d])) = Len(cola_dispositivo[d]) - 1
    BY <1>2, <1>3
  <2>3. CuentaNew' /\ CuentaExit' /\ CuentaReady' /\ ColaElegida'
    BY <1>1, <2>1, CuentasSalvo
  <2>4. CuentaDispositivos'
    <3>1. SUFFICES ASSUME NEW e \in Dispositivos
                   PROVE  Len(cola_dispositivo'[e])
                            = s_dispositivos_io'[e] + Uno(pc'[ES(e)] = "sacar")
      BY DEF CuentaDispositivos
    <3>2. CASE e = d
      <4>1. pc'[ES(e)] = "push_ready"
            /\ Len(cola_dispositivo'[e]) = Len(cola_dispositivo[e]) - 1
        BY <1>1, <1>2, <2>1, <2>2, <3>2, IrTipo
      <4>2. QED
        BY <1>1, <1>2, <2>1, <3>2, <4>1 DEF Uno
    <3>3. CASE e # d
      <4>1. pc'[ES(e)] = pc[ES(e)] /\ cola_dispositivo'[e] = cola_dispositivo[e]
        BY <1>1, <1>2, <2>1, <3>3, IrTipo, HilosPorIndice
      <4>2. QED
        BY <1>1, <2>1, <4>1 DEF Cuentas, CuentaDispositivos
    <3>4. QED
      BY <3>2, <3>3
  <2>5. TypeOK'
    BY <1>1, <1>2, <2>1, <2>2, IrTipo DEF TypeOK, procesos, memoria, entorno
  <2>6. Referencias'
    <3>1. /\ ptr'[CortoPlazo] = ptr[CortoPlazo] /\ ptr'[LargoPlazo] = ptr[LargoPlazo]
          /\ pc'[LargoPlazo] = pc[LargoPlazo] /\ UNCHANGED <<cpu, rafagas>>
      BY <1>1, <2>1, IrTipo, HilosFijos DEF TypeOK, procesos, entorno
    <3>2. QED
      BY <1>1, <2>1, <3>1, ReferenciasDeHilos DEF Referencias
  <2>7. QED
    BY <2>1, <2>3, <2>4, <2>5, <2>6 DEF IInv, SinColaVacia, entorno
<1>6. QED
  BY <1>4, <1>5

LEMMA EjecucionIOIInv ==
    ASSUME IInv, NEW d \in Dispositivos, EjecucionIO(d)
    PROVE  IInv'
<1>1. CASE PasarAReady(ES(d))
  BY <1>1, PasarAReadyIInv, HilosPorIndice DEF Pasadores
<1>2. QED
  BY <1>1, EsperarDispositivoIInv, SacarDispositivoIInv DEF EjecucionIO

LEMMA SolicitarIOConsolaIInv ==
    ASSUME IInv, NEW r \in Refs, SolicitarIOConsola(r)
    PROVE  IInv'
<1>1. /\ IO(r) \in Hilos /\ IO(r) \in DeConsola /\ "push_ready" \in Lugares(IO(r))
  BY HilosPorIndice, LugaresDe
<1>2. CASE PasarAReady(IO(r))
  BY <1>1, <1>2, PasarAReadyIInv DEF Pasadores
<1>3. CASE UsoTrasLiberar(IO(r))
  BY <1>3, FallarIInv DEF UsoTrasLiberar
<1>4. CASE pc[IO(r)] = "solicitud" /\ Seguir(IO(r), "push_ready")
  BY <1>1, <1>4, SeguirIInv DEF Contados
<1>5. QED
  BY <1>2, <1>3, <1>4 DEF SolicitarIOConsola, Solicitud, En

LEMMA EsperarPageFaultIInv ==
    ASSUME IInv, NEW r \in Refs, EsperarPageFault(r)
    PROVE  IInv'
<1>1. /\ TypeOK /\ Cuentas /\ Referencias /\ PF(r) \in Hilos /\ PF(r) # LargoPlazo
      /\ PF(r) # CortoPlazo
      /\ "pedir" \in Lugares(PF(r)) /\ "proceso_page_fault" \in Semaforos
      /\ Esperar(PF(r), "espera", "proceso_page_fault", "pedir")
  BY HilosFijos, HilosPorIndice, LugaresDe DEF IInv, Cuentas, EsperarPageFault, Semaforos
<1>2. /\ Ir(PF(r), "pedir") /\ pc[PF(r)] = "espera"
      /\ \A t \in Semaforos : t # "proceso_page_fault" => sem'[t] = sem[t]
      /\ UNCHANGED <<cola, dispositivos, ptr, cpu, rafagas, falla>>
  BY <1>1, EsperarDe
<1>3. CuentaNew' /\ CuentaExit' /\ CuentaDispositivos' /\ CuentaReady' /\ ColaElegida'
  BY <1>1, <1>2, CuentasSalvo DEF Semaforos
<1>4. TypeOK' /\ Referencias'
  BY <1>1, <1>2, EsperarTipo, ReferenciasQuietas
<1>5. QED
  BY <1>2, <1>3, <1>4 DEF IInv, SinColaVacia

LEMMA ManejarPageFaultIInv ==
    ASSUME IInv, NEW r \in Refs, ManejarPageFault(r)
    PROVE  IInv'
<1>1. /\ PF(r) \in Hilos /\ PF(r) \in DePageFault
      /\ {"push_ready", "muerto"} \subseteq Lugares(PF(r))
  BY HilosPorIndice, LugaresDe
<1>2. CASE PasarAReady(PF(r))
  BY <1>1, <1>2, PasarAReadyIInv DEF Pasadores
<1>3. CASE PedirPagina(r)
  <2>1. CASE Valido(ptr[PF(r)]) /\ Pedir(PF(r), "PAGINA")
    <3>1. ptr[PF(r)] \in Refs
      BY <1>1, <2>1, ValidoRef DEF IInv
    <3>2. QED
      BY <1>1, <2>1, <3>1, PedirIInv
  <2>2. CASE UsoTrasLiberar(PF(r))
    BY <2>2, FallarIInv DEF UsoTrasLiberar
  <2>3. QED
    BY <1>3, <2>1, <2>2 DEF PedirPagina
<1>4. CASE RecibirPagina(r)
  <2>1. respuestas # <<>> /\ pc[PF(r)] = "resp"
    BY <1>4 DEF RecibirPagina, En
  <2>2. CASE Recibir(PF(r), "push_ready", "libre")
    BY <1>1, <2>1, <2>2, RecibirIInv DEF Contados
  <2>3. CASE Recibir(PF(r), "muerto", "libre")
    BY <1>1, <2>1, <2>3, RecibirIInv DEF Contados
  <2>4. CASE TramaCortada
    BY <2>4, FallarIInv DEF TramaCortada
  <2>5. QED
    BY <1>4, <2>2, <2>3, <2>4 DEF RecibirPagina
<1>5. QED
  BY <1>2, <1>3, <1>4, EsperarPageFaultIInv DEF ManejarPageFault

-----------------------------------------------------------------------------
(* The partners *)

LEMMA RafagasTipo ==
    ASSUME NEW c \in Pcb, NEW final \in BOOLEAN
    PROVE  Rafagas(c, final) \subseteq Pcb
<1>1. \A u \in {"ninguna", "CPU", "EXIT"} \cup NombresIO :
         /\ [c EXCEPT !.ultima = u] \in Pcb
         /\ [c EXCEPT !.segmentation_fault = TRUE, !.ultima = u] \in Pcb
         /\ [c EXCEPT !.page_fault = TRUE, !.ultima = u] \in Pcb
         /\ \A i \in BOOLEAN : [c EXCEPT !.ultima = u, !.interrupcion = i] \in Pcb
  BY DEF Pcb
<1>2. c.ultima \in {"ninguna", "CPU", "EXIT"} \cup NombresIO
  BY DEF Pcb
<1>3. SUFFICES ASSUME NEW d \in Rafagas(c, final), d # c
               PROVE  d \in Pcb
  OBVIOUS
<1> DEFINE Ultimas == {"ninguna", "CPU", "EXIT"} \cup NombresIO
<1>4. \/ \E u \in Ultimas : d = [c EXCEPT !.segmentation_fault = TRUE, !.ultima = u]
      \/ \E u \in Ultimas : d = [c EXCEPT !.page_fault = TRUE, !.ultima = u]
      \/ \E u \in Ultimas : d = [c EXCEPT !.ultima = u]
      \/ \E u \in Ultimas, i \in BOOLEAN : d = [c EXCEPT !.ultima = u, !.interrupcion = i]
  <2>1. {c.ultima, "CPU"} \subseteq Ultimas /\ {"EXIT"} \cup NombresIO \subseteq Ultimas
        /\ "CPU" \in Ultimas /\ "EXIT" \in Ultimas
    BY <1>2
  <2> HIDE DEF Ultimas
  <2>2. QED
    BY <1>3, <2>1, Zenon DEF Rafagas
<1>5. QED
  <2> HIDE DEF Ultimas
  <2>1. \A u \in Ultimas :
         /\ [c EXCEPT !.ultima = u] \in Pcb
         /\ [c EXCEPT !.segmentation_fault = TRUE, !.ultima = u] \in Pcb
         /\ [c EXCEPT !.page_fault = TRUE, !.ultima = u] \in Pcb
         /\ \A i \in BOOLEAN : [c EXCEPT !.ultima = u, !.interrupcion = i] \in Pcb
    BY <1>1 DEF Ultimas
  <2>2. QED
    BY <1>4, <2>1, Zenon

LEMMA AtenderKernelIInv ==
    ASSUME IInv, AtenderKernel
    PROVE  IInv'
<1> DEFINE Pedido == [cod : {"ESTRUCTURAS", "PAGINA", "LIBERAR_ESTRUCTURAS"}, pid : Pids]
           Codigo == {"OKI_ESTRUCTURAS", "INDICES", "OKI_PAGINA", "OKI_LIBERAR_ESTRUCTURAS"}
           Respuesta == [cod : Codigo, pid : Pids]
           p == Head(pedidos).pid
           cods == Codigos(Head(pedidos).cod)
<1>1. /\ TypeOK /\ pedidos \in Seq(Pedido) /\ respuestas \in Seq(Respuesta)
      /\ pedidos # <<>>
  BY DEF IInv, TypeOK, AtenderKernel
<1>2. Head(pedidos) \in Pedido /\ Tail(pedidos) \in Seq(Pedido)
  <2> HIDE DEF Pedido
  <2>1. QED
    BY <1>1
<1>3. p \in Pids /\ cods \in Seq(Codigo)
  <2>1. /\ p \in Pids
        /\ Head(pedidos).cod \in {"ESTRUCTURAS", "PAGINA", "LIBERAR_ESTRUCTURAS"}
    BY <1>2
  <2>2. cods \in {<<"OKI_ESTRUCTURAS", "INDICES">>, <<"OKI_PAGINA">>,
                  <<"OKI_LIBERAR_ESTRUCTURAS">>}
    BY <2>1 DEF Codigos
  <2>3. /\ <<"OKI_ESTRUCTURAS", "INDICES">> \in Seq(Codigo)
        /\ <<"OKI_PAGINA">> \in Seq(Codigo)
        /\ <<"OKI_LIBERAR_ESTRUCTURAS">> \in Seq(Codigo)
    OBVIOUS
  <2> HIDE DEF cods, p, Codigo
  <2>4. QED
    BY <2>1, <2>2, <2>3
<1>4. /\ pedidos' = Tail(pedidos)
      /\ respuestas' = respuestas \o [i \in 1..Len(cods) |-> [cod |-> cods[i], pid |-> p]]
      /\ UNCHANGED <<cola, sem, dispositivos, procesos, pc, ptr, conexion_memoria_mutex,
                     entorno>>
  BY DEF AtenderKernel
<1>5. respuestas' \in Seq(Respuesta)
  <2> HIDE DEF cods, p
  <2>1. Len(cods) \in Nat /\ \A i \in 1..Len(cods) : cods[i] \in Codigo
    BY <1>3
  <2>2. [i \in 1..Len(cods) |-> [cod |-> cods[i], pid |-> p]] \in Seq(Respuesta)
    BY <1>3, <2>1, SeqDef
  <2>3. QED
    BY <1>1, <1>4, <2>2
<1>6. estructuras' \in [Pids -> {"no", "creadas", "liberadas"}]
  BY <1>1 DEF AtenderKernel, TypeOK
<1>7. TypeOK'
  BY <1>1, <1>2, <1>4, <1>5, <1>6 DEF TypeOK, dispositivos, procesos, entorno
<1>8. Referencias'
  BY <1>4 DEF IInv, Referencias, procesos, entorno
<1>9. CuentaNew' /\ CuentaExit' /\ CuentaDispositivos' /\ CuentaReady' /\ ColaElegida'
  BY <1>4 DEF IInv, CuentaNew, CuentaExit, CuentaDispositivos, CuentaReady, EnReadys,
         Publicando, ColaElegida, dispositivos
<1>10. QED
  BY <1>4, <1>7, <1>8, <1>9 DEF IInv, SinColaVacia, entorno

LEMMA EjecutarRafagaIInv ==
    ASSUME IInv, EjecutarRafaga
    PROVE  IInv'
<1>1. /\ cpu.fase = "ejecutando" /\ rafagas[cpu.pid] < MaxRafagas
      /\ UNCHANGED <<cola, sem, dispositivos, procesos, pc, ptr, memoria, consola, falla>>
  BY DEF EjecutarRafaga
<1>2. /\ cpu \in [fase : {"libre", "ejecutando", "lista"}, pid : 0..MaxPid, pcb : Pcb]
      /\ cpu.pid \in Pids /\ cpu.pcb \in Pcb
  BY <1>1 DEF IInv, TypeOK, Referencias
<1>3. PICK c \in Pcb : cpu' = [cpu EXCEPT !.fase = "lista", !.pcb = c]
  <2>1. (rafagas[cpu.pid] + 1 = MaxRafagas) \in BOOLEAN
    OBVIOUS
  <2>2. QED
    BY <1>2, <2>1, RafagasTipo DEF EjecutarRafaga
<1>4. /\ cpu' \in [fase : {"libre", "ejecutando", "lista"}, pid : 0..MaxPid, pcb : Pcb]
      /\ cpu'.pid = cpu.pid
  BY <1>2, <1>3
<1>5. TypeOK'
  BY <1>1, <1>4 DEF IInv, TypeOK, dispositivos, procesos, memoria
<1>6. Referencias'
  BY <1>1, <1>2, <1>4 DEF IInv, Referencias, procesos
<1>7. CuentaNew' /\ CuentaExit' /\ CuentaDispositivos' /\ CuentaReady' /\ ColaElegida'
  BY <1>1 DEF IInv, CuentaNew, CuentaExit, CuentaDispositivos, CuentaReady, EnReadys,
         Publicando, ColaElegida, dispositivos
<1>8. QED
  BY <1>1, <1>5, <1>6, <1>7 DEF IInv, SinColaVacia

-----------------------------------------------------------------------------
(* The invariant *)

LEMMA PcInicialDe ==
    /\ PcInicial(Conexiones) = "esperar_cliente" /\ PcInicial(LargoPlazo) = "espera_new"
    /\ PcInicial(CortoPlazo) = "espera_ready" /\ PcInicial(Rajar) = "espera_finalizados"
    /\ \A h \in DeDispositivo : PcInicial(h) = "espera"
    /\ \A h \in DePageFault \cup DeConsola : PcInicial(h) = "no_creado"
    /\ \A h \in Hilos : PcInicial(h) \in Lugares(h) /\ PcInicial(h) \notin Contados
<1>1. /\ PcInicial(Conexiones) = "esperar_cliente" /\ PcInicial(LargoPlazo) = "espera_new"
      /\ PcInicial(CortoPlazo) = "espera_ready" /\ PcInicial(Rajar) = "espera_finalizados"
      /\ \A h \in DeDispositivo : PcInicial(h) = "espera"
      /\ \A h \in DePageFault \cup DeConsola : PcInicial(h) = "no_creado"
  BY HilosFijos DEF PcInicial
<1>2. QED
  BY <1>1, LugaresDe DEF Hilos, Contados

LEMMA IInvInicial == Init => IInv
<1> SUFFICES ASSUME Init PROVE IInv
  OBVIOUS
<1>1. pc \in [Hilos -> Lineas] /\ \A h \in Hilos : pc[h] = PcInicial(h)
  BY PcInicialDe DEF Init, Lineas
<1>2. TypeOK
  <2>1. \A h \in Hilos : pc[h] \in Lugares(h)
    BY <1>1, PcInicialDe
  <2>2. PcbNuevo \in Pcb
    BY DEF PcbNuevo, Pcb
  <2>3. ptr \in [Hilos -> Refs \cup {NULO}]
    BY DEF Init, DePageFault, DeConsola, PF, IO
  <2>4. /\ cola \in [Colas -> Seq(Refs)] /\ cola_dispositivo \in [Dispositivos -> Seq(Refs)]
        /\ pedidos = <<>> /\ respuestas = <<>>
    BY DEF Init
  <2>5. /\ sem \in [Semaforos -> Nat] /\ s_dispositivos_io \in [Dispositivos -> Nat]
        /\ pid_actual \in 0..MaxPid /\ rafagas \in [Pids -> 0..MaxRafagas]
        /\ cpu \in [fase : {"libre", "ejecutando", "lista"}, pid : 0..MaxPid, pcb : Pcb]
    BY <2>2, GradoAssumption, LimitesAssumption DEF Init
  <2>6. QED
    BY <1>1, <2>1, <2>2, <2>3, <2>4, <2>5 DEF Init, TypeOK
<1>3. /\ pc[Conexiones] = "esperar_cliente" /\ pc[LargoPlazo] = "espera_new"
      /\ pc[CortoPlazo] = "espera_ready" /\ pc[Rajar] = "espera_finalizados"
      /\ \A d \in Dispositivos : pc[ES(d)] = "espera"
      /\ \A r \in Refs : pc[PF(r)] = "no_creado" /\ pc[IO(r)] = "no_creado"
  BY <1>1, PcInicialDe, HilosFijos, HilosPorIndice
<1>4. Referencias
  BY <1>3 DEF Init, Referencias
<1>5. Publicando = {}
  BY <1>1, PcInicialDe DEF Publicando, Contados
<1>6. /\ \A q \in Colas : cola[q] = <<>>
      /\ \A s \in Semaforos : s # "multiprogramacion" => sem[s] = 0
      /\ \A d \in Dispositivos : cola_dispositivo[d] = <<>> /\ s_dispositivos_io[d] = 0
  BY DEF Init
<1>7. CuentaNew /\ CuentaExit /\ CuentaDispositivos
  <2>1. Len(<<>>) = 0
    OBVIOUS
  <2>2. CuentaNew /\ CuentaExit
    <3>1. /\ cola["new"] = <<>> /\ cola["exit"] = <<>>
          /\ sem["procesos_new"] = 0 /\ sem["procesos_finalizados"] = 0
      BY <1>6 DEF Colas, Semaforos
    <3>2. CuentaNew
      BY <1>3, <2>1, <3>1 DEF CuentaNew, Uno
    <3>3. CuentaExit
      BY <1>3, <2>1, <3>1 DEF CuentaExit, Uno
    <3>4. QED
      BY <3>2, <3>3
  <2>3. CuentaDispositivos
    BY <1>3, <1>6, <2>1 DEF CuentaDispositivos, Uno
  <2>4. QED
    BY <2>2, <2>3
<1>8. CuentaReady
  <2>1. IsFiniteSet(Publicando) /\ Cardinality(Publicando) = 0
    BY <1>5, FS_EmptySet
  <2>2. EnReadys = Len(<<>>) + Len(<<>>)
    BY <1>6 DEF EnReadys, Colas
  <2>3. EnReadys = 0 /\ sem["procesos_ready"] = 0
    BY <1>6, <2>2 DEF Semaforos
  <2>4. QED
    BY <1>3, <2>1, <2>3 DEF CuentaReady, Uno
<1>9. ColaElegida /\ SinColaVacia
  BY <1>3, <1>6 DEF ColaElegida, SinColaVacia, Init, Colas
<1>10. QED
  BY <1>2, <1>4, <1>7, <1>8, <1>9 DEF IInv

LEMMA IInvPaso == IInv /\ [Next]_vars => IInv'
<1> SUFFICES ASSUME IInv, [Next]_vars PROVE IInv'
  OBVIOUS
<1>1. CASE AtenderNuevaConsola
  BY <1>1, AtenderNuevaConsolaIInv
<1>2. CASE AvisarNew
  BY <1>2, AvisarNewIInv
<1>3. CASE NewAReady
  BY <1>3, NewAReadyIInv
<1>4. CASE RajarPcb
  BY <1>4, RajarPcbIInv
<1>5. CASE PlanificarEjecucion
  BY <1>5, PlanificarEjecucionIInv
<1>6. CASE \E d \in Dispositivos : EjecucionIO(d)
  BY <1>6, EjecucionIOIInv
<1>7. CASE \E r \in Refs : SolicitarIOConsola(r)
  BY <1>7, SolicitarIOConsolaIInv
<1>8. CASE \E r \in Refs : ManejarPageFault(r)
  BY <1>8, ManejarPageFaultIInv
<1>9. CASE AtenderKernel
  BY <1>9, AtenderKernelIInv
<1>10. CASE EjecutarRafaga
  BY <1>10, EjecutarRafagaIInv
<1>11. CASE UNCHANGED vars
  <2>1. UNCHANGED <<cola, sem, pc, ptr, falla, rafagas, cpu>> /\ UNCHANGED dispositivos
    BY <1>11 DEF vars, procesos, entorno
  <2>2. TypeOK'
    BY <1>11 DEF IInv, TypeOK, vars, dispositivos, procesos, memoria, entorno
  <2>3. Referencias' /\ SinColaVacia'
    BY <2>1 DEF IInv, Referencias, SinColaVacia
  <2>4. CuentaNew' /\ CuentaExit' /\ CuentaDispositivos' /\ CuentaReady' /\ ColaElegida'
    BY <2>1 DEF IInv, CuentaNew, CuentaExit, CuentaDispositivos, CuentaReady, EnReadys,
                Publicando, ColaElegida, dispositivos
  <2>5. QED
    BY <2>2, <2>3, <2>4 DEF IInv
<1>12. QED
  BY <1>1, <1>2, <1>3, <1>4, <1>5, <1>6, <1>7, <1>8, <1>9, <1>10, <1>11 DEF Next

\* The inductive invariant holds in every reachable state: the accounts of queues,
\* semaphores and threads that push, post, wait and pop always balance.
THEOREM Invariante == Spec => []IInv
<1>1. QED
  BY IInvInicial, IInvPaso, PTL DEF Spec

\* Type correctness: each thread of planificacion.c and io.c is always at a line of
\* its own, and queues, semaphores, PCBs and messages hold what they should.
THEOREM TipoCorrecto == Spec => []TypeOK
<1>1. IInv => TypeOK
  BY DEF IInv
<1>2. QED
  BY <1>1, Invariante, PTL

\* pop_ready_pcb, rajar_pcb, transicion_new_a_ready and ejecucion_io never take a
\* PCB from an empty queue, whatever the order of pushes and posts.
THEOREM ColasSeguras == Spec => []SinColaVacia
<1>1. IInv => SinColaVacia
  BY DEF IInv
<1>2. QED
  BY <1>1, Invariante, PTL

\* No wake-up of the dispatcher is lost: when it waits on procesos_ready with no
\* unit left and nobody about to post, both ready queues are empty.
THEOREM NadieOlvidado == Spec => []SinProcesoOlvidado
<1>1. IInv => SinProcesoOlvidado
  <2>1. SUFFICES ASSUME IInv, pc[CortoPlazo] = "espera_ready", sem["procesos_ready"] = 0,
                        Publicando = {}
                 PROVE  cola["rr"] = <<>> /\ cola["fifo"] = <<>>
    BY DEF SinProcesoOlvidado
  <2>2. EnReadys = 0
    BY <2>1, FS_EmptySet DEF IInv, CuentaReady, Uno
  <2>3. cola["rr"] \in Seq(Refs) /\ cola["fifo"] \in Seq(Refs)
    BY <2>1 DEF IInv, TypeOK, Colas
  <2>4. Largo("rr") \in Nat /\ Largo("fifo") \in Nat
    BY <2>3 DEF Largo
  <2>5. EnReadys = Largo("rr") + Largo("fifo")
    BY DEF Largo, EnReadys
  <2>6. Largo("rr") = 0 /\ Largo("fifo") = 0
    BY <2>2, <2>4, <2>5
  <2>7. QED
    BY <2>3, <2>6 DEF Largo
<1>2. QED
  BY <1>1, Invariante, PTL


-----------------------------------------------------------------------------
(* Requests and codes under way, and who waits for a code. *)

Esperando == {h \in Hilos : pc[h] \in {"resp", "resp_liberar"}}

\* What a move of one thread does to the set of those that wait.
LEMMA IrEsperando ==
    ASSUME TypeOK, NEW h \in Hilos, NEW l \in Lugares(h), Ir(h, l)
    PROVE  /\ (pc[h] \notin {"resp", "resp_liberar"} /\ l \notin {"resp", "resp_liberar"})
                => Esperando' = Esperando
           /\ (pc[h] \notin {"resp", "resp_liberar"} /\ l \in {"resp", "resp_liberar"})
                => Esperando' = Esperando \cup {h} /\ h \notin Esperando
           /\ (pc[h] \in {"resp", "resp_liberar"} /\ l \notin {"resp", "resp_liberar"})
                => Esperando' = Esperando \ {h} /\ h \in Esperando
BY IrTipo DEF Esperando

\* The positions of the codes in a sequence of messages.
ConCodigo(q) == {i \in DOMAIN q : q[i].cod # "INDICES"}

LEMMA ConCodigoFinito ==
    ASSUME NEW S, NEW q \in Seq(S)
    PROVE  IsFiniteSet(ConCodigo(q)) /\ Cardinality(ConCodigo(q)) \in Nat
<1>1. DOMAIN q = 1..Len(q) /\ Len(q) \in Nat
  OBVIOUS
<1>2. IsFiniteSet(1..Len(q))
  BY <1>1, FS_Interval
<1>3. ConCodigo(q) \subseteq 1..Len(q)
  BY <1>1 DEF ConCodigo
<1>4. QED
  BY <1>2, <1>3, FS_Subset, FS_CardinalityType

LEMMA ConCodigoAppend ==
    ASSUME NEW S, NEW q \in Seq(S), NEW m \in S
    PROVE  Cardinality(ConCodigo(Append(q, m)))
             = Cardinality(ConCodigo(q)) + (IF m.cod = "INDICES" THEN 0 ELSE 1)
<1>1. /\ Len(q) \in Nat /\ DOMAIN q = 1..Len(q) /\ Append(q, m) \in Seq(S)
      /\ DOMAIN Append(q, m) = 1..(Len(q) + 1)
      /\ \A i \in 1..Len(q) : Append(q, m)[i] = q[i]
      /\ Append(q, m)[Len(q) + 1] = m
  OBVIOUS
<1>2. /\ m.cod = "INDICES" => ConCodigo(Append(q, m)) = ConCodigo(q)
      /\ m.cod # "INDICES" => /\ ConCodigo(Append(q, m)) = ConCodigo(q) \cup {Len(q) + 1}
                              /\ Len(q) + 1 \notin ConCodigo(q)
  BY <1>1 DEF ConCodigo
<1>3. IsFiniteSet(ConCodigo(q)) /\ Cardinality(ConCodigo(q)) \in Nat
  BY ConCodigoFinito
<1>4. CASE m.cod = "INDICES"
  BY <1>2, <1>3, <1>4
<1>5. CASE m.cod # "INDICES"
  BY <1>2, <1>3, <1>5, FS_AddElement
<1>6. QED
  BY <1>4, <1>5

LEMMA ConCodigoTail ==
    ASSUME NEW S, NEW q \in Seq(S), q # <<>>
    PROVE  Cardinality(ConCodigo(q))
             = Cardinality(ConCodigo(Tail(q))) + (IF Head(q).cod = "INDICES" THEN 0 ELSE 1)
<1> DEFINE A == ConCodigo(q) \ {1}
           B == ConCodigo(Tail(q))
           f == [i \in A |-> i - 1]
<1>1. /\ Len(q) \in Nat /\ Len(q) > 0 /\ DOMAIN q = 1..Len(q)
      /\ DOMAIN Tail(q) = 1..(Len(q) - 1) /\ Tail(q) \in Seq(S) /\ Head(q) = q[1]
      /\ \A i \in 1..(Len(q) - 1) : Tail(q)[i] = q[i + 1]
  OBVIOUS
<1>2. A = {i \in 2..Len(q) : q[i].cod # "INDICES"}
  BY <1>1 DEF ConCodigo
<1>3. B = {i \in 1..(Len(q) - 1) : q[i + 1].cod # "INDICES"}
  BY <1>1 DEF ConCodigo
<1>4. f \in Bijection(A, B)
  <2>1. \A i \in A : i - 1 \in B
    BY <1>1, <1>2, <1>3
  <2>2. \A j \in B : j + 1 \in A /\ (j + 1) - 1 = j
    BY <1>1, <1>2, <1>3
  <2>3. \A i, j \in A : i - 1 = j - 1 => i = j
    BY <1>1, <1>2
  <2> HIDE DEF A, B
  <2>4. f \in [A -> B] /\ \A i \in A : f[i] = i - 1
    BY <2>1
  <2>5. f \in Injection(A, B)
    BY <2>3, <2>4 DEF Injection, IsInjective
  <2>6. f \in Surjection(A, B)
    BY <2>2, <2>4 DEF Surjection
  <2>7. QED
    BY <2>5, <2>6 DEF Bijection
<1>5. IsFiniteSet(ConCodigo(q)) /\ Cardinality(ConCodigo(q)) \in Nat
  BY ConCodigoFinito
<1>6. IsFiniteSet(A)
  BY <1>5, FS_Subset
<1>7. Cardinality(B) = Cardinality(A)
  <2> HIDE DEF A, B, f
  <2>1. ExistsBijection(A, B)
    BY <1>4 DEF ExistsBijection
  <2>2. QED
    BY <2>1, <1>6, FS_Bijection, FS_CardinalityType
<1>8. 1 \in ConCodigo(q) <=> Head(q).cod # "INDICES"
  BY <1>1 DEF ConCodigo
<1>9. CASE Head(q).cod = "INDICES"
  <2>1. A = ConCodigo(q)
    BY <1>8, <1>9
  <2>2. Cardinality(ConCodigo(q)) = Cardinality(ConCodigo(Tail(q)))
    BY <2>1, <1>7
  <2>3. QED
    BY ONLY <2>2, <1>5, <1>9
<1>10. CASE Head(q).cod # "INDICES"
  <2>1. Cardinality(A) = Cardinality(ConCodigo(q)) - 1
    BY <1>5, <1>8, <1>10, FS_RemoveElement
  <2>2. QED
    BY <2>1, <1>5, <1>7, <1>10
<1>11. QED
  BY <1>9, <1>10

\* What a step does to the messages and to the threads that wait for one.
Callado == UNCHANGED <<pedidos, respuestas>> /\ Esperando' = Esperando
Pide == \E h \in Hilos : \E m \in [cod : {"ESTRUCTURAS", "PAGINA", "LIBERAR_ESTRUCTURAS"}, pid : Pids] :
           /\ pedidos' = Append(pedidos, m) /\ respuestas' = respuestas
           /\ h \notin Esperando /\ Esperando' = Esperando \cup {h}
Recibe == /\ respuestas # <<>> /\ respuestas' = Tail(respuestas) /\ pedidos' = pedidos
          /\ \/ Head(respuestas).cod = "INDICES" /\ Esperando' = Esperando
             \/ /\ Head(respuestas).cod # "INDICES"
                /\ \E h \in Esperando : Esperando' = Esperando \ {h}

LEMMA CalladoIr ==
    ASSUME TypeOK, NEW h \in Hilos, NEW l \in Lugares(h), Ir(h, l),
           pc[h] \notin {"resp", "resp_liberar"}, l \notin {"resp", "resp_liberar"},
           UNCHANGED <<pedidos, respuestas>>
    PROVE  Callado
BY IrEsperando DEF Callado

LEMMA EsperarMensajes ==
    ASSUME TypeOK, NEW h \in Hilos, NEW de, NEW s, NEW a \in Lugares(h), Esperar(h, de, s, a),
           de \notin {"resp", "resp_liberar"}, a \notin {"resp", "resp_liberar"}
    PROVE  Callado
BY CalladoIr DEF Esperar, En, memoria

LEMMA AvisarMensajes ==
    ASSUME TypeOK, NEW h \in Hilos, NEW de, NEW s, NEW a \in Lugares(h), Avisar(h, de, s, a),
           de \notin {"resp", "resp_liberar"}, a \notin {"resp", "resp_liberar"}
    PROVE  Callado
BY CalladoIr DEF Avisar, En, memoria

LEMMA SeguirMensajes ==
    ASSUME TypeOK, NEW h \in Hilos, NEW de, NEW a \in Lugares(h), En(h, de), Seguir(h, a),
           de \notin {"resp", "resp_liberar"}, a \notin {"resp", "resp_liberar"}
    PROVE  Callado
BY CalladoIr DEF Seguir, En, memoria

LEMMA FallarMensajes == ASSUME NEW f, Fallar(f) PROVE Callado
BY DEF Fallar, Callado, Esperando, memoria

LEMMA PasarAReadyMensajes ==
    ASSUME TypeOK, NEW h \in Pasadores, PasarAReady(h)
    PROVE  Callado
<1>1. /\ h \in Hilos /\ {"push_ready", "limpiar", "post_ready"} \subseteq Lugares(h)
      /\ TrasReady(h) \in Lugares(h) /\ TrasReady(h) \notin {"resp", "resp_liberar"}
  BY PasadoresDe, TrasReadyDe DEF Pasadores, Contados
<1>2. CASE PushReady(h)
  BY <1>1, <1>2, CalladoIr DEF PushReady, En, memoria
<1>3. CASE LimpiarBanderas(h)
  BY <1>1, <1>3, CalladoIr DEF LimpiarBanderas, En, memoria
<1>4. CASE UsoTrasLiberar(h)
  BY <1>4, FallarMensajes DEF UsoTrasLiberar
<1>5. CASE Avisar(h, "post_ready", "procesos_ready", TrasReady(h))
  BY <1>1, <1>5, AvisarMensajes
<1>6. QED
  BY <1>2, <1>3, <1>4, <1>5 DEF PasarAReady

LEMMA PedirMensajes ==
    ASSUME TypeOK, NEW h \in {LargoPlazo} \cup DePageFault,
           NEW cod \in {"ESTRUCTURAS", "PAGINA"}, Pedir(h, cod), ptr[h] \in Refs
    PROVE  Pide
<1>1. h \in Hilos /\ "resp" \in Lugares(h)
  BY LugaresDe DEF Hilos
<1>2. Ir(h, "resp") /\ pc[h] = "pedir"
  BY DEF Pedir, En
<1>3. h \notin Esperando /\ Esperando' = Esperando \cup {h}
  BY <1>1, <1>2, IrEsperando
<1>4. [cod |-> cod, pid |-> ptr[h][1]] \in
         [cod : {"ESTRUCTURAS", "PAGINA", "LIBERAR_ESTRUCTURAS"}, pid : Pids]
  BY DEF Refs
<1>5. QED
  BY <1>1, <1>3, <1>4 DEF Pide, Pedir

LEMMA RecibirMensajes ==
    ASSUME TypeOK, NEW h \in {LargoPlazo} \cup DePageFault,
           NEW l \in Lugares(h), l \notin {"resp", "resp_liberar"}, NEW m, Recibir(h, l, m),
           respuestas # <<>>,
           IF Head(respuestas).cod = "INDICES" THEN pc[h] = "resp_indices" ELSE pc[h] = "resp"
    PROVE  Recibe
<1>1. h \in Hilos
  BY DEF Hilos
<1>2. QED
  BY <1>1, IrEsperando DEF Recibir, Recibe

LEMMA NewAReadyMensajes ==
    ASSUME IInv, NewAReady
    PROVE  Callado \/ Pide \/ Recibe
<1>1. /\ TypeOK /\ LargoPlazo \in Hilos /\ LargoPlazo \in Pasadores
      /\ {"espera_grado", "sacar_new", "pedir", "resp", "resp_indices", "push_ready",
          "muerto"} \subseteq Lugares(LargoPlazo)
  BY HilosFijos, LugaresDe DEF IInv, Pasadores
<1>2. CASE EsperarNew
  BY <1>1, <1>2, EsperarMensajes DEF EsperarNew
<1>3. CASE EsperarGrado
  BY <1>1, <1>3, EsperarMensajes DEF EsperarGrado
<1>4. CASE SacarNew
  <2>1. CASE PopIndebido(cola["new"])
    BY <2>1, FallarMensajes DEF PopIndebido
  <2>2. CASE ~PopIndebido(cola["new"])
    BY <1>1, <1>4, <2>2, CalladoIr DEF SacarNew, En, memoria
  <2>3. QED
    BY <2>1, <2>2
<1>5. CASE Pedir(LargoPlazo, "ESTRUCTURAS")
  <2>1. ptr[LargoPlazo] \in Refs
    BY <1>5 DEF IInv, Referencias, Pedir, En
  <2>2. QED
    BY <1>1, <1>5, <2>1, PedirMensajes
<1>6. CASE RecibirEstructuras
  <2>1. CASE TramaCortada
    BY <2>1, FallarMensajes DEF TramaCortada
  <2>2. CASE ~TramaCortada
    BY <1>1, <1>6, <2>2, RecibirMensajes DEF RecibirEstructuras, En
  <2>3. QED
    BY <2>1, <2>2
<1>7. CASE RecibirIndices
  <2>1. CASE Head(respuestas).cod = "INDICES"
    BY <1>1, <1>7, <2>1, RecibirMensajes DEF RecibirIndices, En
  <2>2. CASE Head(respuestas).cod # "INDICES"
    BY <1>7, <2>2, FallarMensajes DEF RecibirIndices
  <2>3. QED
    BY <2>1, <2>2
<1>8. CASE PasarAReady(LargoPlazo)
  BY <1>1, <1>8, PasarAReadyMensajes
<1>9. QED
  BY <1>2, <1>3, <1>4, <1>5, <1>6, <1>7, <1>8 DEF NewAReady

LEMMA RajarPcbMensajes ==
    ASSUME IInv, RajarPcb
    PROVE  Callado
<1>1. /\ TypeOK /\ Rajar \in Hilos
      /\ Lugares(Rajar) = {"espera_finalizados", "sacar_exit", "post_grado"}
  BY HilosFijos, LugaresDe DEF IInv
<1>2. CASE EsperarFinalizados
  BY <1>1, <1>2, EsperarMensajes DEF EsperarFinalizados
<1>3. CASE SacarExit
  <2>1. CASE PopIndebido(cola["exit"])
    BY <2>1, FallarMensajes DEF PopIndebido
  <2>2. CASE ~PopIndebido(cola["exit"])
    BY <1>1, <1>3, <2>2, CalladoIr DEF SacarExit, En, memoria
  <2>3. QED
    BY <2>1, <2>2
<1>4. CASE AvisarGrado
  BY <1>1, <1>4, AvisarMensajes DEF AvisarGrado
<1>5. QED
  BY <1>2, <1>3, <1>4 DEF RajarPcb

\* A step that starts a second thread, at a line where it does not wait either.
LEMMA DosCallados ==
    ASSUME TypeOK, NEW h \in Hilos, NEW k \in Hilos, NEW l, NEW m, h # k,
           pc' = [pc EXCEPT ![h] = l, ![k] = m],
           {pc[h], pc[k], l, m} \cap {"resp", "resp_liberar"} = {},
           UNCHANGED <<pedidos, respuestas>>
    PROVE  Callado
<1>1. \A j \in Hilos : pc'[j] \in {"resp", "resp_liberar"} <=> pc[j] \in {"resp", "resp_liberar"}
  BY DEF TypeOK
<1>2. QED
  BY <1>1 DEF Callado, Esperando

\* What obtener_proceso_ejecutado does, value by value.
LEMMA RecibirPcbDe ==
    ASSUME IInv, RecibirPcb
    PROVE  \E p \in Pids, r \in Refs :
              /\ p = cpu.pid /\ r = <<p, rafagas[p] + 1>> /\ r[1] = p /\ r[2] = rafagas[p] + 1
              /\ cpu.fase = "lista" /\ falla = "ninguna"
              /\ pc[CortoPlazo] = "recibir" /\ pc[PF(r)] = "no_creado" /\ pc[IO(r)] = "no_creado"
              /\ pc'[CortoPlazo] = "dirigir"
              /\ pc'[PF(r)] = IF cpu.pcb.page_fault THEN "espera" ELSE "no_creado"
              /\ \A h \in Hilos : h # CortoPlazo /\ h # PF(r) => pc'[h] = pc[h]
              /\ ptr'[CortoPlazo] = r /\ \A h \in Hilos : h # CortoPlazo => ptr'[h] = ptr[h]
              /\ vida'[p] = "viva" /\ \A q \in Pids : q # p => vida'[q] = vida[q]
              /\ rafagas'[p] = r[2] /\ \A q \in Pids : q # p => rafagas'[q] = rafagas[q]
              /\ cpu'.fase = "libre" /\ cpu'.pid = p
              /\ \A s \in Semaforos : s # "proceso_page_fault" => sem'[s] = sem[s]
              /\ \A q \in Pids : q # p => pcb'[q] = pcb[q]
              /\ pcb'[p].page_fault = cpu.pcb.page_fault
              /\ pcb'[p].segmentation_fault = cpu.pcb.segmentation_fault
              /\ pcb'[p].ultima = cpu.pcb.ultima
              /\ UNCHANGED <<cola, dispositivos, pid_actual, memoria, consola, falla>>
<1> DEFINE p == cpu.pid
           r == <<p, rafagas[p] + 1>>
           c == cpu.pcb
           d == [c EXCEPT !.interrupcion = FALSE,
                          !.con_desalojo = @ /\ ~c.interrupcion,
                          !.estado = IF c.page_fault THEN "BLOCK" ELSE @]
<1>1. /\ TypeOK /\ CortoPlazo \in Hilos /\ pc[CortoPlazo] = "recibir"
      /\ cpu.fase = "lista" /\ falla = "ninguna"
  BY HilosFijos DEF IInv, RecibirPcb, En
<1>2. p \in Pids /\ r \in Refs /\ rafagas[p] \in Nat
  BY <1>1, LimitesAssumption DEF RecibirPcb, IInv, Referencias, TypeOK, Refs
<1>3. pc[PF(r)] = "no_creado" /\ pc[IO(r)] = "no_creado"
  BY <1>1, <1>2 DEF IInv, Referencias
<1>4. PF(r) \in Hilos /\ PF(r) # CortoPlazo
  BY <1>2, HilosPorIndice, HilosFijos
<1>5. /\ rafagas' = [rafagas EXCEPT ![p] = r[2]]
      /\ vida' = [vida EXCEPT ![p] = "viva"]
      /\ ptr' = [ptr EXCEPT ![CortoPlazo] = r]
      /\ cpu' = [cpu EXCEPT !.fase = "libre"]
      /\ pcb' = [pcb EXCEPT ![p] = d]
      /\ UNCHANGED <<cola, dispositivos, pid_actual, memoria, consola, falla>>
  BY DEF RecibirPcb
<1>6. /\ pc'[CortoPlazo] = "dirigir"
      /\ pc'[PF(r)] = IF c.page_fault THEN "espera" ELSE "no_creado"
      /\ \A h \in Hilos : h # CortoPlazo /\ h # PF(r) => pc'[h] = pc[h]
      /\ \A s \in Semaforos : s # "proceso_page_fault" => sem'[s] = sem[s]
  <2>1. CASE c.page_fault
    <3>1. /\ pc' = [pc EXCEPT ![CortoPlazo] = "dirigir", ![PF(r)] = "espera"]
          /\ sem' = [sem EXCEPT !["proceso_page_fault"] = @ + 1]
      BY <2>1 DEF RecibirPcb
    <3> HIDE DEF r, c
    <3>2. QED
      BY <1>1, <1>4, <2>1, <3>1 DEF TypeOK
  <2>2. CASE ~c.page_fault
    <3>1. Ir(CortoPlazo, "dirigir") /\ sem' = sem
      BY <2>2 DEF RecibirPcb
    <3> HIDE DEF r, c
    <3>2. QED
      BY <1>1, <1>3, <1>4, <2>2, <3>1 DEF TypeOK, Ir
  <2>3. QED
    BY <2>1, <2>2
<1>7. /\ pcb'[p].page_fault = c.page_fault
      /\ pcb'[p].segmentation_fault = c.segmentation_fault
      /\ pcb'[p].ultima = c.ultima
      /\ \A q \in Pids : q # p => pcb'[q] = pcb[q]
  <2>1. c \in Pcb
    BY <1>1 DEF TypeOK
  <2>2. /\ d.page_fault = c.page_fault /\ d.segmentation_fault = c.segmentation_fault
        /\ d.ultima = c.ultima
    BY <2>1 DEF Pcb
  <2> HIDE DEF d, c
  <2>3. QED
    BY <1>1, <1>2, <1>5, <2>2 DEF TypeOK
<1>8. /\ ptr'[CortoPlazo] = r /\ \A h \in Hilos : h # CortoPlazo => ptr'[h] = ptr[h]
      /\ vida'[p] = "viva" /\ \A q \in Pids : q # p => vida'[q] = vida[q]
      /\ rafagas'[p] = r[2] /\ \A q \in Pids : q # p => rafagas'[q] = rafagas[q]
      /\ cpu'.fase = "libre" /\ cpu'.pid = p
  <2>1. cpu'.fase = "libre" /\ cpu'.pid = p
    BY <1>1, <1>5 DEF TypeOK
  <2> HIDE DEF r
  <2>2. QED
    BY <1>1, <1>2, <1>5, <2>1 DEF TypeOK
<1>9. r[1] = p /\ r[2] = rafagas[p] + 1
  OBVIOUS
<1> USE <1>2
<1>10. WITNESS p \in Pids, r \in Refs
<1> HIDE DEF r, d
<1>11. QED
  BY <1>1, <1>3, <1>5, <1>6, <1>7, <1>8, <1>9 DEF r

LEMMA RecibirPcbMensajes ==
    ASSUME IInv, RecibirPcb
    PROVE  Callado
<1>1. PICK p \in Pids, r \in Refs :
          /\ pc[CortoPlazo] = "recibir" /\ pc[PF(r)] = "no_creado"
          /\ pc'[CortoPlazo] = "dirigir" /\ pc'[PF(r)] \in {"espera", "no_creado"}
          /\ \A h \in Hilos : h # CortoPlazo /\ h # PF(r) => pc'[h] = pc[h]
          /\ UNCHANGED memoria
  BY RecibirPcbDe
<1>2. \A h \in Hilos : pc'[h] \in {"resp", "resp_liberar"} <=> pc[h] \in {"resp", "resp_liberar"}
  BY <1>1
<1>3. QED
  BY <1>1, <1>2 DEF Callado, Esperando, memoria

LEMMA SolicitarFinalizacionMensajes ==
    ASSUME TypeOK, NEW r, r[1] \in Pids, pc[CortoPlazo] = "dirigir", SolicitarFinalizacion(r)
    PROVE  Pide
<1>1. CortoPlazo \in Hilos /\ "resp_liberar" \in Lugares(CortoPlazo)
  BY HilosFijos, LugaresDe
<1>2. CortoPlazo \notin Esperando /\ Esperando' = Esperando \cup {CortoPlazo}
  BY <1>1, IrEsperando DEF SolicitarFinalizacion
<1>3. QED
  BY <1>1, <1>2 DEF Pide, SolicitarFinalizacion

LEMMA SolicitarIOMensajes ==
    ASSUME IInv, NEW r, r = ptr[CortoPlazo], Valido(r), pc[CortoPlazo] = "dirigir",
           SolicitarIO(r)
    PROVE  Callado
<1>1. /\ TypeOK /\ CortoPlazo \in Hilos /\ "espera_ready" \in Lugares(CortoPlazo)
      /\ UNCHANGED <<pedidos, respuestas>>
  BY HilosFijos, LugaresDe DEF IInv, SolicitarIO, memoria
<1>2. CASE Ir(CortoPlazo, "espera_ready")
  BY <1>1, <1>2, CalladoIr
<1>3. CASE pc' = [pc EXCEPT ![CortoPlazo] = "espera_ready", ![IO(r)] = "solicitud"]
  <2>1. r \in Refs
    BY <1>1, ValidoRef
  <2>2. IO(r) \in Hilos /\ IO(r) # CortoPlazo /\ pc[IO(r)] = "no_creado"
    BY <2>1, HilosPorIndice, HilosFijos DEF IInv, Referencias
  <2>3. QED
    BY <1>1, <1>3, <2>2, DosCallados
<1>4. QED
  BY <1>2, <1>3 DEF SolicitarIO

LEMMA DirigirMensajes ==
    ASSUME IInv, DirigirProcesoEjecutado
    PROVE  Callado \/ Pide
<1> DEFINE r == ptr[CortoPlazo]
<1>1. /\ TypeOK /\ CortoPlazo \in Hilos /\ pc[CortoPlazo] = "dirigir" /\ En(CortoPlazo, "dirigir")
      /\ {"espera_ready", "push_ready"} \subseteq Lugares(CortoPlazo)
  BY HilosFijos, LugaresDe DEF IInv, DirigirProcesoEjecutado, En
<1>2. CASE UsoTrasLiberar(CortoPlazo)
  BY <1>2, FallarMensajes DEF UsoTrasLiberar
<1>3. CASE Valido(r) /\ SolicitarFinalizacion(r)
  BY <1>1, <1>3, ValidoRef, SolicitarFinalizacionMensajes
<1>4. CASE Valido(r) /\ SolicitarIO(r)
  BY <1>1, <1>4, SolicitarIOMensajes
<1>5. CASE Seguir(CortoPlazo, "espera_ready")
  BY <1>1, <1>5, SeguirMensajes
<1>6. CASE Seguir(CortoPlazo, "push_ready")
  BY <1>1, <1>6, SeguirMensajes
<1>7. CASE Fallar("instruccion_nula")
  BY <1>7, FallarMensajes
<1>8. QED
  BY <1>2, <1>3, <1>4, <1>5, <1>6, <1>7 DEF DirigirProcesoEjecutado

LEMMA PlanificarEjecucionMensajes ==
    ASSUME IInv, PlanificarEjecucion
    PROVE  Callado \/ Pide \/ Recibe
<1>1. /\ TypeOK /\ CortoPlazo \in Hilos /\ CortoPlazo \in Pasadores
      /\ {"espera_ready", "mirar_rr", "sacar_rr", "sacar_fifo", "enviar", "destruir",
          "recibir"} \subseteq Lugares(CortoPlazo)
  BY HilosFijos, LugaresDe DEF IInv, Pasadores
<1>2. CASE EsperarReady
  BY <1>1, <1>2, EsperarMensajes DEF EsperarReady
<1>3. CASE MirarRR
  BY <1>1, <1>3, SeguirMensajes DEF MirarRR
<1>4. ASSUME NEW lugar \in {"sacar_rr", "sacar_fifo"}, NEW q, SacarReady(lugar, q)
      PROVE  Callado
  <2>1. CASE PopIndebido(cola[q])
    BY <2>1, FallarMensajes DEF PopIndebido
  <2>2. CASE ~PopIndebido(cola[q])
    BY <1>1, <1>4, <2>2, CalladoIr DEF SacarReady, En, memoria
  <2>3. QED
    BY <2>1, <2>2
<1>5. CASE EnviarPcb
  <2>1. CASE UsoTrasLiberar(CortoPlazo)
    BY <2>1, FallarMensajes DEF UsoTrasLiberar
  <2>2. CASE ~UsoTrasLiberar(CortoPlazo)
    BY <1>1, <1>5, <2>2, CalladoIr DEF EnviarPcb, En, memoria
  <2>3. QED
    BY <2>1, <2>2
<1>6. CASE DestruirPcb
  <2>1. CASE UsoTrasLiberar(CortoPlazo)
    BY <2>1, FallarMensajes DEF UsoTrasLiberar
  <2>2. CASE ~UsoTrasLiberar(CortoPlazo)
    BY <1>1, <1>6, <2>2, CalladoIr DEF DestruirPcb, En, memoria
  <2>3. QED
    BY <2>1, <2>2
<1>7. CASE RecibirPcb
  BY <1>7, RecibirPcbMensajes
<1>8. CASE DirigirProcesoEjecutado
  BY <1>8, DirigirMensajes
<1>9. CASE RecibirLiberar
  <2>1. CASE TramaCortada
    BY <2>1, FallarMensajes DEF TramaCortada
  <2>2. CASE ~TramaCortada
    BY <1>1, <1>9, <2>2, IrEsperando DEF RecibirLiberar, En, Recibe
  <2>3. QED
    BY <2>1, <2>2
<1>10. CASE PasarAReady(CortoPlazo)
  BY <1>1, <1>10, PasarAReadyMensajes
<1>11. QED
  BY <1>2, <1>3, <1>4, <1>5, <1>6, <1>7, <1>8, <1>9, <1>10 DEF PlanificarEjecucion

LEMMA EjecucionIOMensajes ==
    ASSUME IInv, NEW d \in Dispositivos, EjecucionIO(d)
    PROVE  Callado
<1>1. /\ TypeOK /\ ES(d) \in Hilos /\ ES(d) \in Pasadores
      /\ {"sacar", "push_ready"} \subseteq Lugares(ES(d))
  BY HilosPorIndice, LugaresDe DEF IInv, Pasadores
<1>2. CASE EsperarDispositivo(d)
  BY <1>1, <1>2, CalladoIr DEF EsperarDispositivo, En, memoria
<1>3. CASE SacarDispositivo(d)
  <2>1. CASE PopIndebido(cola_dispositivo[d])
    BY <2>1, FallarMensajes DEF PopIndebido
  <2>2. CASE ~PopIndebido(cola_dispositivo[d])
    BY <1>1, <1>3, <2>2, CalladoIr DEF SacarDispositivo, En, memoria
  <2>3. QED
    BY <2>1, <2>2
<1>4. CASE PasarAReady(ES(d))
  BY <1>1, <1>4, PasarAReadyMensajes
<1>5. QED
  BY <1>2, <1>3, <1>4 DEF EjecucionIO

LEMMA SolicitarIOConsolaMensajes ==
    ASSUME IInv, NEW r \in Refs, SolicitarIOConsola(r)
    PROVE  Callado
<1>1. /\ TypeOK /\ IO(r) \in Hilos /\ IO(r) \in Pasadores /\ "push_ready" \in Lugares(IO(r))
  BY HilosPorIndice, LugaresDe DEF IInv, Pasadores
<1>2. CASE PasarAReady(IO(r))
  BY <1>1, <1>2, PasarAReadyMensajes
<1>3. CASE UsoTrasLiberar(IO(r))
  BY <1>3, FallarMensajes DEF UsoTrasLiberar
<1>4. CASE En(IO(r), "solicitud") /\ Seguir(IO(r), "push_ready")
  BY <1>1, <1>4, SeguirMensajes
<1>5. QED
  BY <1>2, <1>3, <1>4 DEF SolicitarIOConsola, Solicitud

LEMMA ManejarPageFaultMensajes ==
    ASSUME IInv, NEW r \in Refs, ManejarPageFault(r)
    PROVE  Callado \/ Pide \/ Recibe
<1>1. /\ TypeOK /\ PF(r) \in Hilos /\ PF(r) \in Pasadores /\ PF(r) \in DePageFault
      /\ {"pedir", "push_ready", "muerto"} \subseteq Lugares(PF(r))
  BY HilosPorIndice, LugaresDe DEF IInv, Pasadores
<1>2. CASE EsperarPageFault(r)
  BY <1>1, <1>2, EsperarMensajes DEF EsperarPageFault
<1>3. CASE PedirPagina(r)
  <2>1. CASE Valido(ptr[PF(r)]) /\ Pedir(PF(r), "PAGINA")
    BY <1>1, <2>1, ValidoRef, PedirMensajes
  <2>2. CASE UsoTrasLiberar(PF(r))
    BY <2>2, FallarMensajes DEF UsoTrasLiberar
  <2>3. QED
    BY <1>3, <2>1, <2>2 DEF PedirPagina
<1>4. CASE RecibirPagina(r)
  <2>1. CASE TramaCortada
    BY <2>1, FallarMensajes DEF TramaCortada
  <2>2. CASE ~TramaCortada
    BY <1>1, <1>4, <2>2, RecibirMensajes DEF RecibirPagina, En
  <2>3. QED
    BY <2>1, <2>2
<1>5. CASE PasarAReady(PF(r))
  BY <1>1, <1>5, PasarAReadyMensajes
<1>6. QED
  BY <1>2, <1>3, <1>4, <1>5 DEF ManejarPageFault

\* What atender_kernel does: the codes it adds to the socket, one by one.
Pedido == [cod : {"ESTRUCTURAS", "PAGINA", "LIBERAR_ESTRUCTURAS"}, pid : Pids]
Respuesta == [cod : {"OKI_ESTRUCTURAS", "INDICES", "OKI_PAGINA", "OKI_LIBERAR_ESTRUCTURAS"},
              pid : Pids]
Msj(c, p) == [cod |-> c, pid |-> p]

LEMMA MsjTipo ==
    /\ \A c, p : Msj(c, p).cod = c /\ Msj(c, p).pid = p
    /\ \A p \in Pids : \A c \in {"OKI_ESTRUCTURAS", "INDICES", "OKI_PAGINA",
                                "OKI_LIBERAR_ESTRUCTURAS"} : Msj(c, p) \in Respuesta
BY DEF Msj, Respuesta

LEMMA AppendDosVeces ==
    ASSUME NEW S, NEW q \in Seq(S), NEW a \in S, NEW b \in S
    PROVE  /\ q \o <<a>> = Append(q, a)
           /\ q \o <<a, b>> = Append(Append(q, a), b)
<1>1. /\ <<a>> \in Seq(S) /\ <<a, b>> \in Seq(S)
      /\ Append(q, a) \in Seq(S) /\ Append(Append(q, a), b) \in Seq(S)
      /\ Len(Append(q, a)) = Len(q) + 1 /\ Len(Append(Append(q, a), b)) = Len(q) + 2
      /\ Len(q) \in Nat
  OBVIOUS
<1>2. q \o <<a>> = Append(q, a)
  OBVIOUS
<1>3. /\ q \o <<a, b>> \in Seq(S) /\ Len(q \o <<a, b>>) = Len(q) + 2
      /\ \A i \in 1..Len(q) : (q \o <<a, b>>)[i] = q[i]
      /\ (q \o <<a, b>>)[Len(q) + 1] = a /\ (q \o <<a, b>>)[Len(q) + 2] = b
  BY <1>1
<1>4. /\ \A i \in 1..Len(q) : Append(Append(q, a), b)[i] = q[i]
      /\ Append(Append(q, a), b)[Len(q) + 1] = a /\ Append(Append(q, a), b)[Len(q) + 2] = b
  BY <1>1
<1>5. \A i \in 1..(Len(q) + 2) : (q \o <<a, b>>)[i] = Append(Append(q, a), b)[i]
  <2>1. \A i \in 1..(Len(q) + 2) : i \in 1..Len(q) \/ i = Len(q) + 1 \/ i = Len(q) + 2
    BY <1>1
  <2>2. QED
    BY <2>1, <1>3, <1>4
<1>6. q \o <<a, b>> = Append(Append(q, a), b)
  <2> DEFINE s == q \o <<a, b>>
             t == Append(Append(q, a), b)
  <2>1. s \in Seq(S) /\ t \in Seq(S) /\ Len(s) = Len(t)
        /\ \A i \in 1..Len(s) : s[i] = t[i]
    BY <1>1, <1>3, <1>5
  <2> HIDE DEF s, t
  <2>2. s = t
    BY <2>1
  <2>3. QED
    BY <2>2 DEF s, t
<1>7. QED
  BY <1>2, <1>6

LEMMA AtenderKernelDe ==
    ASSUME IInv, AtenderKernel
    PROVE  \E p \in Pids :
              /\ pedidos # <<>> /\ Head(pedidos).pid = p /\ pedidos' = Tail(pedidos)
              /\ \/ /\ Head(pedidos).cod = "ESTRUCTURAS"
                    /\ respuestas' = Append(Append(respuestas, Msj("OKI_ESTRUCTURAS", p)),
                                            Msj("INDICES", p))
                    /\ estructuras' = [estructuras EXCEPT ![p] = "creadas"]
                 \/ /\ Head(pedidos).cod = "PAGINA"
                    /\ respuestas' = Append(respuestas, Msj("OKI_PAGINA", p))
                    /\ estructuras' = estructuras
                    /\ "swap" \in Carreras \/ pc[CortoPlazo] # "dirigir" \/ ptr[CortoPlazo][1] # p
                 \/ /\ Head(pedidos).cod = "LIBERAR_ESTRUCTURAS"
                    /\ respuestas' = Append(respuestas, Msj("OKI_LIBERAR_ESTRUCTURAS", p))
                    /\ estructuras' = [estructuras EXCEPT ![p] = "liberadas"]
              /\ UNCHANGED <<cola, sem, dispositivos, procesos, pc, ptr,
                             conexion_memoria_mutex, entorno>>
<1> DEFINE p == Head(pedidos).pid
           cod == Head(pedidos).cod
           F(cs) == [i \in 1..Len(cs) |-> [cod |-> cs[i], pid |-> p]]
<1>1. /\ pedidos # <<>> /\ pedidos \in Seq(Pedido) /\ respuestas \in Seq(Respuesta)
  BY DEF IInv, TypeOK, AtenderKernel, Pedido, Respuesta
<1>2. Head(pedidos) \in Pedido
  <2> HIDE DEF Pedido
  <2>1. QED
    BY <1>1
<1>3. p \in Pids /\ cod \in {"ESTRUCTURAS", "PAGINA", "LIBERAR_ESTRUCTURAS"}
  BY <1>2 DEF Pedido
<1>4. /\ F(<<"OKI_PAGINA">>) = <<Msj("OKI_PAGINA", p)>>
      /\ F(<<"OKI_LIBERAR_ESTRUCTURAS">>) = <<Msj("OKI_LIBERAR_ESTRUCTURAS", p)>>
  BY DEF Msj
<1>5. F(<<"OKI_ESTRUCTURAS", "INDICES">>) = <<Msj("OKI_ESTRUCTURAS", p), Msj("INDICES", p)>>
  BY DEF Msj
<1>6. /\ pedidos' = Tail(pedidos)
      /\ respuestas' = respuestas \o F(Codigos(cod))
      /\ UNCHANGED <<cola, sem, dispositivos, procesos, pc, ptr,
                     conexion_memoria_mutex, entorno>>
      /\ estructuras' = CASE cod = "ESTRUCTURAS" -> [estructuras EXCEPT ![p] = "creadas"]
                          [] cod = "PAGINA"      -> estructuras
                          [] OTHER               -> [estructuras EXCEPT ![p] = "liberadas"]
      /\ "swap" \in Carreras \/ cod # "PAGINA"
             \/ ~(pc[CortoPlazo] = "dirigir" /\ ptr[CortoPlazo][1] = p)
  BY DEF AtenderKernel
<1>7. CASE cod = "ESTRUCTURAS"
  <2>1. Codigos(cod) = <<"OKI_ESTRUCTURAS", "INDICES">>
    BY <1>7 DEF Codigos
  <2>2. respuestas' = respuestas \o <<Msj("OKI_ESTRUCTURAS", p), Msj("INDICES", p)>>
    <3> HIDE DEF F, p, cod
    <3>1. QED
      BY <1>6, <2>1, <1>5
  <2>3. respuestas' = Append(Append(respuestas, Msj("OKI_ESTRUCTURAS", p)), Msj("INDICES", p))
    <3>1. Msj("OKI_ESTRUCTURAS", p) \in Respuesta /\ Msj("INDICES", p) \in Respuesta
      BY <1>3, MsjTipo
    <3> HIDE DEF p
    <3>2. QED
      BY <1>1, <2>2, <3>1, AppendDosVeces
  <2>4. QED
    BY <1>1, <1>3, <1>6, <1>7, <2>3
<1>8. CASE cod = "PAGINA"
  <2>1. Codigos(cod) = <<"OKI_PAGINA">>
    BY <1>8 DEF Codigos
  <2>2. respuestas' = respuestas \o <<Msj("OKI_PAGINA", p)>>
    <3> HIDE DEF F, p, cod
    <3>1. QED
      BY <1>6, <2>1, <1>4
  <2>3. respuestas' = Append(respuestas, Msj("OKI_PAGINA", p))
    <3>1. Msj("OKI_PAGINA", p) \in Respuesta
      BY <1>3, MsjTipo
    <3> HIDE DEF p
    <3>2. QED
      BY <1>1, <2>2, <3>1, AppendDosVeces
  <2>4. QED
    BY <1>1, <1>3, <1>6, <1>8, <2>3
<1>9. CASE cod = "LIBERAR_ESTRUCTURAS"
  <2>1. Codigos(cod) = <<"OKI_LIBERAR_ESTRUCTURAS">>
    BY <1>9 DEF Codigos
  <2>2. respuestas' = respuestas \o <<Msj("OKI_LIBERAR_ESTRUCTURAS", p)>>
    <3> HIDE DEF F, p, cod
    <3>1. QED
      BY <1>6, <2>1, <1>4
  <2>3. respuestas' = Append(respuestas, Msj("OKI_LIBERAR_ESTRUCTURAS", p))
    <3>1. Msj("OKI_LIBERAR_ESTRUCTURAS", p) \in Respuesta
      BY <1>3, MsjTipo
    <3> HIDE DEF p
    <3>2. QED
      BY <1>1, <2>2, <3>1, AppendDosVeces
  <2>4. QED
    BY <1>1, <1>3, <1>6, <1>9, <2>3
<1>10. QED
  BY <1>3, <1>7, <1>8, <1>9

-----------------------------------------------------------------------------
(* Nobody waits for a code that cannot come. *)

Sumas == Len(pedidos) + Cardinality(ConCodigo(respuestas))
IEspera == IInv /\ IsFiniteSet(Esperando) /\ Sumas = Cardinality(Esperando)

LEMMA AtenderKernelEspera ==
    ASSUME IEspera, AtenderKernel
    PROVE  IsFiniteSet(Esperando') /\ Sumas' = Cardinality(Esperando')
<1>1. /\ IInv /\ pedidos \in Seq(Pedido) /\ respuestas \in Seq(Respuesta)
  BY DEF IEspera, IInv, TypeOK, Pedido, Respuesta
<1>2. PICK p \in Pids :
        /\ pedidos # <<>> /\ pedidos' = Tail(pedidos)
        /\ \/ respuestas' = Append(Append(respuestas, Msj("OKI_ESTRUCTURAS", p)), Msj("INDICES", p))
           \/ respuestas' = Append(respuestas, Msj("OKI_PAGINA", p))
           \/ respuestas' = Append(respuestas, Msj("OKI_LIBERAR_ESTRUCTURAS", p))
        /\ UNCHANGED pc
  BY <1>1, AtenderKernelDe
<1>3. Esperando' = Esperando
  BY <1>2 DEF Esperando
<1> DEFINE n == Cardinality(ConCodigo(respuestas))
<1>4. n \in Nat
  BY <1>1, ConCodigoFinito
<1>5. Cardinality(ConCodigo(respuestas')) = n + 1
  <2>1. \A c \in {"OKI_ESTRUCTURAS", "OKI_PAGINA", "OKI_LIBERAR_ESTRUCTURAS"} :
           /\ Cardinality(ConCodigo(Append(respuestas, Msj(c, p)))) = n + 1
           /\ Append(respuestas, Msj(c, p)) \in Seq(Respuesta)
    <3>1. TAKE c \in {"OKI_ESTRUCTURAS", "OKI_PAGINA", "OKI_LIBERAR_ESTRUCTURAS"}
    <3>2. Msj(c, p) \in Respuesta /\ Msj(c, p).cod # "INDICES"
      BY MsjTipo
    <3>3. QED
      BY <1>1, <3>2, ConCodigoAppend
  <2>2. CASE respuestas' = Append(Append(respuestas, Msj("OKI_ESTRUCTURAS", p)), Msj("INDICES", p))
    <3>1. Msj("INDICES", p) \in Respuesta /\ Msj("INDICES", p).cod = "INDICES"
      BY MsjTipo
    <3>2. Cardinality(ConCodigo(respuestas'))
            = Cardinality(ConCodigo(Append(respuestas, Msj("OKI_ESTRUCTURAS", p)))) + 0
      BY <2>1, <2>2, <3>1, ConCodigoAppend
    <3>3. QED
      BY <2>1, <3>2, <1>4
  <2>3. QED
    BY <1>2, <2>1, <2>2
<1>6. Len(pedidos') = Len(pedidos) - 1 /\ Len(pedidos) \in Nat
  BY <1>1, <1>2
<1>7. Len(pedidos) + n = Cardinality(Esperando)
  BY DEF IEspera, Sumas
<1>8. Len(pedidos') + Cardinality(ConCodigo(respuestas')) = Cardinality(Esperando)
  <2> HIDE DEF n
  <2>1. QED
    BY ONLY <1>4, <1>5, <1>6, <1>7
<1>9. QED
  BY <1>3, <1>8 DEF IEspera, Sumas

LEMMA MensajesEspera ==
    ASSUME IEspera, Callado \/ Pide \/ Recibe
    PROVE  IsFiniteSet(Esperando') /\ Sumas' = Cardinality(Esperando')
<1>1. /\ pedidos \in Seq(Pedido) /\ respuestas \in Seq(Respuesta) /\ IsFiniteSet(Esperando)
      /\ Len(pedidos) \in Nat
  BY DEF IEspera, IInv, TypeOK, Pedido, Respuesta
<1> DEFINE n == Cardinality(ConCodigo(respuestas))
           e == Cardinality(Esperando)
           l == Len(pedidos)
<1>2. n \in Nat /\ e \in Nat /\ l \in Nat /\ l + n = e
  BY <1>1, ConCodigoFinito, FS_CardinalityType DEF IEspera, Sumas
<1>3. CASE Callado
  BY <1>3 DEF Callado, IEspera, Sumas
<1>4. CASE Pide
  <2>1. PICK h \in Hilos, m \in Pedido :
           /\ pedidos' = Append(pedidos, m) /\ respuestas' = respuestas
           /\ h \notin Esperando /\ Esperando' = Esperando \cup {h}
    BY <1>4 DEF Pide, Pedido
  <2>2. Len(pedidos') = l + 1
    BY <1>1, <2>1
  <2>3. IsFiniteSet(Esperando') /\ Cardinality(Esperando') = e + 1
    BY <1>1, <2>1, FS_AddElement
  <2>4. Cardinality(ConCodigo(respuestas')) = n
    BY <2>1
  <2> HIDE DEF n, e, l
  <2>5. Len(pedidos') + Cardinality(ConCodigo(respuestas')) = Cardinality(Esperando')
    BY ONLY <1>2, <2>2, <2>3, <2>4
  <2>6. QED
    BY <2>3, <2>5 DEF Sumas
<1>5. CASE Recibe
  <2>1. respuestas # <<>> /\ respuestas' = Tail(respuestas) /\ pedidos' = pedidos
    BY <1>5 DEF Recibe
  <2>2. n = Cardinality(ConCodigo(respuestas'))
               + (IF Head(respuestas).cod = "INDICES" THEN 0 ELSE 1)
        /\ Cardinality(ConCodigo(respuestas')) \in Nat
    <3>1. Tail(respuestas) \in Seq(Respuesta)
      BY <1>1, <2>1
    <3>2. QED
      BY <1>1, <2>1, <3>1, ConCodigoTail, ConCodigoFinito
  <2>3. CASE Head(respuestas).cod = "INDICES"
    <3>1. Esperando' = Esperando
      BY <1>5, <2>3 DEF Recibe
    <3>2. n = Cardinality(ConCodigo(respuestas'))
      BY <2>2, <2>3
    <3> HIDE DEF n, e, l
    <3>3. l + Cardinality(ConCodigo(respuestas')) = Cardinality(Esperando)
      BY ONLY <1>2, <3>2 DEF e
    <3>4. QED
      BY <1>1, <2>1, <3>1, <3>3 DEF Sumas, l
  <2>4. CASE Head(respuestas).cod # "INDICES"
    <3>1. PICK h \in Esperando : Esperando' = Esperando \ {h}
      BY <1>5, <2>4 DEF Recibe
    <3>2. IsFiniteSet(Esperando') /\ Cardinality(Esperando') = e - 1
      BY <1>1, <3>1, FS_RemoveElement
    <3>3. n = Cardinality(ConCodigo(respuestas')) + 1
      BY <2>2, <2>4
    <3> HIDE DEF n, e, l
    <3>4. l + Cardinality(ConCodigo(respuestas')) = Cardinality(Esperando')
      BY ONLY <1>2, <2>2, <3>2, <3>3
    <3>5. QED
      BY <2>1, <3>2, <3>4 DEF Sumas, l
  <2>5. QED
    BY <2>3, <2>4
<1>6. QED
  BY <1>3, <1>4, <1>5

LEMMA LlegadaMensajes ==
    ASSUME IInv, AtenderNuevaConsola \/ AvisarNew
    PROVE  Callado
<1>1. /\ TypeOK /\ Conexiones \in Hilos
      /\ Lugares(Conexiones) = {"esperar_cliente", "post_new"}
  BY HilosFijos, LugaresDe DEF IInv
<1>2. CASE AtenderNuevaConsola
  <2>1. Ir(Conexiones, "post_new") /\ pc[Conexiones] = "esperar_cliente"
        /\ UNCHANGED <<pedidos, respuestas>>
    BY <1>2 DEF AtenderNuevaConsola, En, memoria
  <2>2. QED
    BY <1>1, <2>1, CalladoIr
<1>3. CASE AvisarNew
  BY <1>1, <1>3, AvisarMensajes DEF AvisarNew
<1>4. QED
  BY <1>2, <1>3

LEMMA IEsperaPaso == IEspera /\ [Next]_vars => IEspera'
<1> SUFFICES ASSUME IEspera, [Next]_vars PROVE IEspera'
  OBVIOUS
<1>1. IInv /\ IInv'
  BY IInvPaso DEF IEspera
<1>2. CASE AtenderKernel
  BY <1>1, <1>2, AtenderKernelEspera DEF IEspera
<1>3. CASE Callado \/ Pide \/ Recibe
  BY <1>1, <1>3, MensajesEspera DEF IEspera
<1>4. CASE AtenderNuevaConsola \/ AvisarNew
  BY <1>1, <1>3, <1>4, LlegadaMensajes
<1>5. CASE NewAReady
  BY <1>1, <1>3, <1>5, NewAReadyMensajes
<1>6. CASE RajarPcb
  BY <1>1, <1>3, <1>6, RajarPcbMensajes
<1>7. CASE PlanificarEjecucion
  BY <1>1, <1>3, <1>7, PlanificarEjecucionMensajes
<1>8. CASE \E d \in Dispositivos : EjecucionIO(d)
  BY <1>1, <1>3, <1>8, EjecucionIOMensajes
<1>9. CASE \E r \in Refs : SolicitarIOConsola(r)
  BY <1>1, <1>3, <1>9, SolicitarIOConsolaMensajes
<1>10. CASE \E r \in Refs : ManejarPageFault(r)
  BY <1>1, <1>3, <1>10, ManejarPageFaultMensajes
<1>11. CASE EjecutarRafaga \/ UNCHANGED vars
  <2>1. UNCHANGED <<pedidos, respuestas, pc>>
    BY <1>11 DEF EjecutarRafaga, vars, memoria
  <2>2. Callado
    BY <2>1 DEF Callado, Esperando
  <2>3. QED
    BY <1>3, <2>2
<1>12. QED
  BY <1>2, <1>4, <1>5, <1>6, <1>7, <1>8, <1>9, <1>10, <1>11 DEF Next

LEMMA IEsperaInicial == Init => IEspera
<1> SUFFICES ASSUME Init PROVE IEspera
  OBVIOUS
<1>1. Esperando = {}
  <2>1. \A h \in Hilos : pc[h] = PcInicial(h)
    BY DEF Init
  <2>2. \A h \in Hilos : PcInicial(h) \notin {"resp", "resp_liberar"}
    BY PcInicialDe DEF Hilos
  <2>3. QED
    BY <2>1, <2>2 DEF Esperando
<1>2. pedidos = <<>> /\ respuestas = <<>>
  BY DEF Init
<1>3. ConCodigo(respuestas) = {} /\ Len(pedidos) = 0
  BY <1>2 DEF ConCodigo
<1>4. IsFiniteSet({}) /\ Cardinality({}) = 0
  BY FS_EmptySet
<1>5. QED
  BY <1>1, <1>3, <1>4, IInvInicial DEF IEspera, Sumas

\* The strengthening of NadieEsperaEnVano is an invariant: no step of the threads, of
\* the memory or of the CPU changes requests, codes and waiting threads unevenly.
THEOREM InvarianteEspera == Spec => []IEspera
<1>1. QED
  BY IEsperaInicial, IEsperaPaso, PTL DEF Spec

\* Nobody waits in recibir_operacion for a code that cannot come: requests and codes
\* under way are as many as the threads of planificacion.c that wait for one, even
\* when a thread takes the reply of another.
THEOREM EsperaAcotada == Spec => []NadieEsperaEnVano
<1>1. IEspera => NadieEsperaEnVano
  BY DEF IEspera, Sumas, Esperando, NadieEsperaEnVano, CodigosEnCamino, ConCodigo
<1>2. QED
  BY <1>1, InvarianteEspera, PTL

-----------------------------------------------------------------------------
(* Every page fault thread that has not begun has a unit. *)

EnTurno == {r \in Refs : pc[PF(r)] = "espera"}
ITurno == /\ IInv /\ IsFiniteSet(EnTurno)
          /\ sem["proceso_page_fault"] = Cardinality(EnTurno)

\* What a step does that is of no page fault thread's turn.
TurnosQuietos ==
    sem'["proceso_page_fault"] = sem["proceso_page_fault"] /\ EnTurno' = EnTurno

LEMMA TurnoIr ==
    ASSUME TypeOK, NEW h \in Hilos, NEW l, Ir(h, l),
           h \in DePageFault => pc[h] # "espera" /\ l # "espera",
           sem'["proceso_page_fault"] = sem["proceso_page_fault"]
    PROVE  TurnosQuietos
<1>1. \A r \in Refs : pc'[PF(r)] = "espera" <=> pc[PF(r)] = "espera"
  BY HilosPorIndice DEF TypeOK, Ir
<1>2. QED
  BY <1>1 DEF TurnosQuietos, EnTurno

LEMMA EsperarTurno ==
    ASSUME TypeOK, NEW h \in Hilos, NEW de, NEW s \in Semaforos, NEW a,
           Esperar(h, de, s, a), s # "proceso_page_fault",
           h \in DePageFault => de # "espera" /\ a # "espera"
    PROVE  TurnosQuietos
<1>1. Ir(h, a) /\ pc[h] = de /\ sem'["proceso_page_fault"] = sem["proceso_page_fault"]
  BY DEF TypeOK, Esperar, En, Semaforos
<1>2. QED
  BY <1>1, TurnoIr

LEMMA AvisarTurno ==
    ASSUME TypeOK, NEW h \in Hilos, NEW de, NEW s \in Semaforos, NEW a,
           Avisar(h, de, s, a), s # "proceso_page_fault",
           h \in DePageFault => de # "espera" /\ a # "espera"
    PROVE  TurnosQuietos
<1>1. Ir(h, a) /\ pc[h] = de /\ sem'["proceso_page_fault"] = sem["proceso_page_fault"]
  BY DEF TypeOK, Avisar, En, Semaforos
<1>2. QED
  BY <1>1, TurnoIr

LEMMA SeguirTurno ==
    ASSUME TypeOK, NEW h \in Hilos, NEW a, Seguir(h, a), h \notin DePageFault
    PROVE  TurnosQuietos
BY TurnoIr DEF Seguir

LEMMA FallarTurno == ASSUME NEW f, Fallar(f) PROVE TurnosQuietos
BY DEF Fallar, TurnosQuietos, EnTurno

LEMMA PasarAReadyTurno ==
    ASSUME TypeOK, NEW h \in Pasadores, PasarAReady(h)
    PROVE  TurnosQuietos
<1>1. h \in Hilos /\ (h \in DePageFault => TrasReady(h) = "fin")
  BY PasadoresDe, TrasReadyDe
<1>2. CASE PushReady(h)
  BY <1>1, <1>2, TurnoIr DEF PushReady, En
<1>3. CASE LimpiarBanderas(h)
  BY <1>1, <1>3, TurnoIr DEF LimpiarBanderas, En
<1>4. CASE UsoTrasLiberar(h)
  BY <1>4, FallarTurno DEF UsoTrasLiberar
<1>5. CASE Avisar(h, "post_ready", "procesos_ready", TrasReady(h))
  BY <1>1, <1>5, AvisarTurno DEF Semaforos
<1>6. QED
  BY <1>2, <1>3, <1>4, <1>5 DEF PasarAReady

LEMMA NewAReadyTurno ==
    ASSUME IInv, NewAReady
    PROVE  TurnosQuietos
<1>1. /\ TypeOK /\ LargoPlazo \in Hilos /\ LargoPlazo \in Pasadores
      /\ LargoPlazo \notin DePageFault
  BY HilosFijos DEF IInv, Pasadores
<1>2. CASE EsperarNew
  BY <1>1, <1>2, EsperarTurno DEF EsperarNew, Semaforos
<1>3. CASE EsperarGrado
  BY <1>1, <1>3, EsperarTurno DEF EsperarGrado, Semaforos
<1>4. CASE SacarNew
  BY <1>1, <1>4, FallarTurno, TurnoIr DEF SacarNew, PopIndebido
<1>5. CASE Pedir(LargoPlazo, "ESTRUCTURAS")
  BY <1>1, <1>5, TurnoIr DEF Pedir
<1>6. CASE RecibirEstructuras
  BY <1>1, <1>6, FallarTurno, TurnoIr DEF RecibirEstructuras, Recibir, TramaCortada
<1>7. CASE RecibirIndices
  BY <1>1, <1>7, FallarTurno, TurnoIr DEF RecibirIndices, Recibir
<1>8. CASE PasarAReady(LargoPlazo)
  BY <1>1, <1>8, PasarAReadyTurno
<1>9. QED
  BY <1>2, <1>3, <1>4, <1>5, <1>6, <1>7, <1>8 DEF NewAReady

LEMMA RajarPcbTurno ==
    ASSUME IInv, RajarPcb
    PROVE  TurnosQuietos
<1>1. TypeOK /\ Rajar \in Hilos /\ Rajar \notin DePageFault
  BY HilosFijos DEF IInv
<1>2. CASE EsperarFinalizados
  BY <1>1, <1>2, EsperarTurno DEF EsperarFinalizados, Semaforos
<1>3. CASE SacarExit
  BY <1>1, <1>3, FallarTurno, TurnoIr DEF SacarExit, PopIndebido
<1>4. CASE AvisarGrado
  BY <1>1, <1>4, AvisarTurno DEF AvisarGrado, Semaforos
<1>5. QED
  BY <1>2, <1>3, <1>4 DEF RajarPcb

LEMMA DirigirTurno ==
    ASSUME IInv, DirigirProcesoEjecutado
    PROVE  TurnosQuietos
<1> DEFINE r == ptr[CortoPlazo]
<1>1. TypeOK /\ CortoPlazo \in Hilos /\ CortoPlazo \notin DePageFault
  BY HilosFijos DEF IInv
<1>2. CASE UsoTrasLiberar(CortoPlazo)
  BY <1>2, FallarTurno DEF UsoTrasLiberar
<1>3. CASE Valido(r) /\ SolicitarFinalizacion(r)
  BY <1>1, <1>3, TurnoIr DEF SolicitarFinalizacion
<1>4. CASE Valido(r) /\ SolicitarIO(r)
  <2>1. sem' = sem
    BY <1>4 DEF SolicitarIO
  <2>2. CASE Ir(CortoPlazo, "espera_ready")
    BY <1>1, <2>1, <2>2, TurnoIr
  <2>3. CASE pc' = [pc EXCEPT ![CortoPlazo] = "espera_ready", ![IO(r)] = "solicitud"]
    <3>1. r \in Refs
      BY <1>1, <1>4, ValidoRef
    <3>2. \A q \in Refs : PF(q) # CortoPlazo /\ PF(q) # IO(r)
      BY <3>1, HilosPorIndice, HilosFijos
    <3>3. \A q \in Refs : pc'[PF(q)] = pc[PF(q)]
      BY <1>1, <2>3, <3>2, HilosPorIndice DEF TypeOK
    <3>4. QED
      BY <2>1, <3>3 DEF TurnosQuietos, EnTurno
  <2>4. QED
    BY <1>4, <2>2, <2>3 DEF SolicitarIO
<1>5. CASE Seguir(CortoPlazo, "espera_ready")
  BY <1>1, <1>5, SeguirTurno
<1>6. CASE Seguir(CortoPlazo, "push_ready")
  BY <1>1, <1>6, SeguirTurno
<1>7. CASE Fallar("instruccion_nula")
  BY <1>7, FallarTurno
<1>8. QED
  BY <1>2, <1>3, <1>4, <1>5, <1>6, <1>7 DEF DirigirProcesoEjecutado

\* The dispatcher posts a unit for each page fault thread it starts.
LEMMA RecibirPcbTurno ==
    ASSUME ITurno, RecibirPcb
    PROVE  IsFiniteSet(EnTurno') /\ sem'["proceso_page_fault"] = Cardinality(EnTurno')
<1>1. TypeOK /\ IsFiniteSet(EnTurno) /\ sem["proceso_page_fault"] = Cardinality(EnTurno)
  BY DEF ITurno, IInv
<1>2. PICK p \in Pids, r \in Refs :
          /\ p = cpu.pid /\ r = <<p, rafagas[p] + 1>>
          /\ pc[PF(r)] = "no_creado"
          /\ pc'[PF(r)] = IF cpu.pcb.page_fault THEN "espera" ELSE "no_creado"
          /\ \A h \in Hilos : h # CortoPlazo /\ h # PF(r) => pc'[h] = pc[h]
  BY RecibirPcbDe DEF ITurno
<1>3. \A q \in Refs : q # r => pc'[PF(q)] = pc[PF(q)]
  <2>1. \A q \in Refs : PF(q) \in Hilos /\ PF(q) # CortoPlazo /\ (q # r => PF(q) # PF(r))
    BY HilosPorIndice, HilosFijos DEF PF
  <2>2. QED
    BY <1>2, <2>1
<1>4. sem'["proceso_page_fault"]
         = sem["proceso_page_fault"] + (IF cpu.pcb.page_fault THEN 1 ELSE 0)
  BY <1>1 DEF RecibirPcb, TypeOK, Semaforos
<1>5. CASE cpu.pcb.page_fault
  <2>1. r \notin EnTurno /\ EnTurno' = EnTurno \cup {r}
    BY <1>2, <1>3, <1>5 DEF EnTurno
  <2>2. IsFiniteSet(EnTurno') /\ Cardinality(EnTurno') = Cardinality(EnTurno) + 1
    BY <1>1, <2>1, FS_AddElement
  <2>3. QED
    BY <1>1, <1>4, <1>5, <2>2
<1>6. CASE ~cpu.pcb.page_fault
  <2>1. EnTurno' = EnTurno
    BY <1>2, <1>3, <1>6 DEF EnTurno
  <2>2. Cardinality(EnTurno) \in Nat
    BY <1>1, FS_CardinalityType
  <2>3. QED
    BY <1>1, <1>4, <1>6, <2>1, <2>2
<1>7. QED
  BY <1>5, <1>6

LEMMA PlanificarEjecucionTurno ==
    ASSUME ITurno, PlanificarEjecucion
    PROVE  IsFiniteSet(EnTurno') /\ sem'["proceso_page_fault"] = Cardinality(EnTurno')
<1>1. /\ IInv /\ TypeOK /\ CortoPlazo \in Hilos /\ CortoPlazo \in Pasadores
      /\ CortoPlazo \notin DePageFault
  BY HilosFijos DEF ITurno, IInv, Pasadores
<1>2. CASE TurnosQuietos
  BY <1>2 DEF ITurno, TurnosQuietos
<1>3. CASE EsperarReady
  BY <1>1, <1>2, <1>3, EsperarTurno DEF EsperarReady, Semaforos
<1>4. CASE MirarRR
  BY <1>1, <1>2, <1>4, SeguirTurno DEF MirarRR
<1>5. ASSUME NEW lugar, NEW q, SacarReady(lugar, q)
      PROVE  TurnosQuietos
  BY <1>1, <1>5, FallarTurno, TurnoIr DEF SacarReady, PopIndebido
<1>6. CASE EnviarPcb
  BY <1>1, <1>2, <1>6, FallarTurno, TurnoIr DEF EnviarPcb, UsoTrasLiberar
<1>7. CASE DestruirPcb
  BY <1>1, <1>2, <1>7, FallarTurno, TurnoIr DEF DestruirPcb, UsoTrasLiberar
<1>8. CASE RecibirPcb
  BY <1>8, RecibirPcbTurno
<1>9. CASE DirigirProcesoEjecutado
  BY <1>1, <1>2, <1>9, DirigirTurno
<1>10. CASE RecibirLiberar
  <2>1. CASE TramaCortada
    BY <1>2, <2>1, FallarTurno DEF TramaCortada
  <2>2. CASE ~TramaCortada
    <3>1. /\ Ir(CortoPlazo, "espera_ready")
          /\ sem'["proceso_page_fault"] = sem["proceso_page_fault"]
      BY <1>1, <1>10, <2>2 DEF RecibirLiberar, TypeOK, Semaforos
    <3>2. QED
      BY <1>1, <1>2, <3>1, TurnoIr
  <2>3. QED
    BY <2>1, <2>2
<1>11. CASE PasarAReady(CortoPlazo)
  BY <1>1, <1>2, <1>11, PasarAReadyTurno
<1>12. QED
  BY <1>2, <1>3, <1>4, <1>5, <1>6, <1>7, <1>8, <1>9, <1>10, <1>11 DEF PlanificarEjecucion

LEMMA BloqueadosTurno ==
    ASSUME IInv, \/ \E d \in Dispositivos : EjecucionIO(d)
                 \/ \E r \in Refs : SolicitarIOConsola(r)
    PROVE  TurnosQuietos
<1>1. TypeOK
  BY DEF IInv
<1>2. ASSUME NEW d \in Dispositivos, EjecucionIO(d)
      PROVE  TurnosQuietos
  <2>1. ES(d) \in Hilos /\ ES(d) \in Pasadores /\ ES(d) \notin DePageFault
    BY HilosPorIndice, HilosFijos DEF Pasadores
  <2>2. CASE EsperarDispositivo(d)
    BY <1>1, <2>1, <2>2, TurnoIr DEF EsperarDispositivo
  <2>3. CASE SacarDispositivo(d)
    BY <1>1, <2>1, <2>3, FallarTurno, TurnoIr DEF SacarDispositivo, PopIndebido
  <2>4. QED
    BY <1>1, <1>2, <2>1, <2>2, <2>3, PasarAReadyTurno DEF EjecucionIO
<1>3. ASSUME NEW r \in Refs, SolicitarIOConsola(r)
      PROVE  TurnosQuietos
  <2>1. IO(r) \in Hilos /\ IO(r) \in Pasadores /\ IO(r) \notin DePageFault
    BY HilosPorIndice, HilosFijos DEF Pasadores
  <2>2. CASE Solicitud(r)
    BY <1>1, <2>1, <2>2, FallarTurno, SeguirTurno DEF Solicitud, UsoTrasLiberar
  <2>3. QED
    BY <1>1, <1>3, <2>1, <2>2, PasarAReadyTurno DEF SolicitarIOConsola
<1>4. QED
  BY <1>2, <1>3

\* A page fault thread takes one unit, whichever it was posted for, and never waits again.
LEMMA ManejarPageFaultTurno ==
    ASSUME ITurno, NEW r \in Refs, ManejarPageFault(r)
    PROVE  IsFiniteSet(EnTurno') /\ sem'["proceso_page_fault"] = Cardinality(EnTurno')
<1>1. /\ TypeOK /\ PF(r) \in Hilos /\ PF(r) \in Pasadores
      /\ IsFiniteSet(EnTurno) /\ sem["proceso_page_fault"] = Cardinality(EnTurno)
  BY HilosPorIndice DEF ITurno, IInv, Pasadores
<1>2. CASE TurnosQuietos
  BY <1>2 DEF ITurno, TurnosQuietos
<1>3. CASE EsperarPageFault(r)
  <2>1. /\ Ir(PF(r), "pedir") /\ pc[PF(r)] = "espera"
        /\ sem'["proceso_page_fault"] = sem["proceso_page_fault"] - 1
    BY <1>1, <1>3 DEF EsperarPageFault, Esperar, En, TypeOK, Semaforos
  <2>2. r \in EnTurno /\ EnTurno' = EnTurno \ {r}
    <3>1. \A q \in Refs : PF(q) \in Hilos /\ (q # r => PF(q) # PF(r))
      BY HilosPorIndice DEF PF
    <3>2. pc'[PF(r)] = "pedir" /\ \A q \in Refs : q # r => pc'[PF(q)] = pc[PF(q)]
      BY <1>1, <2>1, <3>1 DEF TypeOK, Ir
    <3>3. QED
      BY <2>1, <3>2 DEF EnTurno
  <2>3. IsFiniteSet(EnTurno') /\ Cardinality(EnTurno') = Cardinality(EnTurno) - 1
    BY <1>1, <2>2, FS_RemoveElement
  <2>4. QED
    BY <1>1, <2>1, <2>3
<1>4. CASE PedirPagina(r)
  BY <1>1, <1>2, <1>4, FallarTurno, TurnoIr DEF PedirPagina, Pedir, En, UsoTrasLiberar
<1>5. CASE RecibirPagina(r)
  BY <1>1, <1>2, <1>5, FallarTurno, TurnoIr DEF RecibirPagina, Recibir, En, TramaCortada
<1>6. CASE PasarAReady(PF(r))
  BY <1>1, <1>2, <1>6, PasarAReadyTurno
<1>7. QED
  BY <1>3, <1>4, <1>5, <1>6 DEF ManejarPageFault

LEMMA ITurnoPaso == ITurno /\ [Next]_vars => ITurno'
<1> SUFFICES ASSUME ITurno, [Next]_vars PROVE ITurno'
  OBVIOUS
<1>1. IInv /\ IInv' /\ TypeOK
  BY IInvPaso DEF ITurno, IInv
<1>2. CASE TurnosQuietos
  BY <1>1, <1>2 DEF ITurno, TurnosQuietos
<1>3. CASE AtenderNuevaConsola \/ AvisarNew
  <2>1. Conexiones \in Hilos /\ Conexiones \notin DePageFault
    BY HilosFijos
  <2>2. CASE AtenderNuevaConsola
    BY <1>1, <1>2, <2>1, <2>2, TurnoIr DEF AtenderNuevaConsola
  <2>3. CASE AvisarNew
    BY <1>1, <1>2, <2>1, <2>3, AvisarTurno DEF AvisarNew, Semaforos
  <2>4. QED
    BY <1>3, <2>2, <2>3
<1>4. CASE NewAReady
  BY <1>1, <1>2, <1>4, NewAReadyTurno
<1>5. CASE RajarPcb
  BY <1>1, <1>2, <1>5, RajarPcbTurno
<1>6. CASE PlanificarEjecucion
  BY <1>1, <1>6, PlanificarEjecucionTurno DEF ITurno
<1>7. CASE (\E d \in Dispositivos : EjecucionIO(d)) \/ \E r \in Refs : SolicitarIOConsola(r)
  BY <1>1, <1>2, <1>7, BloqueadosTurno
<1>8. CASE \E r \in Refs : ManejarPageFault(r)
  BY <1>1, <1>8, ManejarPageFaultTurno DEF ITurno
<1>9. CASE AtenderKernel \/ EjecutarRafaga \/ UNCHANGED vars
  <2>1. UNCHANGED <<sem, pc>>
    BY <1>9 DEF AtenderKernel, EjecutarRafaga, vars
  <2>2. QED
    BY <1>2, <2>1 DEF TurnosQuietos, EnTurno
<1>10. QED
  BY <1>3, <1>4, <1>5, <1>6, <1>7, <1>8, <1>9 DEF Next

LEMMA ITurnoInicial == Init => ITurno
<1> SUFFICES ASSUME Init PROVE ITurno
  OBVIOUS
<1>1. EnTurno = {}
  <2>1. \A r \in Refs : pc[PF(r)] = "no_creado"
    BY PcInicialDe, HilosPorIndice DEF Init
  <2>2. QED
    BY <2>1 DEF EnTurno
<1>2. sem["proceso_page_fault"] = 0
  BY DEF Init, Semaforos
<1>3. QED
  BY <1>1, <1>2, IInvInicial, FS_EmptySet DEF ITurno

\* The strengthening of TurnoDePageFault is an invariant: only the dispatcher posts
\* proceso_page_fault, once for each thread it starts, and only those threads wait on it.
THEOREM InvarianteTurno == Spec => []ITurno
<1>1. QED
  BY ITurnoInicial, ITurnoPaso, PTL DEF Spec

\* No page fault thread of manejar_page_fault is left without its turn: whichever takes
\* the unit posted for another, each that has not begun still has one.
THEOREM TurnoSeguro == Spec => []TurnoDePageFault
<1>1. ITurno => TurnoDePageFault
  BY DEF ITurno, EnTurno, TurnoDePageFault
<1>2. QED
  BY <1>1, InvarianteTurno, PTL

-----------------------------------------------------------------------------
(* Pushes and pops, element by element. *)

LEMMA AlEncolar ==
    ASSUME NEW S, NEW q \in Seq(S), NEW e \in S
    PROVE  /\ Append(q, e) \in Seq(S)
           /\ Len(q) \in Nat /\ Len(Append(q, e)) = Len(q) + 1
           /\ DOMAIN q = 1..Len(q) /\ DOMAIN Append(q, e) = 1..(Len(q) + 1)
           /\ \A i \in 1..Len(q) : Append(q, e)[i] = q[i]
           /\ Append(q, e)[Len(q) + 1] = e
OBVIOUS

LEMMA AlDesencolar ==
    ASSUME NEW S, NEW q \in Seq(S), q # <<>>
    PROVE  /\ Tail(q) \in Seq(S) /\ Head(q) \in S /\ Head(q) = q[1]
           /\ Len(q) \in Nat /\ Len(q) >= 1 /\ Len(Tail(q)) = Len(q) - 1
           /\ DOMAIN q = 1..Len(q) /\ DOMAIN Tail(q) = 1..(Len(q) - 1)
           /\ \A i \in 1..(Len(q) - 1) : Tail(q)[i] = q[i + 1]
OBVIOUS

-----------------------------------------------------------------------------
(* Admission: what a step does not touch stays as it was. *)

\* The numbers Corte stands between.
LEMMA CorteTipo ==
    ASSUME IInv, NewEnOrden
    PROVE  /\ Corte \in Nat /\ Corte <= pid_actual /\ pid_actual \in Nat /\ pid_actual <= MaxPid
           /\ Len(cola["new"]) \in Nat /\ pid_actual = Corte + Len(cola["new"])
           /\ cola["new"] \in Seq(Refs) /\ DOMAIN cola["new"] = 1..Len(cola["new"])
           /\ 1..Corte \subseteq Pids
<1>1. cola["new"] \in Seq(Refs) /\ pid_actual \in 0..MaxPid
  BY DEF IInv, TypeOK, Colas
<1>2. Len(cola["new"]) \in Nat /\ DOMAIN cola["new"] = 1..Len(cola["new"])
  BY <1>1
<1>3. QED
  BY <1>1, <1>2, LimitesAssumption DEF NewEnOrden, Corte, Pids

\* With the NEW queue in order, who holds a unit is told by Corte.
LEMMA AdmitidosDe ==
    ASSUME IInv, NewEnOrden
    PROVE  Admitidos = {p \in 1..Corte : vida[p] # "destruida"}
<1>1. /\ Corte \in Nat /\ pid_actual \in Nat /\ Len(cola["new"]) \in Nat
      /\ pid_actual = Corte + Len(cola["new"])
      /\ DOMAIN cola["new"] = 1..Len(cola["new"]) /\ 1..Corte \subseteq Pids
  BY CorteTipo
<1>2. \A p \in Pids : p \in Nat /\ p >= 1
  BY LimitesAssumption DEF Pids
<1>3. \A p \in Pids : vida[p] \in {"sin_crear", "viva", "en_cpu", "destruida"}
  BY DEF IInv, TypeOK
<1>4. \A p \in Pids : EnCola(<<p, 0>>, cola["new"]) <=> Corte < p /\ p <= pid_actual
  <2>1. TAKE p \in Pids
  <2>2. ASSUME EnCola(<<p, 0>>, cola["new"]) PROVE Corte < p /\ p <= pid_actual
    <3>1. PICK i \in 1..Len(cola["new"]) : cola["new"][i] = <<p, 0>>
      BY <2>2, <1>1 DEF EnCola
    <3>2. p = Corte + i
      BY <3>1, <1>1 DEF NewEnOrden
    <3>3. QED
      BY <3>1, <3>2, <1>1
  <2>3. ASSUME Corte < p, p <= pid_actual PROVE EnCola(<<p, 0>>, cola["new"])
    <3>1. p - Corte \in 1..Len(cola["new"]) /\ Corte + (p - Corte) = p
      BY <2>3, <1>1, <1>2
    <3>2. cola["new"][p - Corte] = <<p, 0>>
      BY <3>1, <1>1 DEF NewEnOrden
    <3>3. QED
      BY <3>1, <3>2, <1>1 DEF EnCola
  <2>4. QED
    BY <2>2, <2>3
<1>5. \A p \in Pids : p <= Corte \/ (Corte < p /\ p <= pid_actual) \/ pid_actual < p
  BY <1>1, <1>2
<1>6. ASSUME NEW p \in Pids PROVE p \in Admitidos <=> (p \in 1..Corte /\ vida[p] # "destruida")
  <2>1. CASE p <= Corte
    <3>1. p \in 1..Corte /\ vida[p] # "sin_crear" /\ ~EnCola(<<p, 0>>, cola["new"])
      BY <2>1, <1>1, <1>2, <1>4 DEF NewEnOrden
    <3>2. QED
      BY <3>1, <1>3, <1>6 DEF Admitidos
  <2>2. CASE Corte < p /\ p <= pid_actual
    BY <2>2, <1>1, <1>2, <1>4, <1>6 DEF Admitidos
  <2>3. CASE pid_actual < p
    BY <2>3, <1>1, <1>2, <1>6 DEF Admitidos, NewEnOrden
  <2>4. QED
    BY <2>1, <2>2, <2>3, <1>5
<1>7. QED
  BY <1>1, <1>6 DEF Admitidos

LEMMA AdmitidosFinito ==
    IsFiniteSet(Pids) /\ IsFiniteSet(Admitidos) /\ Cardinality(Admitidos) \in Nat
<1>1. IsFiniteSet(Pids)
  BY LimitesAssumption, FS_Interval DEF Pids
<1>2. QED
  BY <1>1, FS_Subset, FS_CardinalityType DEF Admitidos

\* The part of the invariant that follows the processes and the memory.
Admision == /\ NewEnOrden /\ CuentaGrado /\ CreacionUnica /\ EstructurasHasta
            /\ Liberaciones /\ CabeLaCreacion /\ MemoriaAcotada
            /\ pc[LargoPlazo] \in EnAdmision => ptr[LargoPlazo] = <<Corte, 0>>

\* Nobody arrives and nobody is admitted.
MismoCorte == pid_actual' = pid_actual /\ cola'["new"] = cola["new"]
Iguales(lugares) == \A l \in lugares : pc'[LargoPlazo] = l <=> pc[LargoPlazo] = l

LEMMA CorteQuieto ==
    ASSUME MismoCorte
    PROVE  /\ Corte' = Corte
           /\ Iguales(EnAdmision) => \A p : Lanzado(p)' <=> Lanzado(p)
<1>1. Corte' = Corte
  BY DEF MismoCorte, Corte
<1>2. Iguales(EnAdmision) => (pc'[LargoPlazo] \in EnAdmision <=> pc[LargoPlazo] \in EnAdmision)
  BY DEF Iguales
<1>3. QED
  BY <1>1, <1>2 DEF Lanzado

\* The units, if no process is admitted or destroyed.
LEMMA VidasQuietas ==
    ASSUME IInv, MismoCorte, NewEnOrden,
           \A p \in Pids : vida'[p] \in {"viva", "en_cpu"} <=> vida[p] \in {"viva", "en_cpu"},
           \A p \in Pids : p <= Corte \/ vida'[p] = vida[p],
           \A p \in Pids : vida'[p] = "sin_crear" <=> vida[p] = "sin_crear"
    PROVE  NewEnOrden' /\ Admitidos' = Admitidos
<1>1. Admitidos' = Admitidos
  BY DEF Admitidos, EnCola, MismoCorte
<1>2. Corte' = Corte /\ cola'["new"] = cola["new"] /\ pid_actual' = pid_actual
  BY CorteQuieto DEF MismoCorte
<1>3. NewEnOrden'
  <2> USE DEF NewEnOrden
  <2>1. \A p \in Pids : p <= Corte' => vida'[p] # "sin_crear"
    BY <1>2
  <2>2. \A p \in Pids : Corte' < p /\ p <= pid_actual' => vida'[p] = "viva"
    <3>1. \A p \in Pids : p <= Corte => ~(Corte < p)
      BY CorteTipo DEF Pids
    <3>2. QED
      BY <1>2, <3>1
  <2>3. QED
    BY <1>2, <2>1, <2>2
<1>4. QED
  BY <1>1, <1>3

LEMMA GradoQuieto ==
    ASSUME CuentaGrado, Admitidos' = Admitidos,
           sem'["multiprogramacion"] = sem["multiprogramacion"],
           pc'[Rajar] = "post_grado" <=> pc[Rajar] = "post_grado",
           Iguales({"sacar_new"})
    PROVE  CuentaGrado'
BY DEF CuentaGrado, Uno, Iguales

\* The memory, if no request is sent or served.
LEMMA MemoriaQuieta ==
    ASSUME IInv, MismoCorte, Iguales({"pedir", "resp", "muerto"}),
           CreacionUnica, EstructurasHasta, CabeLaCreacion, MemoriaAcotada,
           pedidos' = pedidos, estructuras' = estructuras,
           respuestas' = respuestas \/ (respuestas # <<>> /\ respuestas' = Tail(respuestas))
    PROVE  CreacionUnica' /\ EstructurasHasta' /\ CabeLaCreacion' /\ MemoriaAcotada'
<1>1. Corte' = Corte
  BY CorteQuieto
<1>2. \A l \in {"pedir", "resp", "muerto"} : pc'[LargoPlazo] = l <=> pc[LargoPlazo] = l
  BY DEF Iguales
<1>3. EstructurasHasta'
  BY <1>1, <1>2 DEF EstructurasHasta
<1>4. MemoriaAcotada'
  BY DEF MemoriaAcotada
<1>5. CabeLaCreacion'
  BY DEF CabeLaCreacion, OcupadasAntes, LiberacionEnviada
<1>6. CreacionUnica'
  <2>1. respuestas \in Seq(Respuesta)
    BY DEF IInv, TypeOK, Respuesta
  <2>2. CASE respuestas' = respuestas
    BY <1>1, <1>2, <2>2 DEF CreacionUnica
  <2>3. CASE respuestas # <<>> /\ respuestas' = Tail(respuestas)
    <3>1. \A i \in DOMAIN respuestas' : i + 1 \in DOMAIN respuestas
                                        /\ respuestas'[i] = respuestas[i + 1]
      BY <2>1, <2>3
    <3>2. \A i, j \in DOMAIN respuestas' : i + 1 = j + 1 => i = j
      BY <2>1, <2>3
    <3>3. QED
      BY <1>1, <1>2, <3>1, <3>2 DEF CreacionUnica
  <2>4. QED
    BY <2>2, <2>3
<1>7. QED
  BY <1>3, <1>4, <1>5, <1>6

LEMMA LiberacionesQuietas ==
    ASSUME Liberaciones, cola'["exit"] = cola["exit"],
           \A p \in Pids : vida'[p] = "destruida" => vida[p] = "destruida",
           pedidos' = pedidos, estructuras' = estructuras
    PROVE  Liberaciones'
BY DEF Liberaciones, LiberacionPedida, LiberacionEnviada

\* The thread that admits processes, at lines where that changes nothing.
LPQuieto ==
    /\ Iguales({"sacar_new"}) /\ Iguales({"pedir", "resp", "muerto"})
    /\ pc'[LargoPlazo] \in EnAdmision
         => pc[LargoPlazo] \in EnAdmision /\ ptr'[LargoPlazo] = ptr[LargoPlazo]
LanzadosSiguen == \A p : Lanzado(p) => Lanzado(p)'

LEMMA LanzadosQuietos ==
    ASSUME MismoCorte, pc'[LargoPlazo] \in EnAdmision => pc[LargoPlazo] \in EnAdmision
    PROVE  LanzadosSiguen
BY CorteQuieto DEF LanzadosSiguen, Lanzado

\* A step that admission does not look at.
LEMMA AdmisionQuieta ==
    ASSUME IInv, Admision, MismoCorte, LPQuieto,
           sem'["multiprogramacion"] = sem["multiprogramacion"],
           pc'[Rajar] = "post_grado" <=> pc[Rajar] = "post_grado",
           vida' = vida, cola'["exit"] = cola["exit"], pedidos' = pedidos,
           estructuras' = estructuras,
           respuestas' = respuestas \/ (respuestas # <<>> /\ respuestas' = Tail(respuestas))
    PROVE  Admision' /\ LanzadosSiguen
<1>1. NewEnOrden' /\ Admitidos' = Admitidos
  BY VidasQuietas DEF Admision
<1>2. CuentaGrado'
  BY <1>1, GradoQuieto DEF Admision, LPQuieto
<1>3. CreacionUnica' /\ EstructurasHasta' /\ CabeLaCreacion' /\ MemoriaAcotada'
  BY MemoriaQuieta DEF Admision, LPQuieto
<1>4. Liberaciones'
  BY LiberacionesQuietas DEF Admision
<1>5. Corte' = Corte
  BY CorteQuieto
<1>6. QED
  BY <1>1, <1>2, <1>3, <1>4, <1>5, LanzadosQuietos DEF Admision, LPQuieto

\* In particular, a step of another thread.
LEMMA LPAjeno ==
    ASSUME IInv, NEW h \in Hilos, NEW l \in Lugares(h), Ir(h, l),
           h # LargoPlazo, ptr'[LargoPlazo] = ptr[LargoPlazo]
    PROVE  LPQuieto /\ (h # Rajar => pc'[Rajar] = pc[Rajar]) /\ (h = Rajar => pc'[Rajar] = l)
<1>1. /\ pc'[h] = l
      /\ \A k \in Hilos : k # h => pc'[k] = pc[k]
  BY IrTipo DEF IInv
<1>2. pc'[LargoPlazo] = pc[LargoPlazo]
  BY <1>1, HilosFijos
<1>3. QED
  BY <1>1, <1>2, HilosFijos DEF LPQuieto, Iguales

LEMMA AdmisionAjena ==
    ASSUME IInv, Admision, NEW h \in Hilos, NEW l \in Lugares(h), Ir(h, l), MismoCorte,
           h # LargoPlazo, ptr'[LargoPlazo] = ptr[LargoPlazo],
           h # Rajar \/ {pc[h], l} \cap {"post_grado"} = {},
           sem'["multiprogramacion"] = sem["multiprogramacion"],
           vida' = vida, cola'["exit"] = cola["exit"], pedidos' = pedidos,
           estructuras' = estructuras,
           respuestas' = respuestas \/ (respuestas # <<>> /\ respuestas' = Tail(respuestas))
    PROVE  Admision' /\ LanzadosSiguen
BY LPAjeno, AdmisionQuieta

-----------------------------------------------------------------------------
(* Admission: the steps it is about. *)

LEMMA AdmitidosTras ==
    IInv' /\ NewEnOrden' => Admitidos' = {p \in 1..Corte' : vida'[p] # "destruida"}
<1>1. IInv /\ NewEnOrden => Admitidos = {p \in 1..Corte : vida[p] # "destruida"}
  BY AdmitidosDe
<1>2. (IInv /\ NewEnOrden => Admitidos = {p \in 1..Corte : vida[p] # "destruida"})'
  BY <1>1, PTL
<1>3. QED
  BY <1>2

LEMMA AtenderNuevaConsolaAdmision ==
    ASSUME IInv, IInv', Admision, AtenderNuevaConsola
    PROVE  Admision' /\ LanzadosSiguen
<1> DEFINE p == pid_actual + 1
<1>1. /\ Corte \in Nat /\ Corte <= pid_actual /\ pid_actual \in Nat /\ pid_actual < MaxPid
      /\ Len(cola["new"]) \in Nat /\ pid_actual = Corte + Len(cola["new"])
      /\ cola["new"] \in Seq(Refs) /\ DOMAIN cola["new"] = 1..Len(cola["new"])
      /\ NewEnOrden
  BY CorteTipo DEF Admision, AtenderNuevaConsola
<1>2. p \in Pids /\ <<p, 0>> \in Refs
  BY <1>1, LimitesAssumption DEF Pids, Refs
<1>3. /\ cola'["new"] = Append(cola["new"], <<p, 0>>) /\ cola'["exit"] = cola["exit"]
      /\ pid_actual' = p
      /\ vida'[p] = "viva" /\ \A q \in Pids : q # p => vida'[q] = vida[q]
      /\ UNCHANGED <<sem, pedidos, respuestas, estructuras, ptr>>
      /\ pc'[LargoPlazo] = pc[LargoPlazo] /\ pc'[Rajar] = pc[Rajar]
  <2>1. Ir(Conexiones, "post_new") /\ "post_new" \in Lugares(Conexiones) /\ TypeOK
    BY LugaresDe DEF AtenderNuevaConsola, IInv
  <2>2. pc'[LargoPlazo] = pc[LargoPlazo] /\ pc'[Rajar] = pc[Rajar]
    BY <2>1, IrTipo, HilosFijos
  <2>3. QED
    BY <1>2, <2>1, <2>2 DEF AtenderNuevaConsola, memoria, TypeOK, Colas
<1>4. /\ Len(cola'["new"]) = Len(cola["new"]) + 1
      /\ DOMAIN cola'["new"] = 1..(Len(cola["new"]) + 1)
      /\ \A i \in 1..Len(cola["new"]) : cola'["new"][i] = cola["new"][i]
      /\ cola'["new"][Len(cola["new"]) + 1] = <<p, 0>>
  <2> DEFINE q == cola["new"]
             e == <<p, 0>>
  <2>1. q \in Seq(Refs) /\ e \in Refs /\ cola'["new"] = Append(q, e)
    BY <1>1, <1>2, <1>3
  <2> HIDE DEF q, e
  <2>2. /\ Len(cola'["new"]) = Len(q) + 1 /\ DOMAIN cola'["new"] = 1..(Len(q) + 1)
        /\ \A i \in 1..Len(q) : cola'["new"][i] = q[i]
        /\ cola'["new"][Len(q) + 1] = e
    BY <2>1, AlEncolar
  <2>3. QED
    BY <2>2 DEF q, e
<1>5. Corte' = Corte
  <2>1. Corte' = pid_actual' - Len(cola'["new"]) /\ Corte = pid_actual - Len(cola["new"])
    BY DEF Corte
  <2>2. Corte' = (pid_actual + 1) - (Len(cola["new"]) + 1)
    BY <2>1, <1>3, <1>4
  <2> DEFINE a == pid_actual
             n == Len(cola["new"])
  <2>3. (a + 1) - (n + 1) = a - n
    <3>1. a \in Nat /\ n \in Nat
      BY <1>1
    <3> HIDE DEF a, n
    <3>2. QED
      BY <3>1
  <2>4. QED
    BY <2>1, <2>2, <2>3
<1>6. p = Corte + (Len(cola["new"]) + 1)
  BY <1>1
<1>7. NewEnOrden'
  <2> HIDE DEF p
  <2>1. Len(cola'["new"]) <= pid_actual'
    BY <1>1, <1>3, <1>4 DEF p
  <2>2. \A i \in DOMAIN cola'["new"] : cola'["new"][i] = <<Corte + i, 0>>
    <3>1. TAKE i \in DOMAIN cola'["new"]
    <3>2. CASE i \in 1..Len(cola["new"])
      BY <3>2, <1>1, <1>4 DEF NewEnOrden
    <3>3. CASE i = Len(cola["new"]) + 1
      BY <3>3, <1>4, <1>6
    <3>4. QED
      BY <3>1, <3>2, <3>3, <1>1, <1>4
  <2>3. \A q \in Pids : q <= Corte => vida'[q] # "sin_crear"
    BY <1>1, <1>3 DEF NewEnOrden, p, Pids
  <2>4. \A q \in Pids : Corte < q /\ q <= p => vida'[q] = "viva"
    <3>1. \A q \in Pids : q <= p => q = p \/ q <= pid_actual
      BY <1>1 DEF p, Pids
    <3>2. QED
      BY <1>1, <1>3, <3>1 DEF NewEnOrden
  <2>5. \A q \in Pids : p < q => vida'[q] = "sin_crear"
    <3>1. \A q \in Pids : p < q => q # p /\ pid_actual < q
      BY <1>1 DEF p, Pids
    <3>2. QED
      BY <1>1, <1>3, <3>1 DEF NewEnOrden
  <2>6. QED
    BY <1>3, <1>5, <2>1, <2>2, <2>3, <2>4, <2>5 DEF NewEnOrden
<1>8. Admitidos' = Admitidos
  <2>1. Admitidos = {q \in 1..Corte : vida[q] # "destruida"}
    BY <1>1, AdmitidosDe
  <2>2. Admitidos' = {q \in 1..Corte : vida'[q] # "destruida"}
    BY <1>5, <1>7, AdmitidosTras
  <2>3. \A q \in 1..Corte : q \in Pids /\ q # p
    BY <1>1, LimitesAssumption DEF Pids
  <2>4. \A q \in 1..Corte : vida'[q] = vida[q]
    BY <1>3, <2>3
  <2>5. QED
    BY <2>1, <2>2, <2>4
<1>9. CuentaGrado'
  BY <1>3, <1>8 DEF Admision, CuentaGrado, Uno
<1>10. CreacionUnica' /\ EstructurasHasta' /\ CabeLaCreacion' /\ MemoriaAcotada'
  BY <1>3, <1>5 DEF Admision, CreacionUnica, EstructurasHasta, CabeLaCreacion, MemoriaAcotada,
                    OcupadasAntes, LiberacionEnviada
<1>11. Liberaciones'
  <2>1. \A q \in Pids : vida'[q] = "destruida" => vida[q] = "destruida"
    BY <1>2, <1>3
  <2>2. QED
    BY <1>3, <2>1, LiberacionesQuietas DEF Admision
<1>12. LanzadosSiguen
  BY <1>3, <1>5 DEF LanzadosSiguen, Lanzado
<1>13. QED
  BY <1>3, <1>5, <1>7, <1>9, <1>10, <1>11, <1>12 DEF Admision

\* One unit fewer in the semaphore, one with the thread that admits.
LEMMA EsperarGradoAdmision ==
    ASSUME IInv, Admision, EsperarGrado
    PROVE  Admision' /\ LanzadosSiguen
<1>1. /\ TypeOK /\ LargoPlazo \in Hilos /\ "sacar_new" \in Lugares(LargoPlazo)
      /\ "multiprogramacion" \in Semaforos
  BY HilosFijos, LugaresDe DEF IInv, Semaforos
<1>2. /\ pc[LargoPlazo] = "espera_grado" /\ pc'[LargoPlazo] = "sacar_new"
      /\ pc'[Rajar] = pc[Rajar]
      /\ sem["multiprogramacion"] \in Nat
      /\ sem'["multiprogramacion"] = sem["multiprogramacion"] - 1
      /\ UNCHANGED <<cola, pid_actual, vida, ptr, pedidos, respuestas, estructuras>>
  <2>1. Ir(LargoPlazo, "sacar_new")
    BY DEF EsperarGrado, Esperar
  <2>2. QED
    BY <1>1, <2>1, IrTipo, HilosFijos DEF EsperarGrado, Esperar, En, TypeOK, procesos, memoria
<1>3. MismoCorte /\ Iguales({"pedir", "resp", "muerto"})
  BY <1>2 DEF MismoCorte, Iguales
<1>4. NewEnOrden' /\ Admitidos' = Admitidos
  BY <1>2, <1>3, VidasQuietas DEF Admision
<1>5. CuentaGrado'
  <2>1. Cardinality(Admitidos) \in Nat
    BY AdmitidosFinito
  <2>2. Uno(pc[Rajar] = "post_grado") \in Nat
    BY DEF Uno
  <2>3. Uno(pc[LargoPlazo] = "sacar_new") = 0 /\ Uno(pc'[LargoPlazo] = "sacar_new") = 1
    BY <1>2 DEF Uno
  <2> DEFINE a == Cardinality(Admitidos)
             b == Uno(pc[Rajar] = "post_grado")
             s == sem["multiprogramacion"]
  <2>4. s + 0 + b + a = Grado
    BY <2>3 DEF Admision, CuentaGrado
  <2>5. s \in Nat /\ b \in Nat /\ a \in Nat
    BY <1>2, <2>1, <2>2
  <2>6. (s - 1) + 1 + b + a = Grado
    <3> HIDE DEF s, b, a
    <3>1. QED
      BY ONLY <2>4, <2>5
  <2>7. QED
    BY <1>2, <1>4, <2>3, <2>6 DEF CuentaGrado
<1>6. CreacionUnica' /\ EstructurasHasta' /\ CabeLaCreacion' /\ MemoriaAcotada'
  BY <1>2, <1>3, MemoriaQuieta DEF Admision
<1>7. Liberaciones'
  BY <1>2, LiberacionesQuietas DEF Admision
<1>8. LanzadosSiguen
  BY <1>2, <1>3, LanzadosQuietos DEF EnAdmision
<1>9. QED
  BY <1>2, <1>4, <1>5, <1>6, <1>7, <1>8 DEF Admision, EnAdmision

\* The first of the NEW queue is the next in order of arrival.
LEMMA SacarNewAdmision ==
    ASSUME IInv, IInv', Admision, SacarNew, ~PopIndebido(cola["new"])
    PROVE  Admision' /\ LanzadosSiguen
<1>1. /\ Corte \in Nat /\ Corte <= pid_actual /\ pid_actual \in Nat /\ pid_actual <= MaxPid
      /\ Len(cola["new"]) \in Nat /\ pid_actual = Corte + Len(cola["new"])
      /\ cola["new"] \in Seq(Refs) /\ DOMAIN cola["new"] = 1..Len(cola["new"])
      /\ NewEnOrden
  BY CorteTipo DEF Admision
<1>2. /\ cola["new"] # <<>>
      /\ cola'["new"] = Tail(cola["new"]) /\ cola'["exit"] = cola["exit"]
      /\ ptr'[LargoPlazo] = Head(cola["new"])
      /\ pc[LargoPlazo] = "sacar_new" /\ pc'[LargoPlazo] = "pedir" /\ pc'[Rajar] = pc[Rajar]
      /\ UNCHANGED <<sem, pid_actual, vida, pedidos, respuestas, estructuras>>
  <2>1. TypeOK /\ LargoPlazo \in Hilos /\ "pedir" \in Lugares(LargoPlazo)
    BY HilosFijos, LugaresDe DEF IInv
  <2>2. Ir(LargoPlazo, "pedir") /\ PopPosible(cola["new"])
    BY DEF SacarNew
  <2>3. pc'[LargoPlazo] = "pedir" /\ pc'[Rajar] = pc[Rajar]
    BY ONLY <2>1, <2>2, IrTipo, HilosFijos
  <2>4. /\ ptr' = [ptr EXCEPT ![LargoPlazo] = Head(cola["new"])]
        /\ cola' = [cola EXCEPT !["new"] = Tail(@)]
        /\ pc[LargoPlazo] = "sacar_new"
        /\ UNCHANGED <<sem, pid_actual, vida, pedidos, respuestas, estructuras>>
    BY <2>2 DEF SacarNew, PopPosible, En, procesos, memoria
  <2>5. /\ DOMAIN cola = Colas /\ DOMAIN ptr = Hilos
        /\ "new" \in Colas /\ "exit" \in Colas
    BY ONLY <2>1 DEF TypeOK, Colas
  <2>6. QED
    BY ONLY <2>1, <2>2, <2>3, <2>4, <2>5 DEF PopPosible
<1>3. /\ Len(cola'["new"]) = Len(cola["new"]) - 1
      /\ DOMAIN cola'["new"] = 1..(Len(cola["new"]) - 1)
      /\ \A i \in 1..(Len(cola["new"]) - 1) : cola'["new"][i] = cola["new"][i + 1]
      /\ Head(cola["new"]) = cola["new"][1] /\ Len(cola["new"]) >= 1
  <2> DEFINE q == cola["new"]
  <2>1. q \in Seq(Refs) /\ q # <<>> /\ cola'["new"] = Tail(q)
    BY <1>1, <1>2
  <2> HIDE DEF q
  <2>2. /\ Len(cola'["new"]) = Len(q) - 1 /\ DOMAIN cola'["new"] = 1..(Len(q) - 1)
        /\ \A i \in 1..(Len(q) - 1) : cola'["new"][i] = q[i + 1]
        /\ Head(q) = q[1] /\ Len(q) >= 1
    BY <2>1, AlDesencolar
  <2>3. QED
    BY <2>2 DEF q
<1>4. Corte' = Corte + 1
  <2>1. Corte' = pid_actual' - Len(cola'["new"]) /\ Corte = pid_actual - Len(cola["new"])
    BY DEF Corte
  <2>2. Corte' = pid_actual - (Len(cola["new"]) - 1)
    BY <2>1, <1>2, <1>3
  <2> DEFINE a == pid_actual
             n == Len(cola["new"])
  <2>3. a - (n - 1) = (a - n) + 1
    <3>1. a \in Nat /\ n \in Nat
      BY <1>1
    <3> HIDE DEF a, n
    <3>2. QED
      BY <3>1
  <2>4. QED
    BY <2>1, <2>2, <2>3
<1>5. NewEnOrden'
  <2>1. Len(cola'["new"]) <= pid_actual'
    BY <1>1, <1>2, <1>3
  <2>2. \A i \in DOMAIN cola'["new"] : cola'["new"][i] = <<(Corte + 1) + i, 0>>
    <3>1. TAKE i \in DOMAIN cola'["new"]
    <3>2. i + 1 \in DOMAIN cola["new"] /\ cola'["new"][i] = cola["new"][i + 1]
      <4>1. PICK m \in Nat : m = Len(cola["new"])
        BY <1>1
      <4>2. i \in 1..(m - 1) /\ DOMAIN cola["new"] = 1..m
        BY <3>1, <1>1, <1>3, <4>1
      <4>3. i + 1 \in 1..m
        BY ONLY <4>1, <4>2
      <4> QED BY <1>3, <4>1, <4>2, <4>3
    <3>3. cola["new"][i + 1] = <<Corte + (i + 1), 0>>
      BY <3>2, <1>1 DEF NewEnOrden
    <3>4. Corte + (i + 1) = (Corte + 1) + i
      BY <3>1, <1>1, <1>3
    <3>5. QED
      BY <3>2, <3>3, <3>4
  <2>3. \A q \in Pids : q <= Corte + 1 => vida[q] # "sin_crear"
    <3>1. \A q \in Pids : q <= Corte + 1 => q <= Corte \/ (Corte < q /\ q <= pid_actual)
      BY <1>1, <1>3 DEF Pids
    <3>2. QED
      BY <1>1, <3>1 DEF NewEnOrden
  <2>4. \A q \in Pids : Corte + 1 < q /\ q <= pid_actual => vida[q] = "viva"
    <3>1. \A q \in Pids : Corte + 1 < q => Corte < q
      BY <1>1 DEF Pids
    <3>2. QED
      BY <1>1, <3>1 DEF NewEnOrden
  <2>5. \A q \in Pids : pid_actual < q => vida[q] = "sin_crear"
    BY <1>1 DEF NewEnOrden
  <2>6. QED
    BY <1>2, <1>4, <2>1, <2>2, <2>3, <2>4, <2>5 DEF NewEnOrden
<1>6. Corte + 1 \in Pids /\ vida[Corte + 1] = "viva"
  <2>1. Corte + 1 \in Pids /\ Corte < Corte + 1 /\ Corte + 1 <= pid_actual
    BY <1>1, <1>3, LimitesAssumption DEF Pids
  <2>2. QED
    BY <1>1, <2>1 DEF NewEnOrden
<1>7. CuentaGrado'
  <2>1. Admitidos = {q \in 1..Corte : vida[q] # "destruida"}
    BY <1>1, AdmitidosDe
  <2>2. Admitidos' = {q \in 1..(Corte + 1) : vida[q] # "destruida"}
    BY <1>2, <1>4, <1>5, AdmitidosTras
  <2>3. 1..(Corte + 1) = (1..Corte) \cup {Corte + 1} /\ Corte + 1 \notin 1..Corte
    BY <1>1
  <2>4. Admitidos' = Admitidos \cup {Corte + 1} /\ Corte + 1 \notin Admitidos
    BY <1>6, <2>1, <2>2, <2>3
  <2>5. Cardinality(Admitidos') = Cardinality(Admitidos) + 1 /\ Cardinality(Admitidos) \in Nat
    BY <2>4, AdmitidosFinito, FS_AddElement
  <2>6. Uno(pc[LargoPlazo] = "sacar_new") = 1 /\ Uno(pc'[LargoPlazo] = "sacar_new") = 0
        /\ Uno(pc[Rajar] = "post_grado") \in Nat
    BY <1>2 DEF Uno
  <2> DEFINE a == Cardinality(Admitidos)
             b == Uno(pc[Rajar] = "post_grado")
             s == sem["multiprogramacion"]
  <2>7. s + 1 + b + a = Grado
    BY <2>6 DEF Admision, CuentaGrado
  <2>8. s \in Nat /\ b \in Nat /\ a \in Nat
    BY <2>5, <2>6 DEF IInv, TypeOK, Semaforos
  <2>9. s + 0 + b + (a + 1) = Grado
    <3> HIDE DEF s, b, a
    <3>1. QED
      BY ONLY <2>7, <2>8
  <2>10. QED
    BY <1>2, <2>5, <2>6, <2>9 DEF CuentaGrado
<1>8. EstructurasHasta'
  <2>1. /\ \A p \in Pids : Corte < p => estructuras[p] = "no"
        /\ \A p \in Pids : p < Corte => estructuras[p] # "no"
        /\ \A p \in Pids : p = Corte => estructuras[p] # "no"
    BY <1>2 DEF Admision, EstructurasHasta
  <2>2. \A p \in Pids : /\ Corte + 1 < p => Corte < p
                        /\ p < Corte + 1 => p < Corte \/ p = Corte
                        /\ p = Corte + 1 => Corte < p
    BY <1>1 DEF Pids
  <2>3. QED
    BY <1>2, <1>4, <2>1, <2>2 DEF EstructurasHasta
<1>9. /\ \A i \in DOMAIN pedidos : pedidos[i].cod # "ESTRUCTURAS"
      /\ \A i \in DOMAIN respuestas : respuestas[i].cod # "OKI_ESTRUCTURAS"
  BY <1>2 DEF Admision, CreacionUnica
<1>10. CreacionUnica' /\ CabeLaCreacion' /\ MemoriaAcotada'
  BY <1>2, <1>9 DEF Admision, CreacionUnica, CabeLaCreacion, MemoriaAcotada
<1>11. Liberaciones'
  BY <1>2, LiberacionesQuietas DEF Admision
<1>12. ptr'[LargoPlazo] = <<Corte', 0>>
  BY <1>1, <1>2, <1>3, <1>4 DEF NewEnOrden
<1>13. LanzadosSiguen
  <2>1. \A p : p \in 1..Corte => p \in 1..(Corte + 1) /\ p # Corte + 1
    BY <1>1
  <2>2. QED
    BY <1>4, <2>1 DEF LanzadosSiguen, Lanzado
<1>14. QED
  BY <1>2, <1>4, <1>5, <1>7, <1>8, <1>10, <1>11, <1>12, <1>13 DEF Admision

\* What a new request, and the service of the oldest one, do to the releases sent.
LEMMA EnviadaAppend ==
    ASSUME NEW m \in Pedido, pedidos \in Seq(Pedido), pedidos' = Append(pedidos, m)
    PROVE  /\ \A p : \A i \in 1..(Len(pedidos) + 1) :
                 LiberacionEnviada(p, i)' <=> LiberacionEnviada(p, i)
           /\ \A p : estructuras' = estructuras =>
                 (LiberacionPedida(p)' <=> \/ LiberacionPedida(p)
                                           \/ m.cod = "LIBERAR_ESTRUCTURAS" /\ m.pid = p)
<1>0. PICK n \in Nat : n = Len(pedidos)
  OBVIOUS
<1>1. /\ n \in Nat /\ DOMAIN pedidos = 1..n /\ DOMAIN pedidos' = 1..(n + 1)
      /\ \A i \in 1..n : pedidos'[i] = pedidos[i]
      /\ pedidos'[n + 1] = m /\ Len(pedidos') = n + 1
  BY <1>0, AlEncolar
<1>2. \A k \in 1..(n + 1) : \A p : LiberacionEnviada(p, k)' <=> LiberacionEnviada(p, k)
  <2>1. TAKE k \in 1..(n + 1)
  <2>2. \A i \in 1..(n + 1) : i < k => i \in 1..n
    BY <1>1
  <2>3. \A i \in 1..n : i \in 1..(n + 1)
    BY <1>1
  <2>4. QED
    BY <1>1, <2>2, <2>3 DEF LiberacionEnviada
<1>3. \A p : LiberacionEnviada(p, n + 2)' <=> \/ LiberacionEnviada(p, n + 1)
                                              \/ m.cod = "LIBERAR_ESTRUCTURAS" /\ m.pid = p
  <2>1. \A i \in 1..(n + 1) : i < n + 2 /\ (i \in 1..n \/ i = n + 1)
    BY <1>1
  <2>2. \A i \in 1..n : i < n + 1 /\ i \in 1..(n + 1)
    BY <1>1
  <2>3. n + 1 \in 1..(n + 1)
    BY <1>1
  <2>4. QED
    BY <1>1, <2>1, <2>2, <2>3 DEF LiberacionEnviada
<1>4. 1..n \subseteq 1..(n + 1) /\ n + 1 \in 1..(n + 1)
  BY <1>1
<1>5. \A p : LiberacionPedida(p)' <=> estructuras'[p] = "liberadas" \/ LiberacionEnviada(p, n + 2)'
  <2>1. Len(pedidos') + 1 = n + 2
    BY <1>1
  <2>2. QED
    BY <2>1 DEF LiberacionPedida, LiberacionEnviada
<1>6. \A p : LiberacionPedida(p) <=> estructuras[p] = "liberadas" \/ LiberacionEnviada(p, n + 1)
  BY <1>0 DEF LiberacionPedida
<1>7. QED
  BY <1>0, <1>2, <1>3, <1>5, <1>6

LEMMA EnviadaTail ==
    ASSUME pedidos \in Seq(Pedido), pedidos # <<>>, pedidos' = Tail(pedidos)
    PROVE  /\ DOMAIN pedidos' = 1..(Len(pedidos) - 1) /\ DOMAIN pedidos = 1..Len(pedidos)
           /\ \A i \in DOMAIN pedidos' : /\ i + 1 \in DOMAIN pedidos
                                         /\ pedidos'[i] = pedidos[i + 1]
                                         /\ \A j \in DOMAIN pedidos' : i + 1 = j + 1 => i = j
                                         /\ i + 1 # 1
           /\ \A p : \A i \in DOMAIN pedidos' :
                LiberacionEnviada(p, i + 1)
                  <=> \/ LiberacionEnviada(p, i)'
                      \/ Head(pedidos).cod = "LIBERAR_ESTRUCTURAS" /\ Head(pedidos).pid = p
           /\ \A p : LiberacionEnviada(p, Len(pedidos) + 1)
                  <=> \/ LiberacionEnviada(p, Len(pedidos) + 1)'
                      \/ Head(pedidos).cod = "LIBERAR_ESTRUCTURAS" /\ Head(pedidos).pid = p
           /\ \A p : ~LiberacionEnviada(p, 1)
<1>0. PICK n \in Nat : n = Len(pedidos)
  OBVIOUS
<1>1. /\ n \in Nat /\ n >= 1 /\ DOMAIN pedidos = 1..n /\ DOMAIN pedidos' = 1..(n - 1)
      /\ \A i \in 1..(n - 1) : pedidos'[i] = pedidos[i + 1]
      /\ Head(pedidos) = pedidos[1] /\ Len(pedidos') = n - 1
  BY <1>0, AlDesencolar
<1>2. \A k \in 1..n : \A p :
         LiberacionEnviada(p, k + 1)
           <=> \/ LiberacionEnviada(p, k)'
               \/ Head(pedidos).cod = "LIBERAR_ESTRUCTURAS" /\ Head(pedidos).pid = p
  <2>1. TAKE k \in 1..n
  <2>2. \A i \in 1..n : i < k + 1 => i = 1 \/ (i - 1 \in 1..(n - 1) /\ i - 1 < k /\ (i - 1) + 1 = i)
    BY <1>1
  <2>3. \A i \in 1..(n - 1) : i < k => i + 1 \in 1..n /\ i + 1 < k + 1
    BY <1>1
  <2>4. 1 \in 1..n /\ 1 < k + 1
    BY <1>1
  <2>5. TAKE p
  <2>6. ASSUME LiberacionEnviada(p, k + 1)
        PROVE  \/ LiberacionEnviada(p, k)'
               \/ Head(pedidos).cod = "LIBERAR_ESTRUCTURAS" /\ Head(pedidos).pid = p
    <3>1. PICK i \in 1..n : i < k + 1 /\ pedidos[i].cod = "LIBERAR_ESTRUCTURAS" /\ pedidos[i].pid = p
      BY <1>1, <2>6 DEF LiberacionEnviada
    <3>2. CASE i = 1
      BY <1>1, <3>1, <3>2
    <3>3. CASE i # 1
      <4>1. i - 1 \in 1..(n - 1) /\ i - 1 < k /\ pedidos'[i - 1] = pedidos[i]
        BY <1>1, <2>2, <3>1, <3>3
      <4>2. QED
        BY <1>1, <3>1, <4>1 DEF LiberacionEnviada
    <3>4. QED
      BY <3>2, <3>3
  <2>7. ASSUME LiberacionEnviada(p, k)' PROVE LiberacionEnviada(p, k + 1)
    <3>1. PICK i \in 1..(n - 1) : i < k /\ pedidos'[i].cod = "LIBERAR_ESTRUCTURAS" /\ pedidos'[i].pid = p
      BY <1>1, <2>7 DEF LiberacionEnviada
    <3>2. i + 1 \in 1..n /\ i + 1 < k + 1 /\ pedidos'[i] = pedidos[i + 1]
      BY <1>1, <2>3, <3>1
    <3>3. QED
      BY <1>1, <3>1, <3>2 DEF LiberacionEnviada
  <2>8. ASSUME Head(pedidos).cod = "LIBERAR_ESTRUCTURAS", Head(pedidos).pid = p
        PROVE  LiberacionEnviada(p, k + 1)
    BY <1>1, <2>4, <2>8 DEF LiberacionEnviada
  <2>9. QED
    BY <2>6, <2>7, <2>8
<1>3. \A i \in 1..(n - 1) : i \in 1..n /\ i + 1 \in 1..n /\ i + 1 # 1
                            /\ \A j \in 1..(n - 1) : i + 1 = j + 1 => i = j
  BY <1>1
<1>4. n \in 1..n /\ Len(pedidos') + 1 = n
  BY <1>1
<1>5. \A p : LiberacionEnviada(p, n + 1)
               <=> \/ LiberacionEnviada(p, Len(pedidos) + 1)'
                   \/ Head(pedidos).cod = "LIBERAR_ESTRUCTURAS" /\ Head(pedidos).pid = p
  <2>1. \A p : LiberacionEnviada(p, n)' <=> LiberacionEnviada(p, Len(pedidos) + 1)'
    BY <1>4 DEF LiberacionEnviada
  <2>2. QED
    BY <1>2, <1>4, <2>1
<1>6. \A p : ~LiberacionEnviada(p, 1)
  <2>1. \A i \in 1..n : ~(i < 1)
    BY <1>1
  <2>2. QED
    BY <1>1, <2>1 DEF LiberacionEnviada
<1>7. QED
  BY <1>0, <1>1, <1>2, <1>3, <1>5, <1>6

\* A request that is not a creation.
LEMMA PedidoAjeno ==
    ASSUME IInv, Admision, MismoCorte, LPQuieto, NEW m \in Pedido, m.cod # "ESTRUCTURAS",
           pedidos' = Append(pedidos, m), UNCHANGED <<respuestas, estructuras>>
    PROVE  /\ CreacionUnica' /\ EstructurasHasta' /\ CabeLaCreacion' /\ MemoriaAcotada'
           /\ \A p : LiberacionPedida(p) => LiberacionPedida(p)'
           /\ m.cod = "LIBERAR_ESTRUCTURAS" => LiberacionPedida(m.pid)'
<1>1. Corte' = Corte
  BY CorteQuieto
<1>2. \A l \in {"pedir", "resp", "muerto"} : pc'[LargoPlazo] = l <=> pc[LargoPlazo] = l
  BY DEF LPQuieto, Iguales
<1>3. PICK n \in Nat : n = Len(pedidos)
  BY DEF IInv, TypeOK
<1>4. pedidos \in Seq(Pedido)
  BY DEF IInv, TypeOK, Pedido
<1>5. /\ DOMAIN pedidos = 1..n /\ DOMAIN pedidos' = 1..(n + 1)
      /\ \A i \in 1..n : pedidos'[i] = pedidos[i]
      /\ pedidos'[n + 1] = m
  BY <1>3, <1>4, AlEncolar
<1>6. \A i \in 1..(n + 1) : i \in 1..n \/ i = n + 1
  OBVIOUS
<1>7. \A i \in DOMAIN pedidos' : pedidos'[i].cod = "ESTRUCTURAS" =>
         i \in 1..n /\ pedidos'[i] = pedidos[i]
  BY <1>5, <1>6
<1>8. /\ \A p : \A i \in 1..n : LiberacionEnviada(p, i)' <=> LiberacionEnviada(p, i)
      /\ \A p : LiberacionPedida(p)' <=> \/ LiberacionPedida(p)
                                         \/ m.cod = "LIBERAR_ESTRUCTURAS" /\ m.pid = p
  <2>1. 1..n \subseteq 1..(n + 1)
    OBVIOUS
  <2>2. QED
    BY <1>3, <1>4, <2>1, EnviadaAppend
<1>9. CreacionUnica'
  BY <1>1, <1>2, <1>5, <1>7 DEF Admision, CreacionUnica
<1>10. EstructurasHasta' /\ MemoriaAcotada'
  BY <1>1, <1>2 DEF Admision, EstructurasHasta, MemoriaAcotada
<1>11. CabeLaCreacion'
  <2>1. \A i \in 1..n : OcupadasAntes(i)' = OcupadasAntes(i)
    BY <1>8 DEF OcupadasAntes
  <2>2. QED
    BY <1>5, <1>7, <2>1 DEF Admision, CabeLaCreacion
<1>12. QED
  BY <1>8, <1>9, <1>10, <1>11

LEMMA AdmitidosAcotados ==
    ASSUME IInv, CuentaGrado
    PROVE  Cardinality(Admitidos) <= Grado
<1> DEFINE a == Cardinality(Admitidos)
           s == sem["multiprogramacion"]
           u == Uno(pc[LargoPlazo] = "sacar_new")
           v == Uno(pc[Rajar] = "post_grado")
<1>1. a \in Nat /\ s \in Nat /\ u \in Nat /\ v \in Nat /\ Grado \in Nat
  BY AdmitidosFinito, GradoAssumption DEF IInv, TypeOK, Semaforos, Uno
<1>2. s + u + v + a = Grado
  BY DEF CuentaGrado
<1> HIDE DEF a, s, u, v
<1>3. a <= Grado
  BY ONLY <1>1, <1>2
<1>4. QED
  BY <1>3 DEF a

\* The creation asked for has room: who still holds structures, and nobody asked to
\* release, holds a unit of multiprogramacion.
LEMMA PedirEstructurasAdmision ==
    ASSUME IInv, Admision, SoloLanzados, Pedir(LargoPlazo, "ESTRUCTURAS")
    PROVE  Admision' /\ LanzadosSiguen
<1>1. /\ TypeOK /\ LargoPlazo \in Hilos /\ "resp" \in Lugares(LargoPlazo)
      /\ ptr[LargoPlazo] \in Refs /\ pc[LargoPlazo] = "pedir"
  BY HilosFijos, LugaresDe DEF IInv, Referencias, Pedir, En
<1>2. ptr[LargoPlazo] = <<Corte, 0>> /\ ptr[LargoPlazo][1] = Corte /\ Corte \in Pids
  BY <1>1 DEF Admision, EnAdmision, Refs
<1>3. /\ pc'[LargoPlazo] = "resp" /\ pc'[Rajar] = pc[Rajar]
      /\ pedidos' = Append(pedidos, Msj("ESTRUCTURAS", Corte))
      /\ UNCHANGED <<cola, sem, pid_actual, vida, ptr, respuestas, estructuras>>
  <2>1. Ir(LargoPlazo, "resp")
    BY DEF Pedir
  <2>2. QED
    BY <1>1, <1>2, <2>1, IrTipo, HilosFijos DEF Pedir, procesos, Msj
<1>4. MismoCorte /\ Iguales({"sacar_new"}) /\ Corte' = Corte
  BY <1>1, <1>3, CorteQuieto DEF MismoCorte, Iguales
<1>5. NewEnOrden' /\ Admitidos' = Admitidos
  BY <1>3, <1>4, VidasQuietas DEF Admision
<1>6. CuentaGrado'
  BY <1>3, <1>4, <1>5, GradoQuieto DEF Admision
<1>7. PICK n \in Nat : n = Len(pedidos)
  BY <1>1 DEF TypeOK
<1> DEFINE m == Msj("ESTRUCTURAS", Corte)
<1>8. m \in Pedido /\ m.cod = "ESTRUCTURAS" /\ m.pid = Corte /\ pedidos \in Seq(Pedido)
  BY <1>1, <1>2 DEF TypeOK, Pedido, Msj
<1> HIDE DEF m
<1>9. pedidos' = Append(pedidos, m)
  BY <1>3 DEF m
<1>10. /\ DOMAIN pedidos = 1..n /\ DOMAIN pedidos' = 1..(n + 1)
       /\ \A i \in 1..n : pedidos'[i] = pedidos[i]
       /\ pedidos'[n + 1] = m /\ n + 1 \in 1..(n + 1)
       /\ \A i \in 1..(n + 1) : i \in 1..n \/ i = n + 1
  BY <1>7, <1>8, <1>9, AlEncolar
<1>11. /\ \A i \in DOMAIN pedidos : pedidos[i].cod # "ESTRUCTURAS"
       /\ \A i \in DOMAIN respuestas : respuestas[i].cod # "OKI_ESTRUCTURAS"
       /\ estructuras[Corte] = "no"
  BY <1>1, <1>2 DEF Admision, CreacionUnica, EstructurasHasta
<1>12. \A i \in DOMAIN pedidos' : pedidos'[i].cod = "ESTRUCTURAS" => i = n + 1
  BY <1>10, <1>11
<1>13. CreacionUnica'
  BY <1>3, <1>4, <1>8, <1>10, <1>11, <1>12 DEF CreacionUnica
<1>14. EstructurasHasta' /\ MemoriaAcotada'
  BY <1>1, <1>3, <1>4 DEF Admision, EstructurasHasta, MemoriaAcotada
<1>15. /\ \A p : LiberacionEnviada(p, n + 1)' <=> LiberacionEnviada(p, n + 1)
       /\ \A p : LiberacionPedida(p)' <=> LiberacionPedida(p)
  BY <1>3, <1>7, <1>8, <1>9, <1>10, EnviadaAppend
<1>16. Liberaciones'
  BY <1>3, <1>15 DEF Admision, Liberaciones
<1>17. CabeLaCreacion'
  <2>1. \A p \in OcupadasAntes(n + 1) : p \in Admitidos
    <3>1. TAKE p \in OcupadasAntes(n + 1)
    <3>2. p \in Pids /\ estructuras[p] = "creadas" /\ ~LiberacionPedida(p)
      BY <1>7 DEF OcupadasAntes, LiberacionPedida
    <3>3. p \in 1..Corte
      BY <1>2, <3>2 DEF Admision, EstructurasHasta, Pids
    <3>4. vida[p] # "destruida"
      BY <3>2 DEF Admision, Liberaciones
    <3>5. QED
      BY <3>3, <3>4, AdmitidosDe DEF Admision
  <2>2. Corte \in Admitidos
    <3>1. ~LiberacionPedida(Corte)
      <4>1. \A i \in DOMAIN pedidos : pedidos[i].cod = "LIBERAR_ESTRUCTURAS" =>
               Lanzado(pedidos[i].pid)
        BY DEF SoloLanzados
      <4>2. ~Lanzado(Corte)
        BY <1>1 DEF Lanzado, EnAdmision
      <4>3. QED
        BY <1>11, <4>1, <4>2 DEF LiberacionPedida, LiberacionEnviada
    <3>2. vida[Corte] # "destruida"
      BY <1>2, <3>1 DEF Admision, Liberaciones
    <3>3. Corte \in 1..Corte
      BY <1>2 DEF Pids
    <3>4. QED
      BY <3>2, <3>3, AdmitidosDe DEF Admision
  <2>3. Cardinality(OcupadasAntes(n + 1) \cup {Corte}) <= Grado
    <3>1. OcupadasAntes(n + 1) \cup {Corte} \subseteq Admitidos
      BY <2>1, <2>2
    <3>2. Cardinality(OcupadasAntes(n + 1) \cup {Corte}) <= Cardinality(Admitidos)
          /\ Cardinality(OcupadasAntes(n + 1) \cup {Corte}) \in Nat
      BY <3>1, AdmitidosFinito, FS_Subset, FS_CardinalityType
    <3>3. QED
      BY <3>2, AdmitidosAcotados, AdmitidosFinito, GradoAssumption DEF Admision
  <2>4. OcupadasAntes(n + 1)' = OcupadasAntes(n + 1)
    BY <1>3, <1>15 DEF OcupadasAntes
  <2>5. QED
    BY <1>8, <1>10, <1>12, <2>3, <2>4 DEF CabeLaCreacion
<1>18. LanzadosSiguen
  BY <1>1, <1>4, LanzadosQuietos DEF EnAdmision
<1>19. QED
  BY <1>2, <1>3, <1>4, <1>5, <1>6, <1>13, <1>14, <1>16, <1>17, <1>18 DEF Admision

\* The answer to the creation is read: nothing of it is under way any more.
LEMMA RecibirEstructurasAdmision ==
    ASSUME IInv, Admision, RecibirEstructuras, ~TramaCortada
    PROVE  Admision' /\ LanzadosSiguen
<1>1. /\ TypeOK /\ LargoPlazo \in Hilos /\ pc[LargoPlazo] = "resp"
      /\ {"resp_indices", "muerto"} \subseteq Lugares(LargoPlazo)
  BY HilosFijos, LugaresDe DEF IInv, RecibirEstructuras, En
<1>2. /\ pc'[LargoPlazo] \in {"resp_indices", "muerto"} /\ pc'[Rajar] = pc[Rajar]
      /\ Head(respuestas).cod = "OKI_ESTRUCTURAS" \/ pc'[LargoPlazo] = "muerto"
      /\ respuestas # <<>> /\ respuestas' = Tail(respuestas)
      /\ UNCHANGED <<cola, sem, pid_actual, vida, ptr, pedidos, estructuras>>
  <2>1. CASE /\ Head(respuestas).cod = "OKI_ESTRUCTURAS"
             /\ Recibir(LargoPlazo, "resp_indices", conexion_memoria_mutex)
    <3>1. Ir(LargoPlazo, "resp_indices")
      BY <2>1 DEF Recibir
    <3>2. QED
      BY <1>1, <2>1, <3>1, IrTipo, HilosFijos DEF RecibirEstructuras, Recibir, procesos
  <2>2. CASE Recibir(LargoPlazo, "muerto", "libre")
    <3>1. Ir(LargoPlazo, "muerto")
      BY <2>2 DEF Recibir
    <3>2. QED
      BY <1>1, <2>2, <3>1, IrTipo, HilosFijos DEF RecibirEstructuras, Recibir, procesos
  <2>3. QED
    BY <2>1, <2>2 DEF RecibirEstructuras
<1>3. MismoCorte /\ Iguales({"sacar_new"}) /\ Corte' = Corte
  BY <1>1, <1>2, CorteQuieto DEF MismoCorte, Iguales
<1>4. NewEnOrden' /\ Admitidos' = Admitidos
  BY <1>2, <1>3, VidasQuietas DEF Admision
<1>5. CuentaGrado'
  BY <1>2, <1>3, <1>4, GradoQuieto DEF Admision
<1>6. respuestas \in Seq(Respuesta) /\ respuestas # <<>>
  BY <1>1, <1>2 DEF TypeOK, Respuesta
<1>7. PICK n \in Nat : n = Len(respuestas)
  BY <1>6
<1>8. /\ n >= 1 /\ DOMAIN respuestas = 1..n /\ DOMAIN respuestas' = 1..(n - 1)
      /\ \A i \in 1..(n - 1) : respuestas'[i] = respuestas[i + 1]
      /\ Head(respuestas) = respuestas[1]
  BY <1>2, <1>6, <1>7, AlDesencolar
<1>9. /\ 1 \in 1..n
      /\ \A i \in 1..(n - 1) : i + 1 \in 1..n /\ i + 1 # 1
                               /\ \A j \in 1..(n - 1) : i + 1 = j + 1 => i = j
  BY <1>8
<1>10. CreacionUnica'
  <2>1. CASE Head(respuestas).cod = "OKI_ESTRUCTURAS"
    <3>1. \A i \in DOMAIN respuestas' : respuestas'[i].cod # "OKI_ESTRUCTURAS"
      BY <1>8, <1>9, <2>1 DEF Admision, CreacionUnica
    <3>2. estructuras[Corte] # "no"
      BY <1>8, <1>9, <2>1 DEF Admision, CreacionUnica
    <3>3. \A i \in DOMAIN pedidos : pedidos[i].cod # "ESTRUCTURAS"
      BY <3>2 DEF Admision, CreacionUnica
    <3>4. QED
      BY <1>2, <3>1, <3>3 DEF CreacionUnica
  <2>2. CASE pc'[LargoPlazo] = "muerto"
    <3>1. \A i \in DOMAIN respuestas' : i + 1 \in DOMAIN respuestas /\ respuestas'[i] = respuestas[i + 1]
      BY <1>8, <1>9
    <3>2. \A i, j \in DOMAIN respuestas' : i + 1 = j + 1 => i = j
      BY <1>8, <1>9
    <3>3. QED
      BY <1>2, <1>3, <2>2, <3>1, <3>2 DEF Admision, CreacionUnica
  <2>3. QED
    BY <1>2, <2>1, <2>2
<1>11. EstructurasHasta'
  <2>1. pc'[LargoPlazo] = "resp_indices" => \A p \in Pids : p = Corte => estructuras[p] # "no"
    BY <1>2, <1>8, <1>9 DEF Admision, CreacionUnica
  <2>2. QED
    BY <1>2, <1>3, <2>1 DEF Admision, EstructurasHasta
<1>12. CabeLaCreacion' /\ MemoriaAcotada'
  <2>1. pedidos' = pedidos /\ estructuras' = estructuras /\ CabeLaCreacion /\ MemoriaAcotada
    BY <1>2 DEF Admision
  <2>2. \A i : OcupadasAntes(i)' = OcupadasAntes(i)
    BY ONLY <2>1 DEF OcupadasAntes, LiberacionEnviada
  <2>3. CabeLaCreacion'
    BY ONLY <2>1, <2>2 DEF CabeLaCreacion
  <2>4. MemoriaAcotada'
    BY ONLY <2>1 DEF MemoriaAcotada
  <2> QED BY <2>3, <2>4
<1>13. Liberaciones'
  BY <1>2, LiberacionesQuietas DEF Admision
<1>14. LanzadosSiguen
  BY <1>1, <1>3, LanzadosQuietos DEF EnAdmision
<1>15. QED
  BY <1>1, <1>2, <1>3, <1>4, <1>5, <1>10, <1>11, <1>12, <1>13, <1>14 DEF Admision, EnAdmision

\* A unit passes from the process to the thread that gives it back.
LEMMA SacarExitAdmision ==
    ASSUME IInv, IInv', Admision, SoloLanzados, SacarExit, ~PopIndebido(cola["exit"])
    PROVE  Admision' /\ LanzadosSiguen
<1> DEFINE p == Head(cola["exit"])[1]
<1>1. /\ TypeOK /\ Rajar \in Hilos /\ "post_grado" \in Lugares(Rajar)
  BY HilosFijos, LugaresDe DEF IInv
<1>2. /\ cola["exit"] \in Seq(Refs) /\ cola["exit"] # <<>>
      /\ p \in Pids /\ vida[p] = "viva" /\ pc[Rajar] = "sacar_exit"
  BY <1>1 DEF SacarExit, PopPosible, Valido, En, TypeOK, Colas
<1>3. /\ pc'[LargoPlazo] = pc[LargoPlazo] /\ pc'[Rajar] = "post_grado"
      /\ cola'["new"] = cola["new"] /\ cola'["exit"] = Tail(cola["exit"])
      /\ vida' = [vida EXCEPT ![p] = "destruida"]
      /\ UNCHANGED <<sem, pid_actual, ptr, pedidos, respuestas, estructuras>>
  <2>1. Ir(Rajar, "post_grado")
    BY DEF SacarExit
  <2>2. pc'[LargoPlazo] = pc[LargoPlazo] /\ pc'[Rajar] = "post_grado"
    BY ONLY <1>1, <2>1, IrTipo, HilosFijos
  <2>3. /\ cola' = [cola EXCEPT !["exit"] = Tail(@)]
        /\ vida' = [vida EXCEPT ![p] = "destruida"]
        /\ UNCHANGED <<sem, pid_actual, ptr, pedidos, respuestas, estructuras>>
    BY DEF SacarExit, memoria
  <2>4. DOMAIN cola = Colas /\ "new" \in Colas /\ "exit" \in Colas
    BY ONLY <1>1 DEF TypeOK, Colas
  <2> HIDE DEF p
  <2>5. QED
    BY ONLY <2>2, <2>3, <2>4
<1>4. vida'[p] = "destruida" /\ \A q \in Pids : q # p => vida'[q] = vida[q]
  <2> HIDE DEF p
  <2>1. QED
    BY <1>1, <1>2, <1>3 DEF TypeOK
<1>5. PICK n \in Nat : /\ n >= 1 /\ DOMAIN cola["exit"] = 1..n /\ DOMAIN cola'["exit"] = 1..(n - 1)
                       /\ \A i \in 1..(n - 1) : cola'["exit"][i] = cola["exit"][i + 1]
                       /\ Head(cola["exit"]) = cola["exit"][1]
  <2> DEFINE e == cola["exit"]
  <2>1. e \in Seq(Refs) /\ e # <<>> /\ cola'["exit"] = Tail(e)
    BY <1>2, <1>3
  <2> HIDE DEF e
  <2>2. /\ Len(e) \in Nat /\ Len(e) >= 1 /\ DOMAIN e = 1..Len(e) /\ DOMAIN cola'["exit"] = 1..(Len(e) - 1)
        /\ \A i \in 1..(Len(e) - 1) : cola'["exit"][i] = e[i + 1]
        /\ Head(e) = e[1]
    BY <2>1, AlDesencolar
  <2>3. QED
    BY <2>2 DEF e
<1>6. 1 \in DOMAIN cola["exit"] /\ \A i \in 1..(n - 1) : i + 1 \in DOMAIN cola["exit"]
  BY <1>5
<1>7. p \in 1..Corte
  BY <1>5, <1>6 DEF SoloLanzados, Lanzado
<1>8. LiberacionPedida(p)
  BY <1>5, <1>6 DEF Admision, Liberaciones
<1> HIDE DEF p
<1>9. MismoCorte /\ LPQuieto /\ Corte' = Corte
  BY <1>3, CorteQuieto DEF MismoCorte, LPQuieto, Iguales
<1>10. NewEnOrden'
  <2>1. \A q \in Pids : q <= Corte => vida'[q] # "sin_crear"
    BY <1>4 DEF Admision, NewEnOrden
  <2>2. \A q \in Pids : Corte < q => q # p
    BY <1>7, CorteTipo DEF Pids, Admision
  <2>3. \A q \in Pids : pid_actual < q => q # p
    BY <1>2 DEF Admision, NewEnOrden
  <2>4. QED
    BY <1>3, <1>4, <1>9, <2>1, <2>2, <2>3 DEF Admision, NewEnOrden
<1>11. Admitidos' = Admitidos \ {p} /\ p \in Admitidos
  <2>1. Admitidos = {q \in 1..Corte : vida[q] # "destruida"}
    BY AdmitidosDe DEF Admision
  <2>2. Admitidos' = {q \in 1..Corte : vida'[q] # "destruida"}
    BY <1>9, <1>10, AdmitidosTras
  <2>3. 1..Corte \subseteq Pids
    BY CorteTipo DEF Admision
  <2>4. QED
    BY <1>2, <1>4, <1>7, <2>1, <2>2, <2>3
<1>12. CuentaGrado'
  <2> DEFINE a == Cardinality(Admitidos)
             b == Uno(pc[LargoPlazo] = "sacar_new")
             s == sem["multiprogramacion"]
  <2>1. Uno(pc[Rajar] = "post_grado") = 0 /\ Uno(pc'[Rajar] = "post_grado") = 1
    BY <1>2, <1>3 DEF Uno
  <2>2. a \in Nat /\ b \in Nat /\ s \in Nat
    BY <1>1, AdmitidosFinito DEF Uno, TypeOK, Semaforos
  <2>3. s + b + 0 + a = Grado
    BY <2>1 DEF Admision, CuentaGrado
  <2>4. Cardinality(Admitidos') = a - 1
    BY <1>11, AdmitidosFinito, FS_RemoveElement
  <2>5. s + b + 1 + (a - 1) = Grado
    <3> HIDE DEF s, b, a
    <3>1. QED
      BY ONLY <2>2, <2>3
  <2>6. QED
    BY <1>3, <2>1, <2>4, <2>5 DEF CuentaGrado
<1>13. CreacionUnica' /\ EstructurasHasta' /\ CabeLaCreacion' /\ MemoriaAcotada'
  BY <1>3, <1>9, MemoriaQuieta DEF Admision, LPQuieto
<1>14. Liberaciones'
  <2>1. \A q : LiberacionPedida(q)' <=> LiberacionPedida(q)
    BY <1>3 DEF LiberacionPedida, LiberacionEnviada
  <2>2. \A i \in DOMAIN cola'["exit"] : LiberacionPedida(cola'["exit"][i][1])
    BY <1>5, <1>6 DEF Admision, Liberaciones
  <2>3. \A q \in Pids : vida'[q] = "destruida" => LiberacionPedida(q)
    BY <1>4, <1>8 DEF Admision, Liberaciones
  <2>4. QED
    BY <2>1, <2>2, <2>3 DEF Liberaciones
<1>15. LanzadosSiguen
  BY <1>9, LanzadosQuietos DEF LPQuieto
<1>16. QED
  BY <1>3, <1>9, <1>10, <1>12, <1>13, <1>14, <1>15 DEF Admision

LEMMA AvisarGradoAdmision ==
    ASSUME IInv, Admision, AvisarGrado
    PROVE  Admision' /\ LanzadosSiguen
<1>1. /\ TypeOK /\ Rajar \in Hilos /\ "espera_finalizados" \in Lugares(Rajar)
  BY HilosFijos, LugaresDe DEF IInv
<1>2. /\ pc[Rajar] = "post_grado" /\ pc'[Rajar] = "espera_finalizados"
      /\ pc'[LargoPlazo] = pc[LargoPlazo]
      /\ sem'["multiprogramacion"] = sem["multiprogramacion"] + 1
      /\ UNCHANGED <<cola, pid_actual, vida, ptr, pedidos, respuestas, estructuras>>
  <2>1. Ir(Rajar, "espera_finalizados")
    BY DEF AvisarGrado, Avisar
  <2>2. QED
    BY <1>1, <2>1, IrTipo, HilosFijos
       DEF AvisarGrado, Avisar, En, TypeOK, procesos, memoria, Semaforos
<1>3. MismoCorte /\ LPQuieto /\ Corte' = Corte
  BY <1>2, CorteQuieto DEF MismoCorte, LPQuieto, Iguales
<1>4. NewEnOrden' /\ Admitidos' = Admitidos
  BY <1>2, <1>3, VidasQuietas DEF Admision
<1>5. CuentaGrado'
  <2> DEFINE a == Cardinality(Admitidos)
             b == Uno(pc[LargoPlazo] = "sacar_new")
             s == sem["multiprogramacion"]
  <2>1. Uno(pc[Rajar] = "post_grado") = 1 /\ Uno(pc'[Rajar] = "post_grado") = 0
    BY <1>2 DEF Uno
  <2>2. a \in Nat /\ b \in Nat /\ s \in Nat
    BY <1>1, AdmitidosFinito DEF Uno, TypeOK, Semaforos
  <2>3. s + b + 1 + a = Grado
    BY <2>1 DEF Admision, CuentaGrado
  <2>4. (s + 1) + b + 0 + a = Grado
    <3> HIDE DEF s, b, a
    <3>1. QED
      BY ONLY <2>2, <2>3
  <2>5. QED
    BY <1>2, <1>4, <2>1, <2>4 DEF CuentaGrado
<1>6. CreacionUnica' /\ EstructurasHasta' /\ CabeLaCreacion' /\ MemoriaAcotada'
  BY <1>2, <1>3, MemoriaQuieta DEF Admision, LPQuieto
<1>7. Liberaciones'
  BY <1>2, LiberacionesQuietas DEF Admision
<1>8. QED
  BY <1>2, <1>3, <1>4, <1>5, <1>6, <1>7, LanzadosQuietos DEF Admision, LPQuieto

\* A process goes to the CPU and comes back: it keeps its unit.
LEMMA VidaEnCpuAdmision ==
    ASSUME IInv, Admision, MismoCorte, LPQuieto,
           pc'[Rajar] = pc[Rajar], sem'["multiprogramacion"] = sem["multiprogramacion"],
           cola'["exit"] = cola["exit"], UNCHANGED <<pedidos, respuestas, estructuras>>,
           NEW p \in Pids, Lanzado(p), vida[p] \in {"viva", "en_cpu"},
           vida'[p] \in {"viva", "en_cpu"}, \A q \in Pids : q # p => vida'[q] = vida[q]
    PROVE  Admision' /\ LanzadosSiguen
<1>1. p <= Corte
  BY CorteTipo DEF Lanzado, Admision
<1>2. NewEnOrden' /\ Admitidos' = Admitidos
  <2>1. \A q \in Pids : q <= Corte \/ vida'[q] = vida[q]
    BY <1>1
  <2>2. \A q \in Pids : vida'[q] \in {"viva", "en_cpu"} <=> vida[q] \in {"viva", "en_cpu"}
    OBVIOUS
  <2>3. \A q \in Pids : vida'[q] = "sin_crear" <=> vida[q] = "sin_crear"
    OBVIOUS
  <2>4. QED
    BY <2>1, <2>2, <2>3, VidasQuietas DEF Admision
<1>3. CuentaGrado'
  BY <1>2, GradoQuieto DEF Admision, LPQuieto
<1>4. CreacionUnica' /\ EstructurasHasta' /\ CabeLaCreacion' /\ MemoriaAcotada'
  BY MemoriaQuieta DEF Admision, LPQuieto
<1>5. Liberaciones'
  <2>1. \A q \in Pids : vida'[q] = "destruida" => vida[q] = "destruida"
    OBVIOUS
  <2>2. QED
    BY <2>1, LiberacionesQuietas DEF Admision
<1>6. QED
  BY <1>2, <1>3, <1>4, <1>5, CorteQuieto, LanzadosQuietos DEF Admision, LPQuieto

\* The memory answers the oldest request; when it is a creation there is room for it.
LEMMA AtenderKernelAdmision ==
    ASSUME IInv, Admision, SoloLanzados, AtenderKernel
    PROVE  Admision' /\ LanzadosSiguen
<1>1. PICK p \in Pids :
         /\ pedidos # <<>> /\ Head(pedidos).pid = p /\ pedidos' = Tail(pedidos)
         /\ \/ /\ Head(pedidos).cod = "ESTRUCTURAS"
               /\ respuestas' = Append(Append(respuestas, Msj("OKI_ESTRUCTURAS", p)),
                                       Msj("INDICES", p))
               /\ estructuras' = [estructuras EXCEPT ![p] = "creadas"]
            \/ /\ Head(pedidos).cod = "PAGINA"
               /\ respuestas' = Append(respuestas, Msj("OKI_PAGINA", p))
               /\ estructuras' = estructuras
            \/ /\ Head(pedidos).cod = "LIBERAR_ESTRUCTURAS"
               /\ respuestas' = Append(respuestas, Msj("OKI_LIBERAR_ESTRUCTURAS", p))
               /\ estructuras' = [estructuras EXCEPT ![p] = "liberadas"]
         /\ UNCHANGED <<cola, sem, dispositivos, procesos, pc, ptr>>
  BY AtenderKernelDe
<1>2. /\ TypeOK /\ pedidos \in Seq(Pedido) /\ respuestas \in Seq(Respuesta)
  BY DEF IInv, TypeOK, Pedido, Respuesta
<1>3. UNCHANGED <<cola, sem, pid_actual, vida, pc, ptr>>
  BY <1>1 DEF procesos
<1>4. MismoCorte /\ LPQuieto /\ Corte' = Corte
  BY <1>3, CorteQuieto DEF MismoCorte, LPQuieto, Iguales
<1>5. NewEnOrden' /\ Admitidos' = Admitidos
  BY <1>3, <1>4, VidasQuietas DEF Admision
<1>6. CuentaGrado'
  BY <1>3, <1>4, <1>5, GradoQuieto DEF Admision, LPQuieto
<1>7. PICK n \in Nat : n = Len(pedidos) /\ n >= 1 /\ Head(pedidos) = pedidos[1]
  BY <1>1, <1>2, AlDesencolar
<1>8. /\ DOMAIN pedidos' = 1..(n - 1) /\ DOMAIN pedidos = 1..n /\ 1 \in DOMAIN pedidos
      /\ \A i \in DOMAIN pedidos' : /\ i + 1 \in DOMAIN pedidos
                                    /\ pedidos'[i] = pedidos[i + 1]
                                    /\ \A j \in DOMAIN pedidos' : i + 1 = j + 1 => i = j
                                    /\ i + 1 # 1
      /\ \A q : \A i \in DOMAIN pedidos' :
           LiberacionEnviada(q, i + 1)
             <=> \/ LiberacionEnviada(q, i)'
                 \/ Head(pedidos).cod = "LIBERAR_ESTRUCTURAS" /\ p = q
      /\ \A q : LiberacionPedida(q) =>
           \/ LiberacionPedida(q)'
           \/ Head(pedidos).cod = "LIBERAR_ESTRUCTURAS" /\ p = q
           \/ estructuras'[q] # estructuras[q]
      /\ \A q : ~LiberacionEnviada(q, 1)
  <2>1. n - 1 + 1 = n /\ Len(pedidos') = n - 1 /\ 1 \in 1..n
    BY <1>1, <1>2, <1>7, AlDesencolar
  <2>2. \A q : LiberacionEnviada(q, n + 1)
                  <=> \/ LiberacionEnviada(q, Len(pedidos) + 1)'
                      \/ Head(pedidos).cod = "LIBERAR_ESTRUCTURAS" /\ p = q
    BY <1>1, <1>2, <1>7, EnviadaTail
  <2>3. \A q : LiberacionPedida(q) <=> estructuras[q] = "liberadas" \/ LiberacionEnviada(q, n + 1)
    BY <1>7 DEF LiberacionPedida
  <2>4. \A q : LiberacionPedida(q)'
           <=> estructuras'[q] = "liberadas" \/ LiberacionEnviada(q, Len(pedidos) + 1)'
    BY DEF LiberacionPedida
  <2>5. QED
    BY <1>1, <1>2, <1>7, <2>1, <2>2, <2>3, <2>4, EnviadaTail
<1> HIDE DEF Msj
<1>9. ASSUME NEW c \in {"OKI_ESTRUCTURAS", "INDICES", "OKI_PAGINA", "OKI_LIBERAR_ESTRUCTURAS"},
             NEW s \in Seq(Respuesta)
      PROVE  /\ Append(s, Msj(c, p)) \in Seq(Respuesta)
             /\ \A i \in DOMAIN Append(s, Msj(c, p)) :
                   \/ i \in DOMAIN s /\ Append(s, Msj(c, p))[i] = s[i]
                   \/ i = Len(s) + 1 /\ Append(s, Msj(c, p))[i].cod = c
                                     /\ Append(s, Msj(c, p))[i].pid = p
  <2>1. Msj(c, p) \in Respuesta /\ Msj(c, p).cod = c /\ Msj(c, p).pid = p
    BY MsjTipo
  <2> DEFINE t == Append(s, Msj(c, p))
  <2>2. /\ t \in Seq(Respuesta) /\ DOMAIN t = 1..(Len(s) + 1) /\ DOMAIN s = 1..Len(s)
        /\ \A i \in 1..Len(s) : t[i] = s[i]
        /\ t[Len(s) + 1] = Msj(c, p) /\ Len(s) \in Nat
    BY <2>1, AlEncolar
  <2>3. \A i \in DOMAIN t : i \in DOMAIN s \/ i = Len(s) + 1
    BY <2>2
  <2> HIDE DEF t
  <2>4. \A i \in DOMAIN t : \/ i \in DOMAIN s /\ t[i] = s[i]
                            \/ i = Len(s) + 1 /\ t[i].cod = c /\ t[i].pid = p
    BY <2>1, <2>2, <2>3
  <2>5. QED
    BY <2>2, <2>4 DEF t
<1>10. CASE Head(pedidos).cod = "ESTRUCTURAS"
  <2>1. /\ p = Corte /\ estructuras[Corte] = "no" /\ pc[LargoPlazo] \in {"resp", "muerto"}
        /\ \A i \in DOMAIN pedidos : pedidos[i].cod = "ESTRUCTURAS" => i = 1
    BY <1>1, <1>7, <1>8, <1>10 DEF Admision, CreacionUnica
  <2>2. \A i \in DOMAIN pedidos' : pedidos'[i].cod # "ESTRUCTURAS"
    BY <1>8, <2>1
  <2>3. estructuras'[p] = "creadas" /\ \A q \in Pids : q # p => estructuras'[q] = estructuras[q]
    BY <1>1, <1>2, <1>10 DEF TypeOK
  <2>4. \A i \in DOMAIN respuestas : respuestas[i].cod # "OKI_ESTRUCTURAS"
    BY <2>1 DEF Admision, CreacionUnica
  <2>5. \A i \in DOMAIN respuestas' : respuestas'[i].cod = "OKI_ESTRUCTURAS" =>
           i = Len(respuestas) + 1 /\ respuestas'[i].pid = p
    <3> DEFINE s == Append(respuestas, Msj("OKI_ESTRUCTURAS", p))
    <3>1. /\ s \in Seq(Respuesta)
          /\ \A i \in DOMAIN s :
                \/ i \in DOMAIN respuestas /\ s[i] = respuestas[i]
                \/ i = Len(respuestas) + 1 /\ s[i].pid = p
      BY <1>2, <1>9
    <3>2. respuestas' = Append(s, Msj("INDICES", p))
      BY <1>1, <1>10
    <3> HIDE DEF s
    <3>3. \A i \in DOMAIN respuestas' : \/ i \in DOMAIN s /\ respuestas'[i] = s[i]
                                        \/ respuestas'[i].cod = "INDICES"
      BY <3>1, <3>2, <1>9
    <3>4. QED
      BY <2>4, <3>1, <3>3
  <2>6. CreacionUnica'
    BY <1>3, <1>4, <2>1, <2>2, <2>3, <2>5 DEF CreacionUnica
  <2>7. EstructurasHasta'
    <3>1. \A q \in Pids : Corte < q => q # Corte
      BY <2>1 DEF Pids
    <3>2. QED
      BY <1>3, <1>4, <2>1, <2>3, <3>1 DEF Admision, EstructurasHasta
  <2>8. CabeLaCreacion'
    BY <2>2 DEF CabeLaCreacion
  <2>9. MemoriaAcotada'
    <3>1. {q \in Pids : estructuras'[q] = "creadas"} = OcupadasAntes(1) \cup {p}
      BY <1>8, <2>3 DEF OcupadasAntes
    <3>2. Cardinality(OcupadasAntes(1) \cup {p}) <= Grado
      BY <1>1, <1>7, <1>8, <1>10 DEF Admision, CabeLaCreacion
    <3>3. QED
      BY <3>1, <3>2 DEF MemoriaAcotada
  <2>10. \A q \in Pids : LiberacionPedida(q) => LiberacionPedida(q)'
    <3>1. TAKE q \in Pids
    <3>2. CASE q # p
      BY <1>8, <1>10, <2>3, <3>2
    <3>3. CASE q = p
      <4>1. ASSUME LiberacionPedida(p) PROVE FALSE
        <5>1. PICK i \in DOMAIN pedidos : pedidos[i].cod = "LIBERAR_ESTRUCTURAS" /\ pedidos[i].pid = p
          BY <2>1, <4>1 DEF LiberacionPedida, LiberacionEnviada
        <5>2. Lanzado(p)
          BY <5>1 DEF SoloLanzados
        <5>3. QED
          BY <2>1, <5>2 DEF Lanzado, EnAdmision
      <4>2. QED
        BY <3>3, <4>1
    <3>4. QED
      BY <3>2, <3>3
  <2>11. Liberaciones'
    <3>1. \A i \in DOMAIN cola["exit"] : cola["exit"][i][1] \in Pids
      BY <1>2 DEF TypeOK, Colas, Refs
    <3>2. QED
      BY <1>3, <2>10, <3>1 DEF Admision, Liberaciones
  <2>12. QED
    BY <1>3, <1>4, <1>5, <1>6, <2>6, <2>7, <2>8, <2>9, <2>11, LanzadosQuietos DEF Admision, LPQuieto
<1>11. CASE Head(pedidos).cod \in {"PAGINA", "LIBERAR_ESTRUCTURAS"}
  <2>1. \A i \in DOMAIN respuestas' : respuestas'[i].cod = "OKI_ESTRUCTURAS" =>
           i \in DOMAIN respuestas /\ respuestas'[i] = respuestas[i]
    <3>1. PICK c \in {"OKI_PAGINA", "OKI_LIBERAR_ESTRUCTURAS"} :
             respuestas' = Append(respuestas, Msj(c, p))
      BY <1>1, <1>11
    <3>2. \A i \in DOMAIN respuestas' : \/ i \in DOMAIN respuestas /\ respuestas'[i] = respuestas[i]
                                        \/ respuestas'[i].cod = c
      BY <1>2, <1>9, <3>1
    <3>3. QED
      BY <3>2
  <2>2. /\ \A q \in Pids : q # p => estructuras'[q] = estructuras[q]
        /\ Head(pedidos).cod = "PAGINA" => estructuras' = estructuras
        /\ Head(pedidos).cod = "LIBERAR_ESTRUCTURAS" => estructuras'[p] = "liberadas"
    BY <1>1, <1>2, <1>11 DEF TypeOK
  <2>3. Lanzado(p)
    BY <1>1, <1>7, <1>8, <1>11 DEF SoloLanzados
  <2>4. p <= Corte /\ (p = Corte => pc[LargoPlazo] \notin EnAdmision)
    BY <2>3, CorteTipo DEF Lanzado, Admision
  <2>5. \A i \in DOMAIN pedidos' : pedidos'[i].cod = "ESTRUCTURAS" => estructuras'[Corte] = "no"
    <3>1. TAKE i \in DOMAIN pedidos'
    <3>2. HAVE pedidos'[i].cod = "ESTRUCTURAS"
    <3>3. i + 1 \in DOMAIN pedidos /\ pedidos[i + 1].cod = "ESTRUCTURAS"
      BY <1>8, <3>2
    <3>4. /\ estructuras[Corte] = "no" /\ pc[LargoPlazo] \in {"resp", "muerto"}
          /\ pedidos[i + 1].pid = Corte
      BY <3>3 DEF Admision, CreacionUnica
    <3>5. p # Corte
      BY <2>4, <3>4 DEF EnAdmision
    <3>6. Corte \in Pids
      <4>1. pedidos[i + 1] \in Pedido
        <5> HIDE DEF Pedido
        <5>1. QED
          BY <1>2, <3>3
      <4>2. QED
        BY <4>1, <3>4 DEF Pedido
    <3>7. QED
      BY <2>2, <3>4, <3>5, <3>6
  <2>6. \A i \in DOMAIN respuestas : respuestas[i].cod = "OKI_ESTRUCTURAS" => estructuras'[Corte] # "no"
    <3>1. CASE p = Corte
      BY <2>2, <3>1, <1>11 DEF Admision, CreacionUnica
    <3>2. CASE p # Corte
      <4>1. TAKE i \in DOMAIN respuestas
      <4>2. HAVE respuestas[i].cod = "OKI_ESTRUCTURAS"
      <4>3. estructuras[Corte] # "no" /\ respuestas[i].pid = Corte
        BY <4>2 DEF Admision, CreacionUnica
      <4>4. respuestas[i] \in Respuesta
        <5> HIDE DEF Respuesta
        <5>1. QED
          BY <1>2
      <4>5. Corte \in Pids
        BY <4>3, <4>4 DEF Respuesta
      <4>6. QED
        BY <2>2, <3>2, <4>3, <4>5
    <3>3. QED
      BY <3>1, <3>2
  <2>7. CreacionUnica'
    <3>1. \A i \in DOMAIN pedidos' : pedidos'[i].cod = "ESTRUCTURAS" =>
             /\ pedidos'[i].pid = Corte /\ pc[LargoPlazo] \in {"resp", "muerto"}
      BY <1>8 DEF Admision, CreacionUnica
    <3>2. \A i, j \in DOMAIN pedidos' :
             pedidos'[i].cod = "ESTRUCTURAS" /\ pedidos'[j].cod = "ESTRUCTURAS" => i = j
      BY <1>8 DEF Admision, CreacionUnica
    <3>3. QED
      BY <1>3, <1>4, <2>1, <2>5, <2>6, <3>1, <3>2 DEF Admision, CreacionUnica
  <2>8. EstructurasHasta'
    <3>1. \A q \in Pids : Corte < q => q # p
      BY <2>4, CorteTipo DEF Pids, Admision
    <3>2. \A q \in Pids : q = Corte /\ pc[LargoPlazo] = "pedir" => q # p
      BY <2>4 DEF EnAdmision
    <3>3. \A q \in Pids : estructuras[q] # "no" => estructuras'[q] # "no"
      BY <2>2, <1>11
    <3>4. QED
      BY <1>3, <1>4, <2>2, <3>1, <3>2, <3>3 DEF Admision, EstructurasHasta
  <2>9. MemoriaAcotada'
    <3>1. {q \in Pids : estructuras'[q] = "creadas"} \subseteq {q \in Pids : estructuras[q] = "creadas"}
      BY <2>2, <1>11
    <3> DEFINE C == {q \in Pids : estructuras[q] = "creadas"}
               D == {q \in Pids : estructuras'[q] = "creadas"}
    <3>2. IsFiniteSet(C)
      BY AdmitidosFinito, FS_Subset
    <3>3. Cardinality(C) <= Grado /\ D \subseteq C
      BY <3>1 DEF Admision, MemoriaAcotada
    <3> HIDE DEF C, D
    <3>4. Cardinality(D) <= Cardinality(C) /\ Cardinality(D) \in Nat /\ Cardinality(C) \in Nat
      BY <3>2, <3>3, FS_Subset, FS_CardinalityType
    <3>5. Cardinality(D) <= Grado
      BY <3>3, <3>4, GradoAssumption
    <3>6. QED
      BY <3>5 DEF D, MemoriaAcotada
  <2>10. CabeLaCreacion'
    <3>1. ASSUME NEW i \in DOMAIN pedidos' PROVE OcupadasAntes(i)' = OcupadasAntes(i + 1)
      <4>1. \A q \in Pids : q # p => (LiberacionEnviada(q, i + 1) <=> LiberacionEnviada(q, i)')
        BY <1>8
      <4>2. CASE Head(pedidos).cod = "PAGINA"
        BY <1>8, <2>2, <4>2 DEF OcupadasAntes
      <4>3. CASE Head(pedidos).cod = "LIBERAR_ESTRUCTURAS"
        <5>1. LiberacionEnviada(p, i + 1)
          BY <1>8, <4>3
        <5>2. QED
          BY <2>2, <4>1, <4>3, <5>1 DEF OcupadasAntes
      <4>4. QED
        BY <1>11, <4>2, <4>3
    <3>2. QED
      BY <1>8, <3>1 DEF Admision, CabeLaCreacion
  <2>11. \A q \in Pids : LiberacionPedida(q) => LiberacionPedida(q)'
    <3>1. TAKE q \in Pids
    <3>2. CASE q # p \/ Head(pedidos).cod = "PAGINA"
      BY <1>8, <2>2, <3>2
    <3>3. CASE q = p /\ Head(pedidos).cod = "LIBERAR_ESTRUCTURAS"
      BY <2>2, <3>3 DEF LiberacionPedida
    <3>4. QED
      BY <1>11, <3>2, <3>3
  <2>12. Liberaciones'
    <3>1. \A i \in DOMAIN cola["exit"] : cola["exit"][i][1] \in Pids
      BY <1>2 DEF TypeOK, Colas, Refs
    <3>2. QED
      BY <1>3, <2>11, <3>1 DEF Admision, Liberaciones
  <2>13. QED
    BY <1>3, <1>4, <1>5, <1>6, <2>7, <2>8, <2>9, <2>10, <2>12, LanzadosQuietos DEF Admision, LPQuieto
<1>12. QED
  BY <1>1, <1>10, <1>11

\* A process leaves: its release is sent after it joined the EXIT queue.
LEMMA SolicitarFinalizacionAdmision ==
    ASSUME IInv, Admision, NEW r \in Refs, SolicitarFinalizacion(r)
    PROVE  Admision' /\ LanzadosSiguen
<1>1. /\ TypeOK /\ CortoPlazo \in Hilos /\ "resp_liberar" \in Lugares(CortoPlazo)
      /\ r[1] \in Pids
  BY HilosFijos, LugaresDe DEF IInv, Refs
<1>2. /\ Ir(CortoPlazo, "resp_liberar")
      /\ cola'["new"] = cola["new"] /\ cola'["exit"] = Append(cola["exit"], r)
      /\ pedidos' = Append(pedidos, Msj("LIBERAR_ESTRUCTURAS", r[1]))
      /\ UNCHANGED <<sem, pid_actual, vida, ptr, respuestas, estructuras>>
  BY <1>1 DEF SolicitarFinalizacion, Msj, TypeOK, Colas
<1>3. MismoCorte /\ LPQuieto /\ Corte' = Corte /\ pc'[Rajar] = pc[Rajar]
  BY <1>1, <1>2, LPAjeno, CorteQuieto, HilosFijos DEF MismoCorte
<1>4. NewEnOrden' /\ Admitidos' = Admitidos
  BY <1>2, <1>3, VidasQuietas DEF Admision
<1>5. CuentaGrado'
  BY <1>2, <1>3, <1>4, GradoQuieto DEF Admision, LPQuieto
<1> DEFINE m == Msj("LIBERAR_ESTRUCTURAS", r[1])
<1>6. m \in Pedido /\ m.cod = "LIBERAR_ESTRUCTURAS" /\ m.pid = r[1]
  BY <1>1 DEF Pedido, Msj
<1>7. pedidos' = Append(pedidos, m)
  BY <1>2
<1> HIDE DEF m
<1>8. /\ CreacionUnica' /\ EstructurasHasta' /\ CabeLaCreacion' /\ MemoriaAcotada'
      /\ \A p : LiberacionPedida(p) => LiberacionPedida(p)'
      /\ LiberacionPedida(m.pid)'
  BY <1>2, <1>3, <1>6, <1>7, PedidoAjeno
<1>9. LiberacionPedida(r[1])'
  <2>1. \A q : q = r[1] => (LiberacionPedida(q)' <=> LiberacionPedida(r[1])')
    BY DEF LiberacionPedida, LiberacionEnviada
  <2>2. \A q : q = m.pid => (LiberacionPedida(q)' <=> LiberacionPedida(m.pid)')
    BY <1>6 DEF LiberacionPedida, LiberacionEnviada
  <2>3. QED
    BY <1>6, <1>8, <2>1, <2>2
<1>10. Liberaciones'
  <2> DEFINE e == cola["exit"]
  <2>1. e \in Seq(Refs) /\ cola'["exit"] = Append(e, r)
    BY <1>1, <1>2 DEF TypeOK, Colas
  <2>2. \A i \in DOMAIN cola'["exit"] : \/ i \in DOMAIN e /\ cola'["exit"][i] = e[i]
                                        \/ cola'["exit"][i] = r
    <3> HIDE DEF e
    <3>1. /\ DOMAIN cola'["exit"] = 1..(Len(e) + 1) /\ DOMAIN e = 1..Len(e) /\ Len(e) \in Nat
          /\ \A i \in 1..Len(e) : cola'["exit"][i] = e[i]
          /\ cola'["exit"][Len(e) + 1] = r
      BY <2>1, AlEncolar
    <3>2. \A i \in 1..(Len(e) + 1) : i \in 1..Len(e) \/ i = Len(e) + 1
      BY <3>1
    <3>3. QED
      BY <3>1, <3>2
  <2>3. \A i \in DOMAIN cola'["exit"] : LiberacionPedida(cola["exit"][i][1])'
    <3>1. TAKE i \in DOMAIN cola'["exit"]
    <3>2. CASE cola'["exit"][i] = r
      <4>1. PICK q : q = r[1]
        OBVIOUS
      <4>2. LiberacionPedida(q)'
        BY <1>9, <4>1 DEF LiberacionPedida, LiberacionEnviada
      <4>3. QED
        BY <3>2, <4>1, <4>2 DEF LiberacionPedida, LiberacionEnviada
    <3>3. CASE i \in DOMAIN e /\ cola'["exit"][i] = e[i]
      <4>1. PICK q : q = e[i][1]
        OBVIOUS
      <4>2. LiberacionPedida(q)
        BY <3>3, <4>1 DEF Admision, Liberaciones
      <4>3. LiberacionPedida(q)'
        BY <1>8, <4>2
      <4>4. QED
        BY <3>3, <4>1, <4>3 DEF LiberacionPedida, LiberacionEnviada
    <3>4. QED
      BY <2>2, <3>2, <3>3
  <2>4. \A p \in Pids : vida'[p] = "destruida" => LiberacionPedida(p)'
    BY <1>2, <1>8 DEF Admision, Liberaciones
  <2>5. QED
    BY <2>3, <2>4 DEF Liberaciones
<1>11. QED
  BY <1>2, <1>3, <1>4, <1>5, <1>8, <1>10, LanzadosQuietos DEF Admision, LPQuieto

LEMMA PedirPaginaAdmision ==
    ASSUME IInv, Admision, NEW r \in Refs, PedirPagina(r), ~UsoTrasLiberar(PF(r))
    PROVE  Admision' /\ LanzadosSiguen
<1>1. /\ TypeOK /\ PF(r) \in Hilos /\ "resp" \in Lugares(PF(r)) /\ PF(r) # LargoPlazo /\ PF(r) # Rajar
      /\ ptr[PF(r)] \in Refs
  <2>1. /\ TypeOK /\ PF(r) \in Hilos /\ "resp" \in Lugares(PF(r)) /\ PF(r) # LargoPlazo /\ PF(r) # Rajar
    BY HilosFijos, HilosPorIndice, LugaresDe DEF IInv
  <2>2. QED
    BY <2>1, ValidoRef DEF PedirPagina
<1>2. /\ Ir(PF(r), "resp")
      /\ pedidos' = Append(pedidos, Msj("PAGINA", ptr[PF(r)][1]))
      /\ UNCHANGED <<cola, sem, pid_actual, vida, ptr, respuestas, estructuras>>
  BY DEF PedirPagina, Pedir, Msj, procesos
<1>3. MismoCorte /\ LPQuieto /\ Corte' = Corte /\ pc'[Rajar] = pc[Rajar]
  BY <1>1, <1>2, LPAjeno, CorteQuieto DEF MismoCorte
<1>4. NewEnOrden' /\ Admitidos' = Admitidos
  BY <1>2, <1>3, VidasQuietas DEF Admision
<1>5. CuentaGrado'
  BY <1>2, <1>3, <1>4, GradoQuieto DEF Admision, LPQuieto
<1> DEFINE m == Msj("PAGINA", ptr[PF(r)][1])
<1>6. m \in Pedido /\ m.cod = "PAGINA"
  BY <1>1 DEF Pedido, Msj, Refs
<1>7. pedidos' = Append(pedidos, m)
  BY <1>2
<1> HIDE DEF m
<1>8. /\ CreacionUnica' /\ EstructurasHasta' /\ CabeLaCreacion' /\ MemoriaAcotada'
      /\ \A p : LiberacionPedida(p) => LiberacionPedida(p)'
  BY <1>2, <1>3, <1>6, <1>7, PedidoAjeno
<1>9. Liberaciones'
  BY <1>2, <1>8 DEF Admision, Liberaciones
<1>10. QED
  BY <1>2, <1>3, <1>4, <1>5, <1>8, <1>9, LanzadosQuietos DEF Admision, LPQuieto

-----------------------------------------------------------------------------
(* Admission: every step. *)

\* Nothing of what admission looks at changes but where the threads are.
Ajeno == /\ UNCHANGED <<pid_actual, vida, ptr, pedidos, respuestas, estructuras>>
         /\ cola'["new"] = cola["new"] /\ cola'["exit"] = cola["exit"]
         /\ sem'["multiprogramacion"] = sem["multiprogramacion"]

LEMMA AjenoAdmision ==
    ASSUME IInv, Admision, Ajeno, NEW h \in Hilos, NEW l \in Lugares(h), Ir(h, l),
           h # Rajar \/ {pc[h], l} \cap {"post_grado"} = {},
           \/ h # LargoPlazo
           \/ {pc[h], l} \cap (EnAdmision \cup {"sacar_new"}) = {}
           \/ {pc[h], l} \cap {"sacar_new", "pedir", "resp", "muerto"} = {} /\ l \notin EnAdmision
    PROVE  Admision' /\ LanzadosSiguen
<1>1. MismoCorte
  BY DEF Ajeno, MismoCorte
<1>2. /\ pc'[h] = l
      /\ \A k \in Hilos : k # h => pc'[k] = pc[k]
  BY IrTipo DEF IInv
<1>3. LPQuieto
  <2>1. CASE h # LargoPlazo
    BY <2>1, LPAjeno DEF Ajeno
  <2>2. CASE h = LargoPlazo
    BY <1>2, <2>2 DEF LPQuieto, Iguales, EnAdmision
  <2>3. QED
    BY <2>1, <2>2
<1>4. pc'[Rajar] = "post_grado" <=> pc[Rajar] = "post_grado"
  BY <1>2, HilosFijos
<1>5. QED
  BY <1>1, <1>3, <1>4, AdmisionQuieta DEF Ajeno

LEMMA FallarAdmision ==
    ASSUME IInv, Admision, UNCHANGED vars \/ \E f : Fallar(f)
    PROVE  Admision' /\ LanzadosSiguen
<1>1. UNCHANGED <<cola, sem, pc, pid_actual, vida, ptr, pedidos, respuestas, estructuras>>
  BY DEF vars, Fallar, procesos, memoria
<1>2. MismoCorte /\ LPQuieto
  BY <1>1 DEF MismoCorte, LPQuieto, Iguales
<1>3. QED
  BY <1>1, <1>2, AdmisionQuieta

LEMMA EsperarAdmision ==
    ASSUME IInv, Admision, NEW h \in Hilos, NEW l \in Lugares(h), NEW de,
           NEW s \in Semaforos \ {"multiprogramacion"},
           Esperar(h, de, s, l) \/ Avisar(h, de, s, l),
           {de, l} \cap (EnAdmision \cup {"sacar_new", "post_grado"}) = {} \/ h \notin {LargoPlazo, Rajar}
    PROVE  Admision' /\ LanzadosSiguen
<1>1. Ajeno /\ Ir(h, l) /\ pc[h] = de
  BY DEF Esperar, Avisar, En, Ajeno, procesos, memoria, IInv, TypeOK, Semaforos
<1>2. QED
  BY <1>1, AjenoAdmision

LEMMA SeguirAdmision ==
    ASSUME IInv, Admision, NEW h \in Hilos, NEW l \in Lugares(h), Seguir(h, l),
           h \notin {LargoPlazo, Rajar}
    PROVE  Admision' /\ LanzadosSiguen
<1>1. Ajeno /\ Ir(h, l)
  BY DEF Seguir, Ajeno, procesos, memoria
<1>2. QED
  BY <1>1, AjenoAdmision

LEMMA PasarAReadyAdmision ==
    ASSUME IInv, Admision, NEW h \in Pasadores, PasarAReady(h)
    PROVE  Admision' /\ LanzadosSiguen
<1>1. /\ h \in Hilos /\ {"push_ready", "limpiar", "post_ready"} \subseteq Lugares(h)
      /\ TrasReady(h) \in Lugares(h) /\ h # Rajar
      /\ h = LargoPlazo => TrasReady(h) = "espera_new"
  BY PasadoresDe, TrasReadyDe, HilosFijos DEF Pasadores
<1>2. CASE PushReady(h)
  <2>1. Ajeno /\ Ir(h, "limpiar") /\ pc[h] = "push_ready"
    BY <1>2 DEF PushReady, En, Ajeno, memoria, IInv, TypeOK, Colas
  <2>2. QED
    BY <1>1, <2>1, AjenoAdmision DEF EnAdmision
<1>3. CASE LimpiarBanderas(h)
  <2>1. Ajeno /\ Ir(h, "post_ready") /\ pc[h] = "limpiar"
    BY <1>3 DEF LimpiarBanderas, En, Ajeno, memoria
  <2>2. QED
    BY <1>1, <2>1, AjenoAdmision DEF EnAdmision
<1>4. CASE UsoTrasLiberar(h)
  BY <1>4, FallarAdmision DEF UsoTrasLiberar
<1>5. CASE Avisar(h, "post_ready", "procesos_ready", TrasReady(h))
  BY <1>1, <1>5, EsperarAdmision DEF EnAdmision, Semaforos
<1>6. QED
  BY <1>2, <1>3, <1>4, <1>5 DEF PasarAReady

LEMMA NewAReadyAdmision ==
    ASSUME IInv, IInv', Admision, SoloLanzados, NewAReady
    PROVE  Admision' /\ LanzadosSiguen
<1>1. /\ TypeOK /\ LargoPlazo \in Hilos /\ LargoPlazo \in Pasadores
      /\ {"espera_grado", "push_ready"} \subseteq Lugares(LargoPlazo)
  BY HilosFijos, LugaresDe DEF IInv, Pasadores
<1>2. CASE EsperarNew
  BY <1>1, <1>2, EsperarAdmision DEF EsperarNew, EnAdmision, Semaforos
<1>3. CASE EsperarGrado
  BY <1>3, EsperarGradoAdmision
<1>4. CASE SacarNew
  <2>1. CASE PopIndebido(cola["new"])
    BY <2>1, FallarAdmision DEF PopIndebido
  <2>2. CASE ~PopIndebido(cola["new"])
    BY <1>4, <2>2, SacarNewAdmision
  <2>3. QED
    BY <2>1, <2>2
<1>5. CASE Pedir(LargoPlazo, "ESTRUCTURAS")
  BY <1>5, PedirEstructurasAdmision
<1>6. CASE RecibirEstructuras
  <2>1. CASE TramaCortada
    BY <2>1, FallarAdmision DEF TramaCortada
  <2>2. CASE ~TramaCortada
    BY <1>6, <2>2, RecibirEstructurasAdmision
  <2>3. QED
    BY <2>1, <2>2
<1>7. CASE RecibirIndices
  <2>1. CASE Head(respuestas).cod = "INDICES"
    <3>1. Ir(LargoPlazo, "push_ready") /\ pc[LargoPlazo] = "resp_indices"
          /\ respuestas # <<>> /\ respuestas' = Tail(respuestas)
          /\ UNCHANGED <<cola, sem, pid_actual, vida, ptr, pedidos, estructuras>>
      BY <1>7, <2>1 DEF RecibirIndices, Recibir, En, procesos
    <3>2. pc'[LargoPlazo] = "push_ready" /\ pc'[Rajar] = pc[Rajar]
      BY <1>1, <3>1, IrTipo, HilosFijos
    <3>3. MismoCorte /\ LPQuieto
      BY <3>1, <3>2 DEF MismoCorte, LPQuieto, Iguales, EnAdmision
    <3>4. QED
      BY <3>1, <3>2, <3>3, AdmisionQuieta
  <2>2. CASE Head(respuestas).cod # "INDICES"
    BY <1>7, <2>2, FallarAdmision DEF RecibirIndices
  <2>3. QED
    BY <2>1, <2>2
<1>8. CASE PasarAReady(LargoPlazo)
  BY <1>1, <1>8, PasarAReadyAdmision
<1>9. QED
  BY <1>2, <1>3, <1>4, <1>5, <1>6, <1>7, <1>8 DEF NewAReady

LEMMA RajarPcbAdmision ==
    ASSUME IInv, IInv', Admision, SoloLanzados, RajarPcb
    PROVE  Admision' /\ LanzadosSiguen
<1>1. Rajar \in Hilos /\ "sacar_exit" \in Lugares(Rajar)
  BY HilosFijos, LugaresDe
<1>2. CASE EsperarFinalizados
  BY <1>1, <1>2, EsperarAdmision DEF EsperarFinalizados, EnAdmision, Semaforos
<1>3. CASE SacarExit
  <2>1. CASE PopIndebido(cola["exit"])
    BY <2>1, FallarAdmision DEF PopIndebido
  <2>2. CASE ~PopIndebido(cola["exit"])
    BY <1>3, <2>2, SacarExitAdmision
  <2>3. QED
    BY <2>1, <2>2
<1>4. CASE AvisarGrado
  BY <1>4, AvisarGradoAdmision
<1>5. QED
  BY <1>2, <1>3, <1>4 DEF RajarPcb

LEMMA SolicitarIOAdmision ==
    ASSUME IInv, Admision, NEW r \in Refs, SolicitarIO(r)
    PROVE  Admision' /\ LanzadosSiguen
<1>1. /\ TypeOK /\ CortoPlazo \in Hilos /\ IO(r) \in Hilos
      /\ CortoPlazo # LargoPlazo /\ CortoPlazo # Rajar /\ IO(r) # LargoPlazo /\ IO(r) # Rajar
      /\ LargoPlazo \in Hilos /\ Rajar \in Hilos
  BY HilosFijos, HilosPorIndice DEF IInv
<1>2. Ajeno
  BY DEF SolicitarIO, Ajeno, memoria
<1>3. pc'[LargoPlazo] = pc[LargoPlazo] /\ pc'[Rajar] = pc[Rajar]
  BY <1>1 DEF SolicitarIO, Ir, TypeOK
<1>4. MismoCorte /\ LPQuieto
  BY <1>2, <1>3 DEF Ajeno, MismoCorte, LPQuieto, Iguales
<1>5. QED
  BY <1>2, <1>3, <1>4, AdmisionQuieta DEF Ajeno

LEMMA PlanificarEjecucionAdmision ==
    ASSUME IInv, Admision, SoloLanzados, PcbEnCpu, PlanificarEjecucion
    PROVE  Admision' /\ LanzadosSiguen
<1>1. /\ TypeOK /\ CortoPlazo \in Hilos /\ CortoPlazo \in Pasadores
      /\ {"espera_ready", "mirar_rr", "sacar_rr", "sacar_fifo", "enviar", "destruir", "recibir",
          "push_ready"} \subseteq Lugares(CortoPlazo)
      /\ CortoPlazo # LargoPlazo /\ CortoPlazo # Rajar
      /\ LargoPlazo \in Hilos /\ Rajar \in Hilos
  BY HilosFijos, LugaresDe DEF IInv, Pasadores
<1>2. CASE EsperarReady
  BY <1>1, <1>2, EsperarAdmision DEF EsperarReady, Semaforos
<1>3. CASE MirarRR
  BY <1>1, <1>3, SeguirAdmision DEF MirarRR
<1>4. ASSUME NEW lugar, NEW q \in {"rr", "fifo"}, SacarReady(lugar, q)
      PROVE  Admision' /\ LanzadosSiguen
  <2>1. CASE PopIndebido(cola[q])
    BY <2>1, FallarAdmision DEF PopIndebido
  <2>2. CASE ~PopIndebido(cola[q])
    <3>1. /\ Ir(CortoPlazo, "enviar") /\ ptr'[LargoPlazo] = ptr[LargoPlazo]
          /\ cola'["new"] = cola["new"] /\ cola'["exit"] = cola["exit"]
          /\ UNCHANGED <<sem, pid_actual, vida, pedidos, respuestas, estructuras>>
      BY <1>1, <1>4, <2>2 DEF SacarReady, TypeOK, memoria, Colas
    <3>2. MismoCorte
      BY <3>1 DEF MismoCorte
    <3>3. QED
      BY <1>1, <3>1, <3>2, AdmisionAjena
  <2>3. QED
    BY <2>1, <2>2
<1>5. CASE EnviarPcb
  <2>1. CASE UsoTrasLiberar(CortoPlazo)
    BY <2>1, FallarAdmision DEF UsoTrasLiberar
  <2>2. CASE ~UsoTrasLiberar(CortoPlazo)
    <3>1. Ajeno /\ Ir(CortoPlazo, "destruir")
      BY <1>5, <2>2 DEF EnviarPcb, Ajeno, procesos, memoria
    <3>2. QED
      BY <1>1, <3>1, AjenoAdmision
  <2>3. QED
    BY <2>1, <2>2
<1>6. CASE DestruirPcb
  <2>1. CASE UsoTrasLiberar(CortoPlazo)
    BY <2>1, FallarAdmision DEF UsoTrasLiberar
  <2>2. CASE ~UsoTrasLiberar(CortoPlazo)
    <3> DEFINE p == ptr[CortoPlazo][1]
    <3>1. /\ Ir(CortoPlazo, "recibir") /\ pc[CortoPlazo] = "destruir" /\ p \in Pids /\ vida[p] = "viva"
          /\ vida' = [vida EXCEPT ![p] = "en_cpu"]
          /\ UNCHANGED <<cola, sem, pid_actual, ptr, pedidos, respuestas, estructuras>>
      BY <1>6, <2>2 DEF DestruirPcb, Valido, En, memoria
    <3>2. Lanzado(p)
      BY <3>1 DEF SoloLanzados
    <3> HIDE DEF p
    <3>3. vida'[p] = "en_cpu" /\ \A q \in Pids : q # p => vida'[q] = vida[q]
      BY <1>1, <3>1 DEF TypeOK
    <3>4. MismoCorte /\ LPQuieto /\ pc'[Rajar] = pc[Rajar]
      BY <1>1, <3>1, LPAjeno DEF MismoCorte
    <3>5. QED
      BY <3>1, <3>2, <3>3, <3>4, VidaEnCpuAdmision
  <2>3. QED
    BY <2>1, <2>2
<1>7. CASE RecibirPcb
  <2>1. PICK p \in Pids, r \in Refs :
           /\ p = cpu.pid /\ cpu.fase = "lista" /\ pc[CortoPlazo] = "recibir"
           /\ \A h \in Hilos : h # CortoPlazo /\ h # PF(r) => pc'[h] = pc[h]
           /\ \A h \in Hilos : h # CortoPlazo => ptr'[h] = ptr[h]
           /\ vida'[p] = "viva" /\ \A q \in Pids : q # p => vida'[q] = vida[q]
           /\ \A s \in Semaforos : s # "proceso_page_fault" => sem'[s] = sem[s]
           /\ UNCHANGED <<cola, pid_actual, memoria>>
    BY <1>7, RecibirPcbDe
  <2>2. Lanzado(p) /\ vida[p] = "en_cpu"
    BY <2>1 DEF SoloLanzados, PcbEnCpu
  <2>3. pc'[LargoPlazo] = pc[LargoPlazo] /\ pc'[Rajar] = pc[Rajar] /\ ptr'[LargoPlazo] = ptr[LargoPlazo]
    BY <1>1, <2>1, HilosFijos, HilosPorIndice
  <2>4. MismoCorte /\ LPQuieto /\ sem'["multiprogramacion"] = sem["multiprogramacion"]
    BY <2>1, <2>3 DEF MismoCorte, LPQuieto, Iguales, Semaforos
  <2>5. QED
    BY <2>1, <2>2, <2>3, <2>4, VidaEnCpuAdmision DEF memoria
<1>8. CASE DirigirProcesoEjecutado
  <2> DEFINE r == ptr[CortoPlazo]
  <2>1. \/ \E f : Fallar(f)
        \/ Seguir(CortoPlazo, "espera_ready") \/ Seguir(CortoPlazo, "push_ready")
        \/ r \in Refs /\ SolicitarFinalizacion(r)
        \/ r \in Refs /\ SolicitarIO(r)
    <3>1. pc[CortoPlazo] = "dirigir" /\ r \in Refs
      BY <1>8 DEF DirigirProcesoEjecutado, En, IInv, Referencias
    <3>2. QED
      BY <1>8, <3>1 DEF DirigirProcesoEjecutado, UsoTrasLiberar
  <2> HIDE DEF r
  <2>2. QED
    BY <1>1, <2>1, FallarAdmision, SeguirAdmision, SolicitarFinalizacionAdmision, SolicitarIOAdmision
<1>9. CASE RecibirLiberar
  <2>1. CASE TramaCortada
    BY <2>1, FallarAdmision DEF TramaCortada
  <2>2. CASE ~TramaCortada
    <3>1. /\ Ir(CortoPlazo, "espera_ready") /\ respuestas # <<>> /\ respuestas' = Tail(respuestas)
          /\ sem'["multiprogramacion"] = sem["multiprogramacion"]
          /\ UNCHANGED <<cola, pid_actual, vida, ptr, pedidos, estructuras>>
      BY <1>1, <1>9, <2>2 DEF RecibirLiberar, procesos, TypeOK, Semaforos
    <3>2. MismoCorte
      BY <3>1 DEF MismoCorte
    <3>3. QED
      BY <1>1, <3>1, <3>2, AdmisionAjena
  <2>3. QED
    BY <2>1, <2>2
<1>10. CASE PasarAReady(CortoPlazo)
  BY <1>1, <1>10, PasarAReadyAdmision
<1>11. QED
  BY <1>2, <1>3, <1>4, <1>5, <1>6, <1>7, <1>8, <1>9, <1>10 DEF PlanificarEjecucion

LEMMA BloqueadosAdmision ==
    ASSUME IInv, Admision,
           \/ \E d \in Dispositivos : EjecucionIO(d)
           \/ \E r \in Refs : SolicitarIOConsola(r) \/ ManejarPageFault(r)
    PROVE  Admision' /\ LanzadosSiguen
<1>1. TypeOK
  BY DEF IInv
<1>2. ASSUME NEW d \in Dispositivos, EjecucionIO(d) PROVE Admision' /\ LanzadosSiguen
  <2>1. /\ ES(d) \in Hilos /\ ES(d) \in Pasadores /\ ES(d) \notin {LargoPlazo, Rajar}
        /\ {"sacar", "push_ready"} \subseteq Lugares(ES(d)) /\ LargoPlazo \in Hilos
    BY HilosFijos, HilosPorIndice, LugaresDe DEF Pasadores
  <2>2. CASE EsperarDispositivo(d)
    <3>1. Ajeno /\ Ir(ES(d), "sacar")
      BY <2>2 DEF EsperarDispositivo, Ajeno, procesos, memoria
    <3>2. QED
      BY <2>1, <3>1, AjenoAdmision
  <2>3. CASE SacarDispositivo(d)
    <3>1. CASE PopIndebido(cola_dispositivo[d])
      BY <3>1, FallarAdmision DEF PopIndebido
    <3>2. CASE ~PopIndebido(cola_dispositivo[d])
      <4>1. /\ Ir(ES(d), "push_ready") /\ ptr'[LargoPlazo] = ptr[LargoPlazo]
            /\ UNCHANGED <<cola, sem, pid_actual, vida, pedidos, respuestas, estructuras>>
        BY <1>1, <2>1, <2>3, <3>2 DEF SacarDispositivo, TypeOK, procesos, memoria
      <4>2. MismoCorte
        BY <4>1 DEF MismoCorte
      <4>3. QED
        BY <2>1, <4>1, <4>2, AdmisionAjena
    <3>3. QED
      BY <3>1, <3>2
  <2>4. CASE PasarAReady(ES(d))
    BY <2>1, <2>4, PasarAReadyAdmision
  <2>5. QED
    BY <1>2, <2>2, <2>3, <2>4 DEF EjecucionIO
<1>3. ASSUME NEW r \in Refs, SolicitarIOConsola(r) PROVE Admision' /\ LanzadosSiguen
  <2>1. /\ IO(r) \in Hilos /\ IO(r) \in Pasadores /\ IO(r) \notin {LargoPlazo, Rajar}
        /\ "push_ready" \in Lugares(IO(r))
    BY HilosFijos, HilosPorIndice, LugaresDe DEF Pasadores
  <2>2. CASE Solicitud(r)
    BY <2>1, <2>2, FallarAdmision, SeguirAdmision DEF Solicitud, UsoTrasLiberar
  <2>3. CASE PasarAReady(IO(r))
    BY <2>1, <2>3, PasarAReadyAdmision
  <2>4. QED
    BY <1>3, <2>2, <2>3 DEF SolicitarIOConsola
<1>4. ASSUME NEW r \in Refs, ManejarPageFault(r) PROVE Admision' /\ LanzadosSiguen
  <2>1. /\ PF(r) \in Hilos /\ PF(r) \in Pasadores /\ PF(r) \notin {LargoPlazo, Rajar}
        /\ {"pedir", "push_ready", "muerto"} \subseteq Lugares(PF(r))
    BY HilosFijos, HilosPorIndice, LugaresDe DEF Pasadores
  <2>2. CASE EsperarPageFault(r)
    BY <2>1, <2>2, EsperarAdmision DEF EsperarPageFault, Semaforos
  <2>3. CASE PedirPagina(r)
    <3>1. CASE UsoTrasLiberar(PF(r))
      BY <3>1, FallarAdmision DEF UsoTrasLiberar
    <3>2. CASE ~UsoTrasLiberar(PF(r))
      BY <2>3, <3>2, PedirPaginaAdmision
    <3>3. QED
      BY <3>1, <3>2
  <2>4. CASE RecibirPagina(r)
    <3>1. CASE TramaCortada
      BY <3>1, FallarAdmision DEF TramaCortada
    <3>2. CASE ~TramaCortada
      <4>1. PICK l \in {"push_ready", "muerto"} : Recibir(PF(r), l, "libre") /\ respuestas # <<>>
        BY <2>4, <3>2 DEF RecibirPagina
      <4>2. /\ Ir(PF(r), l) /\ respuestas' = Tail(respuestas)
            /\ UNCHANGED <<cola, sem, pid_actual, vida, ptr, pedidos, estructuras>>
        BY <4>1 DEF Recibir, procesos
      <4>3. MismoCorte
        BY <4>2 DEF MismoCorte
      <4>4. QED
        BY <2>1, <4>1, <4>2, <4>3, AdmisionAjena
    <3>3. QED
      BY <3>1, <3>2
  <2>5. CASE PasarAReady(PF(r))
    BY <2>1, <2>5, PasarAReadyAdmision
  <2>6. QED
    BY <1>4, <2>2, <2>3, <2>4, <2>5 DEF ManejarPageFault
<1>5. QED
  BY <1>2, <1>3, <1>4

LEMMA AdmisionPaso ==
    ASSUME IInv, Admision, SoloLanzados, PcbEnCpu, [Next]_vars
    PROVE  Admision' /\ LanzadosSiguen
<1>1. IInv'
  BY IInvPaso
<1>2. CASE AtenderNuevaConsola
  BY <1>1, <1>2, AtenderNuevaConsolaAdmision
<1>3. CASE AvisarNew
  <2>1. Conexiones \in Hilos /\ Conexiones \notin {LargoPlazo, Rajar}
        /\ "esperar_cliente" \in Lugares(Conexiones)
    BY HilosFijos, LugaresDe
  <2>2. QED
    BY <1>3, <2>1, EsperarAdmision DEF AvisarNew, Semaforos
<1>4. CASE NewAReady
  BY <1>1, <1>4, NewAReadyAdmision
<1>5. CASE RajarPcb
  BY <1>1, <1>5, RajarPcbAdmision
<1>6. CASE PlanificarEjecucion
  BY <1>6, PlanificarEjecucionAdmision
<1>7. CASE \/ \E d \in Dispositivos : EjecucionIO(d)
           \/ \E r \in Refs : SolicitarIOConsola(r) \/ ManejarPageFault(r)
  BY <1>7, BloqueadosAdmision
<1>8. CASE AtenderKernel
  BY <1>8, AtenderKernelAdmision
<1>9. CASE EjecutarRafaga
  <2>1. UNCHANGED <<cola, sem, pc, pid_actual, vida, ptr, pedidos, respuestas, estructuras>>
    BY <1>9 DEF EjecutarRafaga, procesos, memoria
  <2>2. MismoCorte /\ LPQuieto
    BY <2>1 DEF MismoCorte, LPQuieto, Iguales
  <2>3. QED
    BY <2>1, <2>2, AdmisionQuieta
<1>10. CASE UNCHANGED vars
  BY <1>10, FallarAdmision
<1>11. QED
  BY <1>2, <1>3, <1>4, <1>5, <1>6, <1>7, <1>8, <1>9, <1>10 DEF Next

-----------------------------------------------------------------------------
(* Queues, threads and messages are about launched processes. *)

DelDespachador == {"enviar", "destruir", "dirigir", "push_ready", "limpiar", "resp_liberar"}

EnColas ==
    /\ \A q \in {"rr", "fifo", "exit"} : \A i \in DOMAIN cola[q] : Lanzado(cola[q][i][1])
    /\ \A d \in Dispositivos : \A i \in DOMAIN cola_dispositivo[d] :
          Lanzado(cola_dispositivo[d][i][1])
EnHilos ==
    /\ \A d \in Dispositivos : pc[ES(d)] \notin {"espera", "sacar"} => Lanzado(ptr[ES(d)][1])
    /\ \A r \in Refs : pc[PF(r)] # "no_creado" \/ pc[IO(r)] # "no_creado" => Lanzado(r[1])
    /\ pc[CortoPlazo] \in DelDespachador => Lanzado(ptr[CortoPlazo][1])
    /\ \A r \in Refs : ptr[PF(r)] = r /\ ptr[IO(r)] = r
EnMensajes ==
    /\ cpu.fase # "libre" => Lanzado(cpu.pid)
    /\ \A i \in DOMAIN pedidos : pedidos[i].cod # "ESTRUCTURAS" => Lanzado(pedidos[i].pid)
Resto == EnColas /\ EnHilos /\ EnMensajes /\ PcbEnCpu

LEMMA RestoDe == Admision => (Resto <=> SoloLanzados /\ PunterosFijos /\ PcbEnCpu)
BY DEF Admision, Resto, EnColas, EnHilos, EnMensajes, SoloLanzados, PunterosFijos, DelDespachador

\* A queue after a step: as it was, without its first element, or with one more.
TrasPaso(antes, despues) ==
    \/ despues = antes
    \/ antes # <<>> /\ despues = Tail(antes)
    \/ \E r \in Refs : Lanzado(r[1])' /\ despues = Append(antes, r)

LEMMA ColaLanzada ==
    ASSUME NEW q \in Seq(Refs), NEW t, TrasPaso(q, t), LanzadosSiguen,
           \A i \in DOMAIN q : Lanzado(q[i][1])
    PROVE  \A i \in DOMAIN t : \A p : p = t[i][1] => Lanzado(p)'
<1>1. \A i \in DOMAIN q : \A p : p = q[i][1] => Lanzado(p)'
  BY DEF LanzadosSiguen
<1>2. CASE t = q
  BY <1>1, <1>2
<1>3. CASE q # <<>> /\ t = Tail(q)
  <2>1. \A i \in DOMAIN t : i + 1 \in DOMAIN q /\ t[i] = q[i + 1]
    BY <1>3, AlDesencolar
  <2>2. QED
    BY <1>1, <2>1
<1>4. ASSUME NEW r \in Refs, Lanzado(r[1])', t = Append(q, r)
      PROVE  \A i \in DOMAIN t : \A p : p = t[i][1] => Lanzado(p)'
  <2>1. /\ DOMAIN t = 1..(Len(q) + 1) /\ DOMAIN q = 1..Len(q) /\ Len(q) \in Nat
        /\ \A i \in 1..Len(q) : t[i] = q[i]
        /\ t[Len(q) + 1] = r
    BY <1>4, AlEncolar
  <2>2. \A i \in 1..(Len(q) + 1) : i \in 1..Len(q) \/ i = Len(q) + 1
    BY <2>1
  <2>3. \A p : p = r[1] => Lanzado(p)'
    BY <1>4 DEF Lanzado
  <2>4. QED
    BY <1>1, <2>1, <2>2, <2>3
<1>5. QED
  BY <1>2, <1>3, <1>4 DEF TrasPaso

LEMMA EnColasTras ==
    ASSUME IInv, EnColas, LanzadosSiguen,
           \A q \in {"rr", "fifo", "exit"} : TrasPaso(cola[q], cola'[q]),
           \A d \in Dispositivos : TrasPaso(cola_dispositivo[d], cola_dispositivo'[d])
    PROVE  EnColas'
<1>1. /\ \A q \in {"rr", "fifo", "exit"} : cola[q] \in Seq(Refs)
      /\ \A d \in Dispositivos : cola_dispositivo[d] \in Seq(Refs)
  BY DEF IInv, TypeOK, Colas
<1>2. \A q \in {"rr", "fifo", "exit"} : \A i \in DOMAIN cola'[q] :
         \A p : p = cola'[q][i][1] => Lanzado(p)'
  <2>1. TAKE q \in {"rr", "fifo", "exit"}
  <2> DEFINE s == cola[q]
             t == cola'[q]
  <2>2. s \in Seq(Refs) /\ TrasPaso(s, t) /\ \A i \in DOMAIN s : Lanzado(s[i][1])
    BY <1>1 DEF EnColas
  <2> HIDE DEF s, t
  <2>3. \A i \in DOMAIN t : \A p : p = t[i][1] => Lanzado(p)'
    BY <2>2, ColaLanzada
  <2>4. QED
    BY <2>3 DEF t
<1>3. \A d \in Dispositivos : \A i \in DOMAIN cola_dispositivo'[d] :
         \A p : p = cola_dispositivo'[d][i][1] => Lanzado(p)'
  <2>1. TAKE d \in Dispositivos
  <2> DEFINE s == cola_dispositivo[d]
             t == cola_dispositivo'[d]
  <2>2. s \in Seq(Refs) /\ TrasPaso(s, t) /\ \A i \in DOMAIN s : Lanzado(s[i][1])
    BY <1>1 DEF EnColas
  <2> HIDE DEF s, t
  <2>3. \A i \in DOMAIN t : \A p : p = t[i][1] => Lanzado(p)'
    BY <2>2, ColaLanzada
  <2>4. QED
    BY <2>3 DEF t
<1>4. QED
  BY <1>2, <1>3 DEF EnColas, Lanzado

\* The threads after a step of one of them.
LEMMA EnHilosTras ==
    ASSUME IInv, EnHilos, LanzadosSiguen, NEW h \in Hilos, NEW l \in Lugares(h), Ir(h, l),
           pc[h] # "no_creado", \A k \in Hilos : k # h => ptr'[k] = ptr[k],
           h \in DePageFault \cup DeConsola => ptr'[h] = ptr[h],
           h \in DeDispositivo /\ l \notin {"espera", "sacar"} => Lanzado(ptr'[h][1]),
           h = CortoPlazo /\ l \in DelDespachador => Lanzado(ptr'[h][1])
    PROVE  EnHilos'
<1>1. /\ pc'[h] = l
      /\ \A k \in Hilos : k # h => pc'[k] = pc[k]
  BY IrTipo DEF IInv
<1>2. \A d \in Dispositivos : pc'[ES(d)] \notin {"espera", "sacar"} =>
         Lanzado(ptr'[ES(d)][1])
  BY <1>1, HilosPorIndice DEF EnHilos
<1>3. \A r \in Refs : pc'[PF(r)] # "no_creado" \/ pc'[IO(r)] # "no_creado" => Lanzado(r[1])
  BY <1>1, HilosPorIndice DEF EnHilos
<1>4. pc'[CortoPlazo] \in DelDespachador => Lanzado(ptr'[CortoPlazo][1])
  BY <1>1, HilosFijos DEF EnHilos
<1>5. \A r \in Refs : ptr'[PF(r)] = r /\ ptr'[IO(r)] = r
  BY HilosPorIndice DEF EnHilos
<1>6. \A p : Lanzado(p) => Lanzado(p)'
  BY DEF LanzadosSiguen
<1>7. \A d \in Dispositivos : pc'[ES(d)] \notin {"espera", "sacar"} => Lanzado(ptr[ES(d)][1])'
  BY <1>2, <1>6 DEF Lanzado
<1>8. pc'[CortoPlazo] \in DelDespachador => Lanzado(ptr[CortoPlazo][1])'
  BY <1>4, <1>6 DEF Lanzado
<1>9. QED
  BY <1>3, <1>5, <1>6, <1>7, <1>8 DEF EnHilos

\* In particular, when the PCB the thread points to stays the same.
LEMMA EnHilosMueve ==
    ASSUME IInv, EnHilos, LanzadosSiguen, NEW h \in Hilos, NEW l \in Lugares(h), Ir(h, l),
           pc[h] # "no_creado", ptr' = ptr,
           h \in DeDispositivo => l \in {"espera", "sacar"} \/ pc[h] \notin {"espera", "sacar"},
           h = CortoPlazo => l \notin DelDespachador \/ pc[h] \in DelDespachador
    PROVE  EnHilos'
<1>1. h \in DeDispositivo /\ l \notin {"espera", "sacar"} => Lanzado(ptr'[h][1])
  BY DEF EnHilos, DeDispositivo
<1>2. h = CortoPlazo /\ l \in DelDespachador => Lanzado(ptr'[h][1])
  BY DEF EnHilos
<1>3. QED
  BY <1>1, <1>2, EnHilosTras

\* The messages and the CPU after a step.
LEMMA EnMensajesTras ==
    ASSUME IInv, EnMensajes, LanzadosSiguen,
           cpu'.fase # "libre" => \/ cpu.fase # "libre" /\ cpu'.pid = cpu.pid
                                  \/ Lanzado(cpu'.pid),
           \/ pedidos' = pedidos
           \/ pedidos # <<>> /\ pedidos' = Tail(pedidos)
           \/ \E m \in Pedido : /\ pedidos' = Append(pedidos, m)
                                /\ m.cod # "ESTRUCTURAS" => Lanzado(m.pid)
    PROVE  EnMensajes'
<1>1. pedidos \in Seq(Pedido)
  BY DEF IInv, TypeOK, Pedido
<1>2. \A i \in DOMAIN pedidos' : pedidos'[i].cod # "ESTRUCTURAS" => Lanzado(pedidos'[i].pid)
  <2>1. CASE pedidos' = pedidos
    BY <2>1 DEF EnMensajes
  <2>2. CASE pedidos # <<>> /\ pedidos' = Tail(pedidos)
    <3>1. \A i \in DOMAIN pedidos' : i + 1 \in DOMAIN pedidos /\ pedidos'[i] = pedidos[i + 1]
      BY <1>1, <2>2, AlDesencolar
    <3>2. QED
      BY <3>1 DEF EnMensajes
  <2>3. ASSUME NEW m \in Pedido, pedidos' = Append(pedidos, m), m.cod # "ESTRUCTURAS" => Lanzado(m.pid)
        PROVE  \A i \in DOMAIN pedidos' : pedidos'[i].cod # "ESTRUCTURAS" => Lanzado(pedidos'[i].pid)
    <3>1. PICK n \in Nat : /\ DOMAIN pedidos' = 1..(n + 1) /\ DOMAIN pedidos = 1..n
                           /\ \A i \in 1..n : pedidos'[i] = pedidos[i]
                           /\ pedidos'[n + 1] = m
      BY <1>1, <2>3, AlEncolar
    <3>2. TAKE i \in DOMAIN pedidos'
    <3>3. CASE i = n + 1
      BY <2>3, <3>1, <3>3
    <3>4. CASE i \in 1..n
      BY <3>1, <3>4 DEF EnMensajes
    <3>5. QED
      BY <3>1, <3>3, <3>4
  <2>4. QED
    BY <2>1, <2>2, <2>3
<1>3. cpu'.fase # "libre" => Lanzado(cpu'.pid)
  BY DEF EnMensajes
<1>4. \A p : Lanzado(p) => Lanzado(p)'
  BY DEF LanzadosSiguen
<1>5. \A i \in DOMAIN pedidos' : pedidos'[i].cod # "ESTRUCTURAS" => Lanzado(pedidos[i].pid)'
  BY <1>2, <1>4 DEF Lanzado
<1>6. cpu'.fase # "libre" => Lanzado(cpu.pid)'
  BY <1>3, <1>4 DEF Lanzado
<1>7. QED
  BY <1>5, <1>6 DEF EnMensajes

LEMMA PcbEnCpuQuieto ==
    ASSUME IInv, PcbEnCpu, cpu' = cpu,
           pc'[CortoPlazo] \in {"destruir", "recibir"} =>
              pc'[CortoPlazo] = pc[CortoPlazo] /\ ptr'[CortoPlazo] = ptr[CortoPlazo],
           \A p \in Pids : vida[p] = "en_cpu" => vida'[p] = "en_cpu"
    PROVE  PcbEnCpu'
<1>1. cpu.fase # "libre" => cpu.pid \in Pids
  BY DEF IInv, Referencias
<1>2. QED
  BY <1>1 DEF PcbEnCpu

\* A step that only moves one thread.
Movido == UNCHANGED <<cola, cola_dispositivo, vida, ptr, pedidos, cpu>>

LEMMA RestoMovido ==
    ASSUME IInv, Resto, LanzadosSiguen, Movido, NEW h \in Hilos, NEW l \in Lugares(h), Ir(h, l),
           pc[h] # "no_creado",
           h \in DeDispositivo => l \in {"espera", "sacar"} \/ pc[h] \notin {"espera", "sacar"},
           h = CortoPlazo => /\ l \notin DelDespachador \/ pc[h] \in DelDespachador
                             /\ l \notin {"destruir", "recibir"}
    PROVE  Resto'
<1>1. /\ pc'[h] = l
      /\ \A k \in Hilos : k # h => pc'[k] = pc[k]
  BY IrTipo DEF IInv
<1>2. EnColas'
  BY EnColasTras DEF Resto, Movido, TrasPaso
<1>3. EnHilos'
  BY EnHilosMueve DEF Resto, Movido
<1>4. EnMensajes'
  BY EnMensajesTras DEF Resto, Movido
<1>5. PcbEnCpu'
  BY <1>1, HilosFijos, PcbEnCpuQuieto DEF Resto, Movido
<1>6. QED
  BY <1>2, <1>3, <1>4, <1>5 DEF Resto

LEMMA FallarResto ==
    ASSUME IInv, Resto, UNCHANGED vars \/ \E f : Fallar(f)
    PROVE  Resto'
<1>1. UNCHANGED <<cola, cola_dispositivo, pc, pid_actual, vida, ptr, pedidos, cpu>>
  BY DEF vars, Fallar, dispositivos, procesos, memoria, entorno
<1>2. \A p : Lanzado(p)' <=> Lanzado(p)
  BY <1>1 DEF Lanzado, Corte
<1>3. EnColas'
  BY <1>1, <1>2 DEF Resto, EnColas, Lanzado, Corte
<1>4. EnHilos'
  BY <1>1, <1>2 DEF Resto, EnHilos, Lanzado, Corte
<1>5. EnMensajes' /\ PcbEnCpu'
  BY <1>1, <1>2 DEF Resto, EnMensajes, PcbEnCpu, Lanzado, Corte
<1>6. QED
  BY <1>3, <1>4, <1>5 DEF Resto

LEMMA EsperarResto ==
    ASSUME IInv, Resto, LanzadosSiguen, NEW h \in Hilos, NEW l \in Lugares(h), NEW de, NEW s,
           Esperar(h, de, s, l) \/ Avisar(h, de, s, l) \/ (Seguir(h, l) /\ pc[h] = de),
           de # "no_creado",
           h \in DeDispositivo => l \in {"espera", "sacar"} \/ de \notin {"espera", "sacar"},
           h = CortoPlazo => /\ l \notin DelDespachador \/ de \in DelDespachador
                             /\ l \notin {"destruir", "recibir"}
    PROVE  Resto'
<1>1. Movido /\ Ir(h, l) /\ pc[h] = de
  BY DEF Esperar, Avisar, Seguir, En, Movido, dispositivos, procesos, memoria, entorno
<1>2. QED
  BY <1>1, RestoMovido

LEMMA PasarAReadyResto ==
    ASSUME IInv, Resto, LanzadosSiguen, Admision, Admision', NEW h \in Pasadores, PasarAReady(h)
    PROVE  Resto'
<1>1. /\ TypeOK /\ h \in Hilos /\ {"push_ready", "limpiar", "post_ready"} \subseteq Lugares(h)
      /\ TrasReady(h) \in Lugares(h) /\ TrasReady(h) \in {"espera_new", "espera_ready", "espera", "fin"}
      /\ h \in DeDispositivo => TrasReady(h) = "espera"
  BY PasadoresDe, TrasReadyDe DEF Pasadores, IInv
<1>2. CASE PushReady(h)
  <2>1. /\ Ir(h, "limpiar") /\ pc[h] = "push_ready" /\ Valido(ptr[h])
        /\ UNCHANGED <<cola_dispositivo, vida, ptr, pedidos, cpu>>
        /\ pid_actual' = pid_actual
    BY <1>2 DEF PushReady, En, memoria, entorno, dispositivos
  <2>2. /\ pc'[h] = "limpiar"
        /\ \A k \in Hilos : k # h => pc'[k] = pc[k]
    BY <1>1, <2>1, IrTipo
  <2>3. ptr[h] \in Refs
    BY <1>1, <2>1, ValidoRef
  <2>4. \A q \in {"rr", "fifo", "exit"} : cola'[q] = cola[q] \/ cola'[q] = Append(cola[q], ptr[h])
    BY <1>1, <1>2 DEF PushReady, TypeOK, Colas
  <2>5. cola'["new"] = cola["new"]
    BY <1>1, <1>2 DEF PushReady, TypeOK, Colas
  <2>6. h # LargoPlazo => Lanzado(ptr[h][1])
    BY <2>1 DEF Resto, EnHilos, DelDespachador, Pasadores, DeDispositivo, DePageFault, DeConsola
  <2>7. \A p : p = ptr[h][1] => Lanzado(p)'
    <3>1. CASE h # LargoPlazo
      BY <2>6, <3>1 DEF LanzadosSiguen
    <3>2. CASE h = LargoPlazo
      <4>1. ptr[h][1] = Corte
        BY <2>1, <3>2 DEF Admision, EnAdmision
      <4>2. Corte' = Corte /\ Corte \in Pids
        BY <2>1, <2>3, <2>5, <4>1 DEF Corte, Refs
      <4>3. pc'[LargoPlazo] \notin EnAdmision /\ Corte \in 1..Corte
        BY <2>2, <3>2, <4>2 DEF EnAdmision, Pids
      <4>4. QED
        BY <4>1, <4>2, <4>3 DEF Lanzado
    <3>3. QED
      BY <3>1, <3>2
  <2>8. EnColas'
    <3>1. \A q \in {"rr", "fifo", "exit"} : TrasPaso(cola[q], cola'[q])
      BY <2>3, <2>4, <2>7 DEF TrasPaso
    <3>2. QED
      BY <2>1, <3>1, EnColasTras DEF Resto, TrasPaso
  <2>9. EnHilos'
    BY <1>1, <2>1, EnHilosMueve DEF Resto, DelDespachador
  <2>10. EnMensajes'
    BY <2>1, EnMensajesTras DEF Resto
  <2>11. PcbEnCpu'
    BY <2>1, <2>2, HilosFijos, PcbEnCpuQuieto DEF Resto
  <2>12. QED
    BY <2>8, <2>9, <2>10, <2>11 DEF Resto
<1>3. CASE LimpiarBanderas(h)
  <2>1. Movido /\ Ir(h, "post_ready") /\ pc[h] = "limpiar"
    BY <1>3 DEF LimpiarBanderas, En, Movido, memoria, entorno, dispositivos
  <2>2. QED
    BY <1>1, <2>1, RestoMovido DEF DelDespachador
<1>4. CASE UsoTrasLiberar(h)
  BY <1>4, FallarResto DEF UsoTrasLiberar
<1>5. CASE Avisar(h, "post_ready", "procesos_ready", TrasReady(h))
  BY <1>1, <1>5, EsperarResto DEF DelDespachador
<1>6. QED
  BY <1>2, <1>3, <1>4, <1>5 DEF PasarAReady

LEMMA RecibirResto ==
    ASSUME IInv, Resto, LanzadosSiguen, NEW h \in {LargoPlazo} \cup DePageFault,
           NEW l \in Lugares(h), NEW m, Recibir(h, l, m), pc[h] # "no_creado"
    PROVE  Resto'
<1>1. h \in Hilos /\ h # CortoPlazo /\ h \notin DeDispositivo
  BY HilosFijos DEF Hilos
<1>2. Movido /\ Ir(h, l)
  BY DEF Recibir, Movido, dispositivos, procesos, entorno
<1>3. QED
  BY <1>1, <1>2, RestoMovido

LEMMA PedirResto ==
    ASSUME IInv, Resto, LanzadosSiguen, NEW h \in {LargoPlazo} \cup DePageFault,
           NEW cod \in {"ESTRUCTURAS", "PAGINA"}, Pedir(h, cod), ptr[h] \in Refs,
           h = LargoPlazo => cod = "ESTRUCTURAS"
    PROVE  Resto'
<1>1. h \in Hilos /\ h # CortoPlazo /\ h \notin DeDispositivo /\ "resp" \in Lugares(h) /\ TypeOK
  BY HilosFijos, LugaresDe DEF Hilos, IInv
<1>2. /\ Ir(h, "resp") /\ pc[h] = "pedir"
      /\ UNCHANGED <<cola, cola_dispositivo, vida, ptr, cpu>>
      /\ pedidos' = Append(pedidos, Msj(cod, ptr[h][1]))
  BY DEF Pedir, En, dispositivos, procesos, entorno, Msj
<1>3. pc'[CortoPlazo] = pc[CortoPlazo]
  BY <1>1, <1>2, IrTipo, HilosFijos
<1> DEFINE m == Msj(cod, ptr[h][1])
<1>4. m \in Pedido /\ m.cod = cod /\ m.pid = ptr[h][1] /\ pedidos' = Append(pedidos, m)
  BY <1>2 DEF Msj, Pedido, Refs
<1> HIDE DEF m
<1>5. m.cod # "ESTRUCTURAS" => Lanzado(m.pid)
  BY <1>2, <1>4 DEF Resto, EnHilos, DePageFault
<1>6. EnColas'
  BY <1>2, EnColasTras DEF Resto, TrasPaso
<1>7. EnHilos'
  BY <1>1, <1>2, EnHilosMueve DEF Resto
<1>8. EnMensajes'
  BY <1>2, <1>4, <1>5, EnMensajesTras DEF Resto
<1>9. PcbEnCpu'
  BY <1>2, <1>3, PcbEnCpuQuieto DEF Resto
<1>10. QED
  BY <1>6, <1>7, <1>8, <1>9 DEF Resto

LEMMA NewAReadyResto ==
    ASSUME IInv, Resto, LanzadosSiguen, Admision, Admision', NewAReady
    PROVE  Resto'
<1>1. /\ TypeOK /\ LargoPlazo \in Hilos /\ LargoPlazo \in Pasadores
      /\ {"espera_grado", "sacar_new", "pedir", "resp", "resp_indices", "push_ready",
          "muerto"} \subseteq Lugares(LargoPlazo)
      /\ LargoPlazo # CortoPlazo /\ LargoPlazo \notin DeDispositivo \cup DePageFault \cup DeConsola
  BY HilosFijos, LugaresDe DEF IInv, Pasadores
<1>2. CASE EsperarNew
  BY <1>1, <1>2, EsperarResto DEF EsperarNew
<1>3. CASE EsperarGrado
  BY <1>1, <1>3, EsperarResto DEF EsperarGrado
<1>4. CASE SacarNew
  <2>1. CASE PopIndebido(cola["new"])
    BY <2>1, FallarResto DEF PopIndebido
  <2>2. CASE ~PopIndebido(cola["new"])
    <3>1. /\ Ir(LargoPlazo, "pedir") /\ pc[LargoPlazo] = "sacar_new"
          /\ UNCHANGED <<cola_dispositivo, vida, pedidos, cpu>>
          /\ \A q \in {"rr", "fifo", "exit"} : cola'[q] = cola[q]
          /\ \A k \in Hilos : k # LargoPlazo => ptr'[k] = ptr[k]
      BY <1>1, <1>4, <2>2
         DEF SacarNew, En, dispositivos, procesos, memoria, entorno, TypeOK, Colas
    <3>2. pc'[CortoPlazo] = pc[CortoPlazo] /\ ptr'[CortoPlazo] = ptr[CortoPlazo]
      BY <1>1, <3>1, IrTipo, HilosFijos
    <3>3. EnColas' /\ EnMensajes' /\ PcbEnCpu'
      BY <3>1, <3>2, EnColasTras, EnMensajesTras, PcbEnCpuQuieto DEF Resto, TrasPaso
    <3>4. EnHilos'
      BY <1>1, <3>1, EnHilosTras DEF Resto
    <3>5. QED
      BY <3>3, <3>4 DEF Resto
  <2>3. QED
    BY <2>1, <2>2
<1>5. CASE Pedir(LargoPlazo, "ESTRUCTURAS")
  <2>1. ptr[LargoPlazo] \in Refs
    BY <1>5 DEF IInv, Referencias, Pedir, En
  <2>2. QED
    BY <1>5, <2>1, PedirResto
<1>6. CASE RecibirEstructuras
  <2>1. CASE TramaCortada
    BY <2>1, FallarResto DEF TramaCortada
  <2>2. CASE ~TramaCortada
    <3>1. PICK l \in {"resp_indices", "muerto"}, m \in {"libre", conexion_memoria_mutex} :
             Recibir(LargoPlazo, l, m)
      BY <1>6, <2>2 DEF RecibirEstructuras
    <3>2. pc[LargoPlazo] # "no_creado"
      BY <1>6 DEF RecibirEstructuras, En
    <3>3. QED
      BY <1>1, <3>1, <3>2, RecibirResto
  <2>3. QED
    BY <2>1, <2>2
<1>7. CASE RecibirIndices
  <2>1. CASE Head(respuestas).cod = "INDICES"
    BY <1>1, <1>7, <2>1, RecibirResto DEF RecibirIndices, En
  <2>2. CASE Head(respuestas).cod # "INDICES"
    BY <1>7, <2>2, FallarResto DEF RecibirIndices
  <2>3. QED
    BY <2>1, <2>2
<1>8. CASE PasarAReady(LargoPlazo)
  BY <1>1, <1>8, PasarAReadyResto
<1>9. QED
  BY <1>2, <1>3, <1>4, <1>5, <1>6, <1>7, <1>8 DEF NewAReady

LEMMA RajarPcbResto ==
    ASSUME IInv, Resto, LanzadosSiguen, RajarPcb
    PROVE  Resto'
<1>1. /\ TypeOK /\ Rajar \in Hilos /\ Rajar # CortoPlazo
      /\ Rajar \notin DeDispositivo \cup DePageFault \cup DeConsola
      /\ Lugares(Rajar) = {"espera_finalizados", "sacar_exit", "post_grado"}
  BY HilosFijos, LugaresDe DEF IInv
<1>2. CASE EsperarFinalizados
  BY <1>1, <1>2, EsperarResto DEF EsperarFinalizados
<1>3. CASE SacarExit
  <2>1. CASE PopIndebido(cola["exit"])
    BY <2>1, FallarResto DEF PopIndebido
  <2>2. CASE ~PopIndebido(cola["exit"])
    <3> DEFINE p == Head(cola["exit"])[1]
    <3>1. /\ Ir(Rajar, "post_grado") /\ pc[Rajar] = "sacar_exit" /\ cola["exit"] # <<>>
          /\ p \in Pids /\ vida[p] = "viva" /\ vida' = [vida EXCEPT ![p] = "destruida"]
          /\ UNCHANGED <<cola_dispositivo, ptr, pedidos, cpu>>
          /\ cola'["exit"] = Tail(cola["exit"])
          /\ \A q \in {"rr", "fifo"} : cola'[q] = cola[q]
      <4>1. /\ PopPosible(cola["exit"]) /\ pc[Rajar] = "sacar_exit"
            /\ cola' = [cola EXCEPT !["exit"] = Tail(@)] /\ vida' = [vida EXCEPT ![p] = "destruida"]
            /\ Ir(Rajar, "post_grado")
            /\ UNCHANGED <<cola_dispositivo, ptr, pedidos, cpu>>
        BY <1>3, <2>2 DEF SacarExit, En, dispositivos, procesos, memoria, entorno
      <4>2. cola["exit"] # <<>> /\ p \in Pids /\ vida[p] = "viva"
        BY ONLY <4>1 DEF PopPosible, Valido
      <4>3. DOMAIN cola = {"new", "rr", "fifo", "exit"}
        BY <1>1 DEF TypeOK, Colas
      <4>4. cola'["exit"] = Tail(cola["exit"]) /\ \A q \in {"rr", "fifo"} : cola'[q] = cola[q]
        BY ONLY <4>1, <4>3
      <4> QED BY ONLY <4>1, <4>2, <4>4
    <3>2. pc'[CortoPlazo] = pc[CortoPlazo]
      BY <1>1, <3>1, IrTipo, HilosFijos
    <3> HIDE DEF p
    <3>3. \A q \in Pids : vida[q] = "en_cpu" => vida'[q] = "en_cpu"
      BY <1>1, <3>1 DEF TypeOK
    <3>4. EnColas'
      BY <3>1, EnColasTras DEF Resto, TrasPaso
    <3>5. EnMensajes' /\ PcbEnCpu'
      BY <3>1, <3>2, <3>3, EnMensajesTras, PcbEnCpuQuieto DEF Resto
    <3>6. EnHilos'
      BY <1>1, <3>1, EnHilosMueve DEF Resto
    <3>7. QED
      BY <3>4, <3>5, <3>6 DEF Resto
  <2>3. QED
    BY <2>1, <2>2
<1>4. CASE AvisarGrado
  BY <1>1, <1>4, EsperarResto DEF AvisarGrado
<1>5. QED
  BY <1>2, <1>3, <1>4 DEF RajarPcb

\* A finished burst comes back: the process was launched before it ran.
LEMMA RecibirPcbResto ==
    ASSUME IInv, Resto, LanzadosSiguen, RecibirPcb
    PROVE  Resto'
<1>1. TypeOK /\ CortoPlazo \in Hilos
  BY HilosFijos DEF IInv
<1>2. PICK p \in Pids, r \in Refs :
           /\ p = cpu.pid /\ cpu.fase = "lista" /\ r[1] = p
           /\ pc'[CortoPlazo] = "dirigir"
           /\ \A h \in Hilos : h # CortoPlazo /\ h # PF(r) => pc'[h] = pc[h]
           /\ ptr'[CortoPlazo] = r /\ \A h \in Hilos : h # CortoPlazo => ptr'[h] = ptr[h]
           /\ vida'[p] = "viva" /\ \A q \in Pids : q # p => vida'[q] = vida[q]
           /\ cpu'.fase = "libre"
           /\ UNCHANGED <<cola, dispositivos, memoria>>
  BY RecibirPcbDe
<1>3. Lanzado(p)
  BY <1>2 DEF Resto, EnMensajes
<1>4. EnColas'
  BY <1>2, EnColasTras DEF Resto, TrasPaso, dispositivos
<1>5. EnMensajes' /\ PcbEnCpu'
  BY <1>2, EnMensajesTras DEF Resto, memoria, PcbEnCpu
<1>6. EnHilos'
  <2>1. \A k \in DePageFault \cup DeConsola : k # PF(r) => pc'[k] = pc[k]
    BY <1>2, HilosFijos DEF Hilos
  <2>2. \A s \in Refs : s # r => PF(s) # PF(r)
    BY DEF PF
  <2>3. \A s \in Refs : IO(s) # PF(r)
    BY HilosFijos, HilosPorIndice
  <2>4. \A s \in Refs : pc'[PF(s)] # "no_creado" \/ pc'[IO(s)] # "no_creado" => Lanzado(s[1])
    BY <1>2, <1>3, <2>1, <2>2, <2>3, HilosPorIndice DEF Resto, EnHilos
  <2>5. \A d \in Dispositivos : ES(d) # CortoPlazo /\ ES(d) # PF(r)
    BY HilosFijos, HilosPorIndice
  <2>6. \A d \in Dispositivos : pc'[ES(d)] = pc[ES(d)] /\ ptr'[ES(d)] = ptr[ES(d)]
    BY <1>2, <2>5, HilosPorIndice
  <2>7. \A s \in Refs : ptr'[PF(s)] = s /\ ptr'[IO(s)] = s
    BY <1>2, HilosFijos, HilosPorIndice DEF Resto, EnHilos
  <2>8. \A q : Lanzado(q) => Lanzado(q)'
    BY DEF LanzadosSiguen
  <2>9. Lanzado(ptr[CortoPlazo][1])'
    BY <1>2, <1>3, <2>8 DEF Lanzado
  <2>10. \A d \in Dispositivos : pc'[ES(d)] \notin {"espera", "sacar"} => Lanzado(ptr[ES(d)][1])'
    BY <2>6, <2>8 DEF Resto, EnHilos, Lanzado
  <2>11. QED
    BY <2>4, <2>7, <2>8, <2>9, <2>10 DEF EnHilos
<1>7. QED
  BY <1>4, <1>5, <1>6 DEF Resto

LEMMA SolicitarIOResto ==
    ASSUME IInv, Resto, LanzadosSiguen, pc[CortoPlazo] = "dirigir", SolicitarIO(ptr[CortoPlazo])
    PROVE  Resto'
<1>1. /\ TypeOK /\ CortoPlazo \in Hilos /\ "espera_ready" \in Lugares(CortoPlazo)
      /\ CortoPlazo \notin DeDispositivo \cup DePageFault \cup DeConsola
  BY HilosFijos, LugaresDe DEF IInv
<1>2. PICK r \in Refs : r = ptr[CortoPlazo]
  BY DEF IInv, Referencias
<1>3. Lanzado(r[1])
  BY <1>2 DEF Resto, EnHilos, DelDespachador
<1>4. Lanzado(r[1])'
  BY <1>3 DEF LanzadosSiguen
<1>5. UNCHANGED <<cola, vida, ptr, pedidos, cpu>>
  BY DEF SolicitarIO, memoria, entorno
<1>6. \A d \in Dispositivos : TrasPaso(cola_dispositivo[d], cola_dispositivo'[d])
  <2>1. \A d \in Dispositivos : \/ cola_dispositivo'[d] = cola_dispositivo[d]
                                \/ cola_dispositivo'[d] = Append(cola_dispositivo[d], r)
    <3>1. CASE UNCHANGED dispositivos
      BY <3>1 DEF dispositivos
    <3>2. CASE ~UNCHANGED dispositivos
      <4>1. PICK e : cola_dispositivo' = [cola_dispositivo EXCEPT ![e] = Append(@, r)]
        BY <1>2, <3>2 DEF SolicitarIO
      <4>2. QED
        BY <1>1, <4>1 DEF TypeOK
    <3>3. QED
      BY <3>1, <3>2
  <2>2. QED
    BY <1>4, <2>1 DEF TrasPaso
<1>7. pc'[CortoPlazo] = "espera_ready" /\ \A k \in Hilos : k # CortoPlazo /\ k # IO(r) => pc'[k] = pc[k]
  BY <1>1, <1>2, HilosPorIndice, HilosFijos DEF SolicitarIO, Ir, TypeOK
<1>8. EnColas'
  BY <1>5, <1>6, EnColasTras DEF Resto, TrasPaso
<1>9. EnMensajes' /\ PcbEnCpu'
  BY <1>5, <1>7, EnMensajesTras, PcbEnCpuQuieto DEF Resto
<1>10. EnHilos'
  <2>1. \A s \in Refs : IO(s) = IO(r) => s = r
    BY DEF IO
  <2>2. \A s \in Refs : PF(s) # IO(r) /\ PF(s) # CortoPlazo /\ IO(s) # CortoPlazo
    BY HilosFijos, HilosPorIndice
  <2>3. \A s \in Refs : pc'[PF(s)] # "no_creado" \/ pc'[IO(s)] # "no_creado" => Lanzado(s[1])
    BY <1>3, <1>7, <2>1, <2>2, HilosPorIndice DEF Resto, EnHilos
  <2>4. \A d \in Dispositivos : ES(d) # CortoPlazo /\ ES(d) # IO(r)
    BY HilosFijos, HilosPorIndice
  <2>5. \A d \in Dispositivos : pc'[ES(d)] = pc[ES(d)] /\ ptr'[ES(d)] = ptr[ES(d)]
    BY <1>5, <1>7, <2>4, HilosPorIndice
  <2>6. \A q : Lanzado(q) => Lanzado(q)'
    BY DEF LanzadosSiguen
  <2>7. \A d \in Dispositivos : pc'[ES(d)] \notin {"espera", "sacar"} => Lanzado(ptr[ES(d)][1])'
    BY <2>5, <2>6 DEF Resto, EnHilos, Lanzado
  <2>8. \A s \in Refs : ptr'[PF(s)] = s /\ ptr'[IO(s)] = s
    BY <1>5 DEF Resto, EnHilos
  <2>9. pc'[CortoPlazo] \notin DelDespachador
    BY <1>7 DEF DelDespachador
  <2>10. QED
    BY <2>3, <2>6, <2>7, <2>8, <2>9 DEF EnHilos
<1>11. QED
  BY <1>8, <1>9, <1>10 DEF Resto

LEMMA SolicitarFinalizacionResto ==
    ASSUME IInv, Resto, LanzadosSiguen, pc[CortoPlazo] = "dirigir",
           SolicitarFinalizacion(ptr[CortoPlazo])
    PROVE  Resto'
<1>1. /\ TypeOK /\ CortoPlazo \in Hilos /\ "resp_liberar" \in Lugares(CortoPlazo)
      /\ CortoPlazo \notin DeDispositivo \cup DePageFault \cup DeConsola
  BY HilosFijos, LugaresDe DEF IInv
<1>2. PICK r \in Refs : r = ptr[CortoPlazo]
  BY DEF IInv, Referencias
<1>3. Lanzado(r[1])
  BY <1>2 DEF Resto, EnHilos, DelDespachador
<1>4. Lanzado(r[1])'
  BY <1>3 DEF LanzadosSiguen
<1> DEFINE m == Msj("LIBERAR_ESTRUCTURAS", r[1])
<1>5. /\ Ir(CortoPlazo, "resp_liberar") /\ pedidos' = Append(pedidos, m)
      /\ UNCHANGED <<cola_dispositivo, vida, ptr, cpu>>
      /\ cola'["exit"] = Append(cola["exit"], r)
      /\ \A q \in {"rr", "fifo"} : cola'[q] = cola[q]
  BY <1>1, <1>2 DEF SolicitarFinalizacion, dispositivos, entorno, Msj, TypeOK, Colas
<1>6. m \in Pedido /\ m.pid = r[1]
  BY DEF Msj, Pedido, Refs
<1>7. pc'[CortoPlazo] = "resp_liberar"
  BY <1>1, <1>5, IrTipo
<1> HIDE DEF m
<1>8. EnColas'
  BY <1>4, <1>5, EnColasTras DEF Resto, TrasPaso
<1>9. EnMensajes'
  BY <1>3, <1>5, <1>6, EnMensajesTras DEF Resto
<1>10. PcbEnCpu'
  BY <1>5, <1>7, PcbEnCpuQuieto DEF Resto
<1>11. EnHilos'
  BY <1>1, <1>5, EnHilosMueve DEF Resto, DelDespachador
<1>12. QED
  BY <1>8, <1>9, <1>10, <1>11 DEF Resto

LEMMA PlanificarEjecucionResto ==
    ASSUME IInv, Resto, LanzadosSiguen, Admision, Admision', PlanificarEjecucion
    PROVE  Resto'
<1>1. /\ TypeOK /\ CortoPlazo \in Hilos /\ CortoPlazo \in Pasadores
      /\ {"espera_ready", "mirar_rr", "sacar_rr", "sacar_fifo", "enviar", "destruir", "recibir",
          "push_ready"} \subseteq Lugares(CortoPlazo)
      /\ CortoPlazo \notin DeDispositivo \cup DePageFault \cup DeConsola
  BY HilosFijos, LugaresDe DEF IInv, Pasadores
<1>2. CASE EsperarReady
  BY <1>1, <1>2, EsperarResto DEF EsperarReady, DelDespachador
<1>3. CASE MirarRR
  <2>1. PICK l \in {"sacar_rr", "sacar_fifo"} : Seguir(CortoPlazo, l) /\ pc[CortoPlazo] = "mirar_rr"
    BY <1>3 DEF MirarRR, En
  <2>2. QED
    BY <1>1, <2>1, EsperarResto DEF DelDespachador
<1>4. ASSUME NEW lugar \in {"sacar_rr", "sacar_fifo"}, NEW q \in {"rr", "fifo"}, SacarReady(lugar, q)
      PROVE  Resto'
  <2>1. CASE PopIndebido(cola[q])
    BY <2>1, FallarResto DEF PopIndebido
  <2>2. CASE ~PopIndebido(cola[q])
    <3> DEFINE c == cola[q]
               r == Head(c)
    <3>1. /\ Ir(CortoPlazo, "enviar") /\ c # <<>> /\ c \in Seq(Refs)
          /\ ptr' = [ptr EXCEPT ![CortoPlazo] = r]
          /\ UNCHANGED <<cola_dispositivo, vida, pedidos, cpu>>
          /\ cola'[q] = Tail(c) /\ \A o \in Colas : o # q => cola'[o] = cola[o]
          /\ pc[CortoPlazo] = lugar
      BY <1>1, <1>4, <2>2
         DEF SacarReady, PopPosible, En, dispositivos, memoria, entorno, TypeOK, Colas
    <3>2. 1 \in DOMAIN c /\ r = c[1]
      BY <3>1
    <3>3. Lanzado(r[1])
      BY <3>2 DEF Resto, EnColas
    <3>4. \A o \in {"rr", "fifo", "exit"} : TrasPaso(cola[o], cola'[o])
      BY <3>1 DEF TrasPaso, Colas
    <3> HIDE DEF r, c
    <3>5. ptr'[CortoPlazo] = r /\ \A k \in Hilos : k # CortoPlazo => ptr'[k] = ptr[k]
      BY <1>1, <3>1 DEF TypeOK
    <3>6. pc'[CortoPlazo] = "enviar"
      BY <1>1, <3>1, IrTipo
    <3>7. EnColas'
      BY <3>1, <3>4, EnColasTras DEF Resto, TrasPaso
    <3>8. EnMensajes' /\ PcbEnCpu'
      BY <3>1, <3>6, EnMensajesTras, PcbEnCpuQuieto DEF Resto
    <3>9. EnHilos'
      <4>1. pc[CortoPlazo] # "no_creado"
        BY <3>1
      <4>2. QED
        BY <1>1, <3>1, <3>3, <3>5, <4>1, EnHilosTras DEF Resto
    <3>10. QED
      BY <3>7, <3>8, <3>9 DEF Resto
  <2>3. QED
    BY <2>1, <2>2
<1>5. CASE EnviarPcb
  <2>1. CASE UsoTrasLiberar(CortoPlazo)
    BY <2>1, FallarResto DEF UsoTrasLiberar
  <2>2. CASE ~UsoTrasLiberar(CortoPlazo)
    <3>1. /\ Ir(CortoPlazo, "destruir") /\ pc[CortoPlazo] = "enviar"
          /\ UNCHANGED <<cola, cola_dispositivo, vida, ptr, pedidos>>
          /\ cpu'.fase = "ejecutando" /\ cpu'.pid = ptr[CortoPlazo][1]
      BY <1>5, <2>2 DEF EnviarPcb, En, dispositivos, procesos, memoria
    <3>2. Lanzado(ptr[CortoPlazo][1])
      BY <3>1 DEF Resto, EnHilos, DelDespachador
    <3>3. pc'[CortoPlazo] = "destruir"
      BY <1>1, <3>1, IrTipo
    <3>4. EnColas'
      BY <3>1, EnColasTras DEF Resto, TrasPaso
    <3>5. EnHilos'
      BY <1>1, <3>1, EnHilosMueve DEF Resto, DelDespachador
    <3>6. EnMensajes'
      BY <3>1, <3>2, EnMensajesTras DEF Resto
    <3>7. PcbEnCpu'
      BY <3>1, <3>3 DEF PcbEnCpu
    <3>8. QED
      BY <3>4, <3>5, <3>6, <3>7 DEF Resto
  <2>3. QED
    BY <2>1, <2>2
<1>6. CASE DestruirPcb
  <2>1. CASE UsoTrasLiberar(CortoPlazo)
    BY <2>1, FallarResto DEF UsoTrasLiberar
  <2>2. CASE ~UsoTrasLiberar(CortoPlazo)
    <3>1. /\ Ir(CortoPlazo, "recibir") /\ pc[CortoPlazo] = "destruir"
          /\ ptr[CortoPlazo][1] \in Pids
          /\ vida' = [vida EXCEPT ![ptr[CortoPlazo][1]] = "en_cpu"]
          /\ UNCHANGED <<cola, cola_dispositivo, ptr, pedidos, cpu>>
      BY <1>6, <2>2 DEF DestruirPcb, Valido, En, dispositivos, memoria, entorno
    <3>2. pc'[CortoPlazo] = "recibir"
      BY <1>1, <3>1, IrTipo
    <3>3. cpu.fase # "libre" /\ cpu.pid = ptr[CortoPlazo][1]
      BY <3>1 DEF Resto, PcbEnCpu
    <3>4. EnColas'
      BY <3>1, EnColasTras DEF Resto, TrasPaso
    <3>5. EnHilos'
      BY <1>1, <3>1, EnHilosMueve DEF Resto, DelDespachador
    <3>6. EnMensajes'
      BY <3>1, EnMensajesTras DEF Resto
    <3>7. PcbEnCpu'
      BY <1>1, <3>1, <3>2, <3>3 DEF PcbEnCpu, TypeOK
    <3>8. QED
      BY <3>4, <3>5, <3>6, <3>7 DEF Resto
  <2>3. QED
    BY <2>1, <2>2
<1>7. CASE RecibirPcb
  BY <1>7, RecibirPcbResto
<1>8. CASE DirigirProcesoEjecutado
  <2>1. /\ pc[CortoPlazo] = "dirigir"
        /\ \/ \E f : Fallar(f)
           \/ Seguir(CortoPlazo, "espera_ready") \/ Seguir(CortoPlazo, "push_ready")
           \/ SolicitarFinalizacion(ptr[CortoPlazo])
           \/ SolicitarIO(ptr[CortoPlazo])
    BY <1>8 DEF DirigirProcesoEjecutado, UsoTrasLiberar, En
  <2>2. CASE \E f : Fallar(f)
    BY <2>2, FallarResto
  <2>3. CASE Seguir(CortoPlazo, "espera_ready") \/ Seguir(CortoPlazo, "push_ready")
    BY <1>1, <2>1, <2>3, EsperarResto DEF DelDespachador
  <2>4. CASE SolicitarFinalizacion(ptr[CortoPlazo])
    BY <2>1, <2>4, SolicitarFinalizacionResto
  <2>5. CASE SolicitarIO(ptr[CortoPlazo])
    BY <2>1, <2>5, SolicitarIOResto
  <2>6. QED
    BY <2>1, <2>2, <2>3, <2>4, <2>5
<1>9. CASE RecibirLiberar
  <2>1. CASE TramaCortada
    BY <2>1, FallarResto DEF TramaCortada
  <2>2. CASE ~TramaCortada
    <3>1. Movido /\ Ir(CortoPlazo, "espera_ready") /\ pc[CortoPlazo] = "resp_liberar"
      BY <1>9, <2>2 DEF RecibirLiberar, Movido, En, dispositivos, procesos
    <3>2. QED
      BY <1>1, <3>1, RestoMovido DEF DelDespachador
  <2>3. QED
    BY <2>1, <2>2
<1>10. CASE PasarAReady(CortoPlazo)
  BY <1>1, <1>10, PasarAReadyResto
<1>11. QED
  BY <1>2, <1>3, <1>4, <1>5, <1>6, <1>7, <1>8, <1>9, <1>10 DEF PlanificarEjecucion

LEMMA BloqueadosResto ==
    ASSUME IInv, Resto, LanzadosSiguen, Admision, Admision',
           \/ \E d \in Dispositivos : EjecucionIO(d)
           \/ \E r \in Refs : SolicitarIOConsola(r) \/ ManejarPageFault(r)
    PROVE  Resto'
<1>1. TypeOK
  BY DEF IInv
<1>2. ASSUME NEW d \in Dispositivos, EjecucionIO(d) PROVE Resto'
  <2>1. /\ ES(d) \in Hilos /\ ES(d) \in Pasadores /\ ES(d) # CortoPlazo /\ ES(d) \in DeDispositivo
        /\ ES(d) \notin DePageFault \cup DeConsola
        /\ {"sacar", "push_ready"} \subseteq Lugares(ES(d))
    BY HilosFijos, HilosPorIndice, LugaresDe DEF Pasadores
  <2>2. CASE EsperarDispositivo(d)
    <3>1. Movido /\ Ir(ES(d), "sacar") /\ pc[ES(d)] = "espera"
      BY <2>2 DEF EsperarDispositivo, Movido, En, procesos, memoria, entorno
    <3>2. QED
      BY <2>1, <3>1, RestoMovido
  <2>3. CASE SacarDispositivo(d)
    <3>1. CASE PopIndebido(cola_dispositivo[d])
      BY <3>1, FallarResto DEF PopIndebido
    <3>2. CASE ~PopIndebido(cola_dispositivo[d])
      <4> DEFINE c == cola_dispositivo[d]
                 r == Head(c)
      <4>1. /\ Ir(ES(d), "push_ready") /\ pc[ES(d)] = "sacar" /\ c # <<>> /\ c \in Seq(Refs)
            /\ ptr' = [ptr EXCEPT ![ES(d)] = r]
            /\ UNCHANGED <<cola, vida, pedidos, cpu>>
            /\ cola_dispositivo'[d] = Tail(c)
            /\ \A e \in Dispositivos : e # d => cola_dispositivo'[e] = cola_dispositivo[e]
        BY <1>1, <2>3, <3>2
           DEF SacarDispositivo, PopPosible, En, procesos, memoria, entorno, TypeOK
      <4>2. 1 \in DOMAIN c /\ r = c[1]
        BY <4>1
      <4>3. Lanzado(r[1])
        BY <4>2 DEF Resto, EnColas
      <4>4. \A e \in Dispositivos : TrasPaso(cola_dispositivo[e], cola_dispositivo'[e])
        BY <4>1 DEF TrasPaso
      <4> HIDE DEF r, c
      <4>5. ptr'[ES(d)] = r /\ \A k \in Hilos : k # ES(d) => ptr'[k] = ptr[k]
        BY <1>1, <2>1, <4>1 DEF TypeOK
      <4>6. pc'[CortoPlazo] = pc[CortoPlazo] /\ ptr'[CortoPlazo] = ptr[CortoPlazo]
        BY <1>1, <2>1, <4>1, <4>5, IrTipo, HilosFijos
      <4>7. EnColas'
        BY <4>1, <4>4, EnColasTras DEF Resto, TrasPaso
      <4>8. EnMensajes' /\ PcbEnCpu'
        BY <4>1, <4>6, EnMensajesTras, PcbEnCpuQuieto DEF Resto
      <4>9. EnHilos'
        BY <2>1, <4>1, <4>3, <4>5, EnHilosTras DEF Resto
      <4>10. QED
        BY <4>7, <4>8, <4>9 DEF Resto
    <3>3. QED
      BY <3>1, <3>2
  <2>4. CASE PasarAReady(ES(d))
    BY <2>1, <2>4, PasarAReadyResto
  <2>5. QED
    BY <1>2, <2>2, <2>3, <2>4 DEF EjecucionIO
<1>3. ASSUME NEW r \in Refs, SolicitarIOConsola(r) PROVE Resto'
  <2>1. /\ IO(r) \in Hilos /\ IO(r) \in Pasadores /\ IO(r) # CortoPlazo /\ IO(r) \notin DeDispositivo
        /\ "push_ready" \in Lugares(IO(r))
    BY HilosFijos, HilosPorIndice, LugaresDe DEF Pasadores
  <2>2. CASE Solicitud(r)
    <3>1. UsoTrasLiberar(IO(r)) \/ (Seguir(IO(r), "push_ready") /\ pc[IO(r)] = "solicitud")
      BY <2>2 DEF Solicitud, En
    <3>2. QED
      BY <2>1, <3>1, FallarResto, EsperarResto DEF UsoTrasLiberar
  <2>3. CASE PasarAReady(IO(r))
    BY <2>1, <2>3, PasarAReadyResto
  <2>4. QED
    BY <1>3, <2>2, <2>3 DEF SolicitarIOConsola
<1>4. ASSUME NEW r \in Refs, ManejarPageFault(r) PROVE Resto'
  <2>1. /\ PF(r) \in Hilos /\ PF(r) \in Pasadores /\ PF(r) # CortoPlazo /\ PF(r) \notin DeDispositivo
        /\ PF(r) \in DePageFault
        /\ {"pedir", "push_ready", "muerto"} \subseteq Lugares(PF(r))
    BY HilosFijos, HilosPorIndice, LugaresDe DEF Pasadores
  <2>2. CASE EsperarPageFault(r)
    BY <2>1, <2>2, EsperarResto DEF EsperarPageFault
  <2>3. CASE PedirPagina(r)
    <3>1. CASE UsoTrasLiberar(PF(r))
      BY <3>1, FallarResto DEF UsoTrasLiberar
    <3>2. CASE ~UsoTrasLiberar(PF(r))
      <4>1. Valido(ptr[PF(r)]) /\ Pedir(PF(r), "PAGINA")
        BY <2>3, <3>2 DEF PedirPagina
      <4>2. ptr[PF(r)] \in Refs /\ PF(r) # LargoPlazo
        BY <1>1, <2>1, <4>1, ValidoRef, HilosFijos
      <4>3. QED
        BY <2>1, <4>1, <4>2, PedirResto
    <3>3. QED
      BY <3>1, <3>2
  <2>4. CASE RecibirPagina(r)
    <3>1. CASE TramaCortada
      BY <3>1, FallarResto DEF TramaCortada
    <3>2. CASE ~TramaCortada
      <4>1. PICK l \in {"push_ready", "muerto"} : Recibir(PF(r), l, "libre") /\ pc[PF(r)] = "resp"
        BY <2>4, <3>2 DEF RecibirPagina, En
      <4>2. QED
        BY <2>1, <4>1, RecibirResto
    <3>3. QED
      BY <3>1, <3>2
  <2>5. CASE PasarAReady(PF(r))
    BY <2>1, <2>5, PasarAReadyResto
  <2>6. QED
    BY <1>4, <2>2, <2>3, <2>4, <2>5 DEF ManejarPageFault
<1>5. QED
  BY <1>2, <1>3, <1>4

LEMMA RestoPaso ==
    ASSUME IInv, Resto, LanzadosSiguen, Admision, Admision', [Next]_vars
    PROVE  Resto'
<1>1. TypeOK /\ Conexiones \in Hilos /\ Conexiones # CortoPlazo
      /\ Conexiones \notin DeDispositivo \cup DePageFault \cup DeConsola
      /\ {"esperar_cliente", "post_new"} \subseteq Lugares(Conexiones)
  BY HilosFijos, LugaresDe DEF IInv
<1>2. CASE AtenderNuevaConsola
  <2>1. /\ Ir(Conexiones, "post_new") /\ pc[Conexiones] = "esperar_cliente"
        /\ UNCHANGED <<cola_dispositivo, ptr, pedidos, cpu>>
        /\ \A q \in {"rr", "fifo", "exit"} : cola'[q] = cola[q]
    BY <1>1, <1>2 DEF AtenderNuevaConsola, En, dispositivos, memoria, TypeOK, Colas
  <2>2. \A q \in Pids : vida[q] = "en_cpu" => vida'[q] = "en_cpu"
    <3>1. PICK p : p = pid_actual + 1 /\ vida' = [vida EXCEPT ![p] = "viva"]
      BY <1>2 DEF AtenderNuevaConsola
    <3>2. \A q \in Pids : q # p => vida'[q] = vida[q]
      BY <1>1, <3>1 DEF TypeOK
    <3>3. p \in Pids => vida[p] = "sin_crear"
      <4>1. pid_actual < pid_actual + 1
        BY <1>1 DEF TypeOK
      <4>2. QED
        BY <3>1, <4>1 DEF Admision, NewEnOrden
    <3>4. QED
      BY <3>2, <3>3
  <2>3. pc'[CortoPlazo] = pc[CortoPlazo]
    BY <1>1, <2>1, IrTipo, HilosFijos
  <2>4. EnColas'
    BY <2>1, EnColasTras DEF Resto, TrasPaso
  <2>5. EnHilos'
    BY <1>1, <2>1, EnHilosMueve DEF Resto
  <2>6. EnMensajes' /\ PcbEnCpu'
    BY <2>1, <2>2, <2>3, EnMensajesTras, PcbEnCpuQuieto DEF Resto
  <2>7. QED
    BY <2>4, <2>5, <2>6 DEF Resto
<1>3. CASE AvisarNew
  BY <1>1, <1>3, EsperarResto DEF AvisarNew
<1>4. CASE NewAReady
  BY <1>4, NewAReadyResto
<1>5. CASE RajarPcb
  BY <1>5, RajarPcbResto
<1>6. CASE PlanificarEjecucion
  BY <1>6, PlanificarEjecucionResto
<1>7. CASE \/ \E d \in Dispositivos : EjecucionIO(d)
           \/ \E r \in Refs : SolicitarIOConsola(r) \/ ManejarPageFault(r)
  BY <1>7, BloqueadosResto
<1>8. CASE AtenderKernel \/ EjecutarRafaga
  <2>1. /\ UNCHANGED <<cola, cola_dispositivo, vida, pc, ptr>>
        /\ pedidos' = pedidos \/ (pedidos # <<>> /\ pedidos' = Tail(pedidos))
        /\ cpu' = cpu \/ (cpu.fase = "ejecutando" /\ cpu'.fase = "lista" /\ cpu'.pid = cpu.pid)
    BY <1>1, <1>8 DEF AtenderKernel, EjecutarRafaga, dispositivos, procesos, memoria, entorno, TypeOK
  <2>2. EnColas'
    BY <2>1, EnColasTras DEF Resto, TrasPaso
  <2>3. EnHilos'
    BY <2>1 DEF Resto, EnHilos, LanzadosSiguen, Lanzado
  <2>4. EnMensajes'
    BY <2>1, EnMensajesTras DEF Resto
  <2>5. PcbEnCpu'
    BY <2>1 DEF Resto, PcbEnCpu
  <2>6. QED
    BY <2>2, <2>3, <2>4, <2>5 DEF Resto
<1>9. CASE UNCHANGED vars
  BY <1>9, FallarResto
<1>10. QED
  BY <1>2, <1>3, <1>4, <1>5, <1>6, <1>7, <1>8, <1>9 DEF Next

-----------------------------------------------------------------------------
(* Admission: the invariant and what follows from it. *)

ITodo == IInv /\ IAdmision

LEMMA IAdmisionDe == IAdmision <=> Admision /\ Resto
BY RestoDe DEF IAdmision, Admision, Resto, PunterosFijos

LEMMA IAdmisionPaso == ITodo /\ [Next]_vars => ITodo'
<1> SUFFICES ASSUME ITodo, [Next]_vars PROVE ITodo'
  OBVIOUS
<1>1. IInv /\ IInv' /\ Admision /\ Resto /\ SoloLanzados /\ PcbEnCpu
  BY IInvPaso, IAdmisionDe DEF ITodo, IAdmision
<1>2. Admision' /\ LanzadosSiguen
  BY <1>1, AdmisionPaso
<1>3. Resto'
  BY <1>1, <1>2, RestoPaso
<1>4. (IAdmision <=> Admision /\ Resto)'
  BY IAdmisionDe, PTL
<1>5. QED
  BY <1>1, <1>2, <1>3, <1>4 DEF ITodo

LEMMA IAdmisionInicial == Init => ITodo
<1> SUFFICES ASSUME Init PROVE ITodo
  OBVIOUS
<1>1. IInv
  BY IInvInicial
<1>2. \A h \in Hilos : pc[h] = PcInicial(h)
  BY DEF Init
<1>3. /\ pc[LargoPlazo] = "espera_new" /\ pc[CortoPlazo] = "espera_ready"
      /\ pc[Rajar] = "espera_finalizados"
      /\ \A d \in Dispositivos : pc[ES(d)] = "espera"
      /\ \A r \in Refs : pc[PF(r)] = "no_creado" /\ pc[IO(r)] = "no_creado"
  BY <1>2, PcInicialDe, HilosFijos, HilosPorIndice
<1>4. /\ cola = [q \in Colas |-> <<>>] /\ cola_dispositivo = [d \in Dispositivos |-> <<>>]
      /\ sem["multiprogramacion"] = Grado
      /\ pid_actual = 0 /\ vida = [p \in Pids |-> "sin_crear"]
      /\ ptr = [h \in Hilos |-> IF h \in DePageFault \cup DeConsola THEN h[2] ELSE NULO]
      /\ pedidos = <<>> /\ respuestas = <<>> /\ estructuras = [p \in Pids |-> "no"]
      /\ cpu.fase = "libre"
  BY DEF Init, Semaforos
<1>5. cola["new"] = <<>> /\ cola["exit"] = <<>> /\ Corte = 0
  <2>1. cola["new"] = <<>> /\ cola["exit"] = <<>>
    BY <1>4 DEF Colas
  <2>2. Len(cola["new"]) = 0
    BY <2>1
  <2>3. Corte = pid_actual - Len(cola["new"])
    BY DEF Corte
  <2>4. Corte = 0 - 0
    BY ONLY <1>4, <2>2, <2>3
  <2>5. QED
    BY <2>1, <2>4
<1>6. Admitidos = {} /\ Cardinality(Admitidos) = 0
  <2>1. \A p \in Pids : vida[p] = "sin_crear"
    BY <1>4
  <2>2. Admitidos = {}
    BY <2>1 DEF Admitidos
  <2>3. QED
    BY <2>2, FS_EmptySet
<1>7. NewEnOrden
  BY <1>4, <1>5 DEF NewEnOrden, Pids
<1>8. CuentaGrado
  <2>1. Uno(pc[LargoPlazo] = "sacar_new") = 0 /\ Uno(pc[Rajar] = "post_grado") = 0
    BY <1>3 DEF Uno
  <2>2. QED
    BY <1>4, <1>6, <2>1, GradoAssumption DEF CuentaGrado
<1>9. CreacionUnica /\ CabeLaCreacion
  BY <1>4 DEF CreacionUnica, CabeLaCreacion
<1>10. EstructurasHasta
  BY <1>3, <1>4, <1>5 DEF EstructurasHasta, Pids
<1>11. Liberaciones
  BY <1>4, <1>5 DEF Liberaciones
<1>12. MemoriaAcotada
  <2>1. {p \in Pids : estructuras[p] = "creadas"} = {}
    BY <1>4
  <2>2. QED
    BY <2>1, GradoAssumption, FS_EmptySet DEF MemoriaAcotada
<1>13. Admision
  BY <1>3, <1>7, <1>8, <1>9, <1>10, <1>11, <1>12 DEF Admision, EnAdmision
<1>14. EnColas
  BY <1>4 DEF EnColas, Colas
<1>15. EnHilos
  <2>1. \A r \in Refs : ptr[PF(r)] = r /\ ptr[IO(r)] = r
    BY <1>4, HilosPorIndice DEF PF, IO
  <2>2. QED
    BY <1>3, <2>1 DEF EnHilos, DelDespachador
<1>16. EnMensajes /\ PcbEnCpu
  BY <1>3, <1>4 DEF EnMensajes, PcbEnCpu
<1>17. QED
  BY <1>1, <1>13, <1>14, <1>15, <1>16, IAdmisionDe DEF ITodo, Resto

\* What admission keeps true at every step: the order of arrivals, the count of units
\* of multiprogramacion, the creation under way and the releases sent before it.
THEOREM InvarianteAdmision == Spec => []IAdmision
<1>1. Spec => []ITodo
  BY IAdmisionInicial, IAdmisionPaso, PTL DEF Spec
<1>2. ITodo => IAdmision
  BY DEF ITodo
<1>3. QED
  BY <1>1, <1>2, PTL

\* GRADO_MAX_MULTIPROGRAMACION is respected: between the pop of the NEW queue and the
\* destruction of the PCB never are more than Grado processes.
THEOREM GradoSeguro == Spec => []GradoRespetado
<1>1. Spec => []ITodo
  BY IAdmisionInicial, IAdmisionPaso, PTL DEF Spec
<1>2. ITodo => GradoRespetado
  BY AdmitidosAcotados DEF ITodo, IAdmision, GradoRespetado
<1>3. QED
  BY <1>1, <1>2, PTL

\* The memory never holds the structures of more than Grado processes, whichever
\* thread reads the reply to a release.
THEOREM MemoriaSegura == Spec => []MemoriaAcotada
<1>1. IAdmision => MemoriaAcotada
  BY DEF IAdmision
<1>2. QED
  BY <1>1, InvarianteAdmision, PTL

\* The memory creates the structures of the processes in the order their consoles
\* arrived: the NEW queue is served in order by one thread.
THEOREM AdmisionOrdenada == Spec => []AdmisionEnOrden
<1>1. Spec => []ITodo
  BY IAdmisionInicial, IAdmisionPaso, PTL DEF Spec
<1>2. ASSUME ITodo PROVE AdmisionEnOrden
  <2>1. Corte \in Nat
    BY <1>2, CorteTipo DEF ITodo, IAdmision
  <2>2. SUFFICES ASSUME NEW p \in Pids, NEW q \in 1..(p - 1), estructuras[p] # "no"
                 PROVE  estructuras[q] # "no"
    BY DEF AdmisionEnOrden
  <2>3. p <= Corte /\ q < Corte /\ q \in Pids
    BY <1>2, <2>1, <2>2, LimitesAssumption DEF ITodo, IAdmision, EstructurasHasta, Pids
  <2>4. QED
    BY <1>2, <2>3 DEF ITodo, IAdmision, EstructurasHasta
<1>3. QED
  BY <1>1, <1>2, PTL
=============================================================================
