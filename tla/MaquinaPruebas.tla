--------------------------- MODULE MaquinaPruebas ---------------------------
(***************************************************************************)
(* The whole system implements Maquina, for any consoles, segments, memory *)
(* and degree of multiprogramming, programs that respect ProgramasNormales *)
(* and a TLB of one entry or none.  There is one lemma for each action of  *)
(* Ejecucion: given InvE, InvM and InvD it keeps InvD, and it is a step of *)
(* the machine of one console or none (Refina).                            *)
(***************************************************************************)
EXTENDS DatosPruebas

-----------------------------------------------------------------------------
(* The PCB that comes back from the CPU *)

\* What the kernel and the CPU keep of a PCB on its way between them.
Trae(n, pcb) ==
    /\ Mira(n, pcb) /\ n.registros = pcb.registros /\ n.page_fault = pcb.page_fault
    /\ n.segmentation_fault = pcb.segmentation_fault
    /\ pcb.page_fault => n.pagina_fault = pcb.pagina_fault

LEMMA TraeLuego == ASSUME NEW a, NEW b, NEW c, Trae(a, b), Trae(b, c) PROVE Trae(a, c)
BY DEF Trae, Mira

LEMMA TraeEntero ==
    ASSUME NEW q, NEW pcb, BuenPcb(pcb, q), NEW mem, PcbConMemoria(pcb, q, mem)
    PROVE  Trae(PorDispatch(pcb), pcb)
<1>1. PICK n : n = [pcb EXCEPT !.tamanio_segmentos = Nulo,
                      !.pagina_fault = IF @ = Nulo THEN <<-1, -1>> ELSE @]
  OBVIOUS
<1>2. PorDispatch(pcb) = n
  <2>1. EsFlujo(empaquetar_pcb(pcb))
    BY PcbEs, PcbEntero
  <2>2. Buffer(Paquete("PCB", empaquetar_pcb(pcb))) = empaquetar_pcb(pcb)
    BY <2>1, PaqueteSolo
  <2>3. PICK k : deserializar_pcb(empaquetar_pcb(pcb)) = [valor |-> n, d |-> k]
    BY <1>1, ViajaEntero
  <2> QED BY <2>2, <2>3 DEF PorDispatch, recibir_pcb
<1>3. pcb.page_fault => pcb.pagina_fault # Nulo
  <2>1. ASSUME pcb.page_fault PROVE pcb.pagina_fault # Nulo
    <3>1. pcb.pagina_fault \in PaginasDe(mem, q)
      BY <2>1 DEF PcbConMemoria
    <3>2. PICK a, b : pcb.pagina_fault = <<a, b>>
      BY <3>1 DEF PaginasDe
    <3> QED BY <3>2, PaginaSola
  <2> QED BY <2>1
<1>4. DOMAIN pcb = CamposPcb /\ pcb = [x \in CamposPcb |-> pcb[x]]
  BY DEF BuenPcb
<1>5. Trae(n, pcb)
  BY <1>1, <1>3, <1>4 DEF Trae, Mira, CamposPcb
<1> QED BY <1>2, <1>5

\* The states and the interrupt are not in it.
LEMMA TraeIgual ==
    ASSUME NEW q, NEW pcb, BuenPcb(pcb, q)
    PROVE  /\ \A e : Trae([pcb EXCEPT !.estado = e], pcb)
           /\ Trae([pcb EXCEPT !.interrupcion = FALSE, !.con_desalojo = FALSE], pcb)
           /\ Trae([pcb EXCEPT !.interrupcion = TRUE], pcb)
<1>1. DOMAIN pcb = CamposPcb /\ pcb = [x \in CamposPcb |-> pcb[x]]
  BY DEF BuenPcb
<1>2. ASSUME NEW e PROVE Trae([pcb EXCEPT !.estado = e], pcb)
  BY <1>1 DEF Trae, Mira, CamposPcb
<1>3. Trae([pcb EXCEPT !.interrupcion = FALSE, !.con_desalojo = FALSE], pcb)
  BY <1>1 DEF Trae, Mira, CamposPcb
<1>4. Trae([pcb EXCEPT !.interrupcion = TRUE], pcb)
  BY <1>1 DEF Trae, Mira, CamposPcb
<1> QED BY <1>2, <1>3, <1>4, Zenon

LEMMA TraeLaRegla ==
    ASSUME NEW n, NEW pcb, Trae(n, pcb), NEW c, NEW fin, NEW vuelve, NEW h, NEW f,
           EnRegla(pcb, c, FALSE, fin, vuelve, h, f)
    PROVE  EnRegla(n, c, FALSE, fin, vuelve, h, f) /\ (EnEspera(n) <=> EnEspera(pcb))
<1>1. /\ fetch(n) = fetch(pcb) /\ obtener_ultima_instruccion(n) = obtener_ultima_instruccion(pcb)
      /\ \A z : PaginaEn(n, z) = PaginaEn(pcb, z)
  BY DEF Trae, Mira, fetch, obtener_ultima_instruccion, PaginaEn
<1>2. DirProxima(n) = DirProxima(pcb) /\ (ProximaEsAcceso(n) <=> ProximaEsAcceso(pcb))
  BY <1>1 DEF Trae, Mira, DirProxima, ProximaEsAcceso
<1>3. EnEspera(n) <=> EnEspera(pcb)
  BY <1>1 DEF Trae, Mira, EnEspera, UltimaEsDeConsola
<1>4. FallaBien(pcb) => FallaBien(n)
  BY <1>1, <1>2 DEF FallaBien, Trae
<1>5. ProgramaDe(pcb, c) => ProgramaDe(n, c)
  BY DEF ProgramaDe, Trae, Mira
<1> QED BY <1>3, <1>4, <1>5 DEF EnRegla, Trae, Mira

\* Bloquear.
LEMMA RefBloquear ==
    ASSUME InvE, InvM, InvD, InvE', ProgramasNormales, cpu # Libre, NEW q, q = cpu.pcb.pid,
           NEW pcb, BuenPcb(pcb, q), Trae(pcb, cpu.pcb), TrasLaCpu,
           UNCHANGED <<tlb, falta, pantalla>>,
           NEW trabajo \in {"page fault", "pedir", "dispositivo"}, Bloquear(pcb, trabajo),
           NEW c, c = consolaDe[q], NEW f, f = falta[q],
           NEW h, h = IF trabajo = "dispositivo" THEN "ninguno" ELSE trabajo,
           EnRegla(pcb, c, FALSE, FALSE, FALSE, h, f)
    PROVE  Refina
<1>1. /\ q \notin DOMAIN pcbs /\ q \notin Elems(cola_new) /\ q \notin Elems(cola_ready)
      /\ q \notin Elems(cola_dispositivo) /\ q \notin Elems(cola_exit)
      /\ hilo[q] = "ninguno" /\ Vive(q) /\ EnCpuEsta(q) /\ q \in Pids /\ q \in Nat
      /\ q \in 1..pid_actual
  BY EnSuLugar
<1>2. PICK n : n = [pcb EXCEPT !.estado = "BLOCK"]
  OBVIOUS
<1>3. BuenPcb(n, q) /\ pcb.pid = q /\ Trae(n, pcb)
  <2>1. BuenPcb(n, q)
    BY <1>2, CambiaEstado
  <2>2. Trae(n, pcb)
    BY <1>2, TraeIgual
  <2> QED BY <2>1, <2>2 DEF BuenPcb
<1>4. /\ Guardar(n) /\ cola_ready' = cola_ready /\ cola_exit' = cola_exit
      /\ memoria' = memoria /\ haciaConsola' = haciaConsola
      /\ IF trabajo = "dispositivo"
         THEN cola_dispositivo' = Append(cola_dispositivo, q) /\ hilo' = hilo
         ELSE hilo' = [hilo EXCEPT ![q] = trabajo] /\ cola_dispositivo' = cola_dispositivo
  BY <1>2, <1>3 DEF Bloquear
<1>5. UNCHANGED <<pid_actual, consolaDe, tlb, falta, pantalla, consola, haciaKernel>>
  BY DEF TrasLaCpu
<1>6. PICK lugar \in {"dispositivo", "hilo"} : Ubicado(q, n, lugar) /\ h = hilo'[q]
  <2>1. CASE trabajo = "dispositivo"
    <3>1. cola_dispositivo' = Append(cola_dispositivo, q) /\ hilo' = hilo
      BY <1>4, <2>1
    <3>2. cola_dispositivo \in Seq(Nat) /\ SinRepetir(cola_dispositivo)
      BY NoSeMueve
    <3>3. q \in Nat /\ q \notin Elems(cola_dispositivo)
      BY <1>1
    <3>4. /\ cola_dispositivo' \in Seq(Nat) /\ SinRepetir(cola_dispositivo')
          /\ Elems(cola_dispositivo') = Elems(cola_dispositivo) \cup {q}
      BY <3>1, <3>2, <3>3, PidAlFinal
    <3>5. Elems(cola_dispositivo') = (Elems(cola_dispositivo) \ {q}) \cup {q}
      BY <3>4
    <3>6. Ubicado(q, n, "dispositivo")
      BY <1>1, <1>4, <3>1, <3>4, <3>5, NoSeMueve DEF Ubicado, TrasLaCpu
    <3> QED BY <1>1, <2>1, <3>1, <3>6
  <2>2. CASE trabajo # "dispositivo"
    <3>1. hilo' = [hilo EXCEPT ![q] = trabajo] /\ cola_dispositivo' = cola_dispositivo
      BY <1>4, <2>2
    <3>2. /\ hilo' \in [Pids -> {"ninguno", "page fault", "pedir", "contestar"}]
          /\ \A p \in Pids \ {q} : hilo'[p] = hilo[p]
          /\ hilo'[q] = trabajo
      BY <1>1, <2>2, <3>1, NoSeMueve
    <3>3. Ubicado(q, n, "hilo")
      BY <1>1, <1>4, <3>1, <3>2, NoSeMueve DEF Ubicado, TrasLaCpu
    <3> QED BY <2>2, <3>2, <3>3
  <2> QED BY <2>1, <2>2
<1>7. lugar \in Sitios /\ lugar # "exit" /\ h # "contestar"
  BY DEF Sitios
<1>8. EnRegla(n, c, FALSE, lugar = "exit", FALSE, h, f)
  <2>1. EnRegla(n, c, FALSE, FALSE, FALSE, h, f)
    BY <1>3, TraeLaRegla
  <2>2. (lugar = "exit") = FALSE
    BY <1>7
  <2> QED BY <2>1, <2>2
<1>9. PICK mio : mio = PcbDe(q)
  OBVIOUS
<1>10. Trae(n, mio) /\ mio = cpu.pcb
  <2>1. mio = cpu.pcb
    BY <1>1, <1>9 DEF PcbDe
  <2> QED BY <1>3, <2>1, TraeLuego
<1>11. Acabado(q) <=> Terminado(n)
  <2>1. Terminado(mio) <=> Terminado(n)
    BY ONLY <1>10 DEF Terminado, Trae, Mira
  <2>2. Vive(q)
    BY ONLY <1>1
  <2> QED BY ONLY <1>9, <2>1, <2>2 DEF Acabado, Terminado
<1>12. Admitido(q) /\ Mantiene(memoria, memoria', q)
  BY <1>1, <1>4, AdmitidoEs DEF Mantiene
<1>13. ~Acabado(q) => \A k \in Claves(tlb) : k[1] = q => EnTlb(n, memoria', k[2], tlb.marco[k])
  BY <1>1, <1>4, <1>9, <1>10, <1>12, EnTlbDe DEF Trae
<1>14. Cuerda(memoria', q) /\ Datos(memoria')
  BY <1>1, <1>4, CuerdaDe
<1>15. Mira(n, PcbDe(q)) /\ n.registros = PcbDe(q).registros
  BY <1>9, <1>10 DEF Trae
<1> QED BY <1>1, <1>3, <1>4, <1>5, <1>6, <1>7, <1>8, <1>11, <1>12, <1>13, <1>14, <1>15, AlMoverlo

\* The OTHER of dirigir_proceso_ejecutado: back to READY.
LEMMA RefVolverAReady ==
    ASSUME InvE, InvM, InvD, InvE', ProgramasNormales, cpu # Libre, NEW q, q = cpu.pcb.pid,
           NEW pcb, BuenPcb(pcb, q), Trae(pcb, cpu.pcb), TrasLaCpu,
           UNCHANGED <<tlb, falta, pantalla>>, PasarAReady(pcb),
           UNCHANGED <<cola_dispositivo, cola_exit, hilo, memoria, haciaConsola>>,
           NEW c, c = consolaDe[q], NEW f, f = falta[q],
           EnRegla(pcb, c, FALSE, FALSE, FALSE, "ninguno", f), f \in BOOLEAN
    PROVE  Refina
<1>1. /\ q \notin DOMAIN pcbs /\ q \notin Elems(cola_new) /\ q \notin Elems(cola_ready)
      /\ q \notin Elems(cola_dispositivo) /\ q \notin Elems(cola_exit)
      /\ hilo[q] = "ninguno" /\ Vive(q) /\ EnCpuEsta(q) /\ q \in Pids /\ q \in Nat
      /\ q \in 1..pid_actual
  BY EnSuLugar
<1>2. PICK n : /\ BuenPcb(n, q) /\ Mira(n, pcb) /\ n.registros = pcb.registros
               /\ n.socket_consola = pcb.socket_consola
               /\ ~n.page_fault /\ ~n.segmentation_fault /\ Guardar(n)
               /\ cola_ready' \in Seq(Nat) /\ SinRepetir(cola_ready')
               /\ Elems(cola_ready') = (Elems(cola_ready) \ {q}) \cup {q}
  BY <1>1, NoSeMueve, ListoEs
<1>3. Ubicado(q, n, "ready")
  BY <1>1, <1>2, NoSeMueve DEF Ubicado, TrasLaCpu
<1>4. UNCHANGED <<pid_actual, consolaDe, tlb, falta, pantalla, consola, haciaKernel>>
  BY DEF TrasLaCpu
<1>5. PICK mio : mio = PcbDe(q)
  OBVIOUS
<1>6. Mira(n, mio) /\ n.registros = mio.registros /\ mio = cpu.pcb
      /\ (Mira(n, pcb) /\ pcb.segmentation_fault = mio.segmentation_fault)
  <2>1. mio = cpu.pcb
    BY <1>1, <1>5 DEF PcbDe
  <2> QED BY <1>2, <2>1 DEF Trae, Mira
<1>7. ~f /\ ~pcb.segmentation_fault /\ EnRegla(n, c, FALSE, FALSE, FALSE, "ninguno", f)
  <2>1. ~f /\ ~pcb.segmentation_fault /\ ProgramaDe(pcb, c)
        /\ TablaDe(pcb.tabla_de_segmentos, Segmentos(c))
    BY DEF EnRegla
  <2>2. f = FALSE
    BY <2>1
  <2> QED BY <1>2, <2>1, <2>2, EnReglaListo
<1>8. Acabado(q) <=> Terminado(n)
  BY <1>1, <1>2, <1>5, <1>6, <1>7 DEF Acabado, Terminado, Mira
<1>9. Admitido(q) /\ Mantiene(memoria, memoria', q)
  BY <1>1, AdmitidoEs DEF Mantiene
<1>10. ~Acabado(q) => \A k \in Claves(tlb) : k[1] = q => EnTlb(n, memoria', k[2], tlb.marco[k])
  BY <1>1, <1>5, <1>6, <1>9, EnTlbDe
<1>11. Cuerda(memoria', q) /\ Datos(memoria')
  BY <1>1, CuerdaDe
<1>12. hilo'[q] = "ninguno" /\ "ready" # "exit" /\ "ready" \in Sitios
  BY <1>1 DEF Sitios
<1>13. EnRegla(n, c, FALSE, "ready" = "exit", FALSE, "ninguno", f)
  BY <1>7, <1>12
<1>14. Mira(n, PcbDe(q)) /\ n.registros = PcbDe(q).registros
  BY <1>5, <1>6
<1>15. \A d \in Consolas \ {c} : haciaConsola'[d] = haciaConsola[d]
  OBVIOUS
<1>16. memoria' = memoria \/ Aparte(memoria, memoria', q)
  OBVIOUS
<1>17. PICK lugar \in Sitios : lugar = "ready"
  BY <1>12
<1>18. Ubicado(q, n, lugar) /\ lugar # "exit" /\ EnRegla(n, c, FALSE, lugar = "exit", FALSE, "ninguno", f)
  BY <1>3, <1>12, <1>13, <1>17
<1>19. PICK h : h = "ninguno" /\ h = hilo'[q] /\ h # "contestar"
  BY <1>12
<1>20. EnRegla(n, c, FALSE, lugar = "exit", FALSE, h, f)
  BY <1>18, <1>19
<1>21. BuenPcb(n, q) /\ Ubicado(q, n, lugar) /\ Vive(q) /\ q \notin Elems(cola_new)
       /\ q \notin Elems(cola_exit) /\ (lugar = "exit" => Terminado(n)) /\ lugar \in Sitios
  BY <1>1, <1>2, <1>17, <1>18
<1>22. UNCHANGED <<pid_actual, consolaDe, tlb, falta, pantalla, consola, haciaKernel>>
  BY <1>4
<1>23. Acabado(q) <=> Terminado(n)
  BY <1>8
<1>24. ~Acabado(q) => /\ Mira(n, PcbDe(q)) /\ n.registros = PcbDe(q).registros
                      /\ Mantiene(memoria, memoria', q)
                      /\ \A k \in Claves(tlb) : k[1] = q =>
                               EnTlb(n, memoria', k[2], tlb.marco[k])
  BY <1>9, <1>10, <1>14
<1>25. Datos(memoria') /\ (lugar # "exit" => Cuerda(memoria', q))
  BY <1>11
<1> QED BY ONLY InvE, InvM, InvD, InvE', ProgramasNormales, c = consolaDe[q], f = falta[q], <1>15, <1>16, <1>19, <1>20, <1>21, <1>22, <1>23, <1>24, <1>25, AlMoverlo

\* Every table is of a process.
LEMMA Duenios == ASSUME InvE, InvM PROVE ConDuenio(memoria)
<1> SUFFICES ASSUME NEW y \in LasPaginas(memoria) PROVE PidDe(memoria, y) # PidLibre
  BY DEF ConDuenio
<1>1. \A k \in DOMAIN memoria.tablas : memoria.tablas[k].pid \in 1..pid_actual
  BY DEF InvM, TablasDeAdmitidos
<1>2. y[1] + 1 \in DOMAIN memoria.tablas
  <2>1. EsMemoria(memoria)
    BY NoSeMueve
  <2>2. /\ Len(memoria.tablas) \in Nat /\ DOMAIN memoria.tablas = 1..Len(memoria.tablas)
    BY <2>1, DeLista DEF EsMemoria
  <2> QED BY <2>2 DEF LasPaginas
<1>3. PICK p \in 1..pid_actual : p = PidDe(memoria, y)
  BY <1>1, <1>2 DEF PidDe
<1>4. p \in Pids
  BY PidsAlcanzan DEF InvE
<1> QED BY <1>3, <1>4, PidsEnteros

\* Finalizar.
LEMMA RefFinalizar ==
    ASSUME InvE, InvM, InvD, InvE', ProgramasNormales, cpu # Libre, NEW q, q = cpu.pcb.pid,
           NEW pcb, BuenPcb(pcb, q), Trae(pcb, cpu.pcb), TrasLaCpu,
           UNCHANGED <<tlb, falta, pantalla>>, Finalizar(pcb), Terminado(pcb),
           NEW c, c = consolaDe[q], NEW f, f = falta[q],
           EnRegla(pcb, c, FALSE, TRUE, FALSE, "ninguno", f),
           pcb.socket_consola = cpu.pcb.socket_consola
    PROVE  Refina
<1> DEFINE r == AtenderLiberarEstructuras(memoria,
                    Buffer(ValorConCodigo(pcb.pid, "LIBERAR_ESTRUCTURAS")))
<1>1. /\ q \notin DOMAIN pcbs /\ q \notin Elems(cola_new) /\ q \notin Elems(cola_ready)
      /\ q \notin Elems(cola_dispositivo) /\ q \notin Elems(cola_exit)
      /\ hilo[q] = "ninguno" /\ Vive(q) /\ EnCpuEsta(q) /\ q \in Pids /\ q \in Nat
      /\ q \in 1..pid_actual /\ Socket(q) = cpu.pcb.socket_consola
  BY EnSuLugar
<1>2. PICK n : n = [pcb EXCEPT !.estado = "FINISH_EXIT"]
  OBVIOUS
<1>3. BuenPcb(n, q) /\ pcb.pid = q /\ Trae(n, pcb)
  <2>1. BuenPcb(n, q)
    BY <1>2, CambiaEstado
  <2>2. Trae(n, pcb)
    BY <1>2, TraeIgual
  <2> QED BY <2>1, <2>2 DEF BuenPcb
<1>4. EsMemoria(r.mem) /\ Operacion(r.respuesta) = "OKI_LIBERAR_ESTRUCTURAS"
  BY NoSeMueve, LiberarForma
<1>5. /\ Guardar(n) /\ cola_ready' = cola_ready /\ cola_exit' = Append(cola_exit, q)
      /\ memoria' = r.mem /\ cola_dispositivo' = cola_dispositivo /\ hilo' = hilo
      /\ Enviar(pcb.socket_consola, Codigo("FINALIZAR"))
  BY <1>2, <1>3, <1>4 DEF Finalizar
<1>6. Datos(memoria') /\ Aparte(memoria, memoria', q)
  <2>1. PICK mem : mem = memoria
    OBVIOUS
  <2>2. EsMemoria(mem) /\ BuenaMemoria(mem) /\ q \in Enteros /\ ConDuenio(mem)
    BY <1>1, <2>1, NoSeMueve, PidsEnteros, Duenios DEF InvM
  <2>3. Datos(mem) /\ Cuerda(mem, q)
    BY <1>1, <2>1, CuerdaDe
  <2>4. PICK x : x = AtenderLiberarEstructuras(mem,
                        Buffer(ValorConCodigo(q, "LIBERAR_ESTRUCTURAS"))).mem
    OBVIOUS
  <2>5. Datos(x) /\ Aparte(mem, x, q)
    BY <2>2, <2>3, <2>4, Liberada
  <2>6. memoria' = x
    BY <1>3, <1>5, <2>1, <2>4
  <2> QED BY <2>1, <2>5, <2>6
<1> HIDE DEF r
<1>7. UNCHANGED <<pid_actual, consolaDe, tlb, falta, pantalla, consola, haciaKernel>>
  BY DEF TrasLaCpu
<1>8. /\ cola_exit' \in Seq(Nat) /\ SinRepetir(cola_exit')
      /\ Elems(cola_exit') = Elems(cola_exit) \cup {q}
  <2>1. cola_exit \in Seq(Nat) /\ SinRepetir(cola_exit) /\ q \in Nat /\ q \notin Elems(cola_exit)
    BY <1>1, NoSeMueve
  <2> QED BY <1>5, <2>1, PidAlFinal
<1>9. Ubicado(q, n, "exit") /\ "exit" \in Sitios
  BY <1>1, <1>5, <1>8, NoSeMueve DEF Ubicado, TrasLaCpu, Sitios
<1>10. \A d \in Consolas \ {c} : haciaConsola'[d] = haciaConsola[d]
  <2>1. PICK fd : fd = Socket(q)
    OBVIOUS
  <2>2. Enviar(fd, Codigo("FINALIZAR"))
    BY <1>1, <1>5, <2>1
  <2>3. consola' = consola /\ haciaKernel' = haciaKernel /\ c \in Consolas
    BY <1>1, <1>7, PidsAlcanzan DEF InvE
  <2> QED BY <1>1, <2>1, <2>2, <2>3, AlDespedir
<1>11. Mira(n, PcbDe(q)) /\ n.registros = PcbDe(q).registros /\ Terminado(n)
       /\ n.segmentation_fault = PcbDe(q).segmentation_fault
  <2>1. PcbDe(q) = cpu.pcb
    BY <1>1 DEF PcbDe
  <2> QED BY <1>3, <2>1 DEF Trae, Mira, Terminado
<1>12. Acabado(q)
  BY <1>11 DEF Acabado, Terminado, Mira
<1>13. PICK lugar \in Sitios : lugar = "exit"
  BY <1>9
<1>14. PICK h : h = "ninguno" /\ h = hilo'[q] /\ h # "contestar"
  BY <1>1, <1>5
<1>15. EnRegla(n, c, FALSE, lugar = "exit", FALSE, h, f) /\ Ubicado(q, n, lugar)
  <2>1. EnRegla(n, c, FALSE, TRUE, FALSE, "ninguno", f)
    BY <1>3, TraeLaRegla
  <2>2. (lugar = "exit") = TRUE
    BY <1>13
  <2>3. EnRegla(n, c, FALSE, lugar = "exit", FALSE, h, f)
    BY <1>14, <2>1, <2>2, Zenon
  <2> QED BY <1>9, <1>13, <2>3
<1>16. lugar # "exit" => Cuerda(memoria', q)
  BY <1>13
<1>17. Vive(q) /\ q \notin Elems(cola_new) /\ q \notin Elems(cola_exit)
  BY <1>1
<1> QED BY ONLY InvE, InvM, InvD, InvE', ProgramasNormales, c = consolaDe[q], f = falta[q], <1>3,
             <1>6, <1>7, <1>10, <1>11, <1>12, <1>14, <1>15, <1>16, <1>17, AlMoverlo, ZenonT(60)

-----------------------------------------------------------------------------
(* Devolver *)

LEMMA RefDevolver == ASSUME InvE, InvM, InvD, InvE', ProgramasNormales, Devolver PROVE Refina
<1>1. cpu.estado = "devuelve" /\ cpu # Libre
  <2>1. cpu.estado = "devuelve"
    BY DEF Devolver
  <2> QED BY <2>1 DEF Libre
<1>2. PICK q : q = cpu.pcb.pid
  OBVIOUS
<1>3. /\ BuenPcb(cpu.pcb, q) /\ Vive(q) /\ EnCpuEsta(q) /\ q \in 1..pid_actual /\ q \in Pids
      /\ q \notin Elems(cola_new) /\ q \notin Elems(cola_exit) /\ hilo[q] = "ninguno"
  BY <1>1, <1>2, EnSuLugar
<1>4. PICK mio : mio = cpu.pcb
  OBVIOUS
<1>5. PcbConMemoria(mio, q, memoria) /\ BuenPcb(mio, q) /\ PcbDe(q) = mio
  <2>1. Admitido(q) /\ PcbDe(q) = mio
    BY <1>3, <1>4, AdmitidoEs DEF PcbDe
  <2> QED BY <1>3, <1>4, <2>1 DEF InvM
<1>6. PICK recibido : recibido = PorDispatch(mio)
  OBVIOUS
<1>7. PICK pcb : pcb = IF recibido.interrupcion
               THEN [recibido EXCEPT !.interrupcion = FALSE, !.con_desalojo = FALSE] ELSE recibido
  OBVIOUS
<1>8. LET ultima == obtener_ultima_instruccion(pcb)
          fallo == pcb.segmentation_fault \/ pcb.page_fault
      IN CASE pcb.page_fault -> Bloquear(pcb, "page fault")
         [] pcb.segmentation_fault -> Finalizar(pcb)
         [] ~fallo /\ ultima.operacion = "EXIT" -> Finalizar(pcb)
         [] ~fallo /\ ultima.operacion = "IO" ->
              Bloquear(pcb, IF EsDeConsola(ultima) THEN "pedir" ELSE "dispositivo")
         [] OTHER -> /\ PasarAReady(pcb)
                     /\ UNCHANGED <<cola_dispositivo, cola_exit, hilo, memoria, haciaConsola>>
  BY <1>4, <1>6, <1>7 DEF Devolver
<1>9. TrasLaCpu /\ UNCHANGED <<tlb, falta, pantalla>>
  BY DEF Devolver, TrasLaCpu, historia
<1>10. BuenPcb(recibido, q) /\ Trae(recibido, mio) /\ recibido.socket_consola = mio.socket_consola
  <2>1. BuenPcb(recibido, q) /\ recibido.socket_consola = mio.socket_consola
    BY <1>5, <1>6, Viaja DEF Quieto, Igual
  <2>2. Trae(recibido, mio)
    BY <1>5, <1>6, TraeEntero
  <2> QED BY <2>1, <2>2
<1>11. BuenPcb(pcb, q) /\ Trae(pcb, mio) /\ pcb.socket_consola = mio.socket_consola
  <2>1. CASE recibido.interrupcion
    <3>1. pcb = [recibido EXCEPT !.interrupcion = FALSE, !.con_desalojo = FALSE]
      BY <1>7, <2>1
    <3>2. BuenPcb(pcb, q) /\ pcb.socket_consola = recibido.socket_consola
      BY <1>10, <3>1, InterrupcionAtendida DEF Quieto, Igual
    <3>3. Trae(pcb, recibido)
      BY <1>10, <3>1, TraeIgual
    <3> QED BY <1>10, <3>2, <3>3, TraeLuego
  <2>2. CASE ~recibido.interrupcion
    BY <1>7, <1>10, <2>2
  <2> QED BY <2>1, <2>2
<1>12. pcb.page_fault \/ pcb.segmentation_fault \/ pcb.program_counter >= 1
  BY <1>1, <1>4, <1>11 DEF InvE, Pcbs, EnCpuBien, Trae, Mira
<1>13. PICK c, f : c = consolaDe[q] /\ f = falta[q]
  OBVIOUS
<1>14. EnRegla(pcb, c, FALSE, FALSE, TRUE, "ninguno", f) /\ f \in BOOLEAN
  <2>1. Vuelve(q) = TRUE /\ (q \in Elems(cola_new)) = FALSE /\ (q \in Elems(cola_exit)) = FALSE
    BY <1>1, <1>3 DEF Vuelve
  <2>2. EnRegla(mio, c, FALSE, FALSE, TRUE, "ninguno", f) /\ f \in BOOLEAN
    BY <1>3, <1>5, <1>13, <2>1, EnReglaDe
  <2> QED BY <1>11, <2>2, TraeLaRegla
<1> DEFINE ultima == obtener_ultima_instruccion(pcb)
           fallo == pcb.segmentation_fault \/ pcb.page_fault
<1> HIDE DEF ultima
<1>15. \/ pcb.page_fault /\ Bloquear(pcb, "page fault")
       \/ /\ pcb.segmentation_fault \/ (~fallo /\ ultima.operacion = "EXIT")
          /\ ~pcb.page_fault /\ Finalizar(pcb)
       \/ ~fallo /\ ultima.operacion = "IO" /\ EsDeConsola(ultima) /\ Bloquear(pcb, "pedir")
       \/ ~fallo /\ ultima.operacion = "IO" /\ ~EsDeConsola(ultima) /\ Bloquear(pcb, "dispositivo")
       \/ /\ ~fallo /\ ultima.operacion # "IO" /\ PasarAReady(pcb)
          /\ UNCHANGED <<cola_dispositivo, cola_exit, hilo, memoria, haciaConsola>>
  <2>1. pcb.page_fault => ~pcb.segmentation_fault
    BY <1>14 DEF EnRegla, FallaBien
  <2> QED BY <1>8, <2>1 DEF ultima
<1>16. EnEspera(pcb) <=> pcb.program_counter >= 1 /\ EsDeConsola(ultima) /\ ~fallo
  BY DEF EnEspera, UltimaEsDeConsola, ultima
<1>17. CASE pcb.page_fault /\ Bloquear(pcb, "page fault")
  <2>1. EnRegla(pcb, c, FALSE, FALSE, FALSE, "page fault", f)
    BY <1>14, <1>16, <1>17 DEF EnRegla, FallaBien
  <2> QED BY <1>1, <1>2, <1>4, <1>9, <1>11, <1>13, <1>17, <2>1, RefBloquear
<1>18. CASE /\ pcb.segmentation_fault \/ (~fallo /\ ultima.operacion = "EXIT")
            /\ ~pcb.page_fault /\ Finalizar(pcb)
  <2>1. Terminado(pcb)
    BY <1>11, <1>12, <1>18 DEF Terminado, BuenPcb, EsPrograma, ultima, obtener_ultima_instruccion
  <2>2. ~EnEspera(pcb)
    BY <1>16, <1>18 DEF EsDeConsola
  <2>3. EnRegla(pcb, c, FALSE, TRUE, FALSE, "ninguno", f)
    BY <1>14, <1>18, <2>2 DEF EnRegla
  <2> QED BY <1>1, <1>2, <1>4, <1>9, <1>11, <1>13, <1>18, <2>1, <2>3, RefFinalizar
<1>19. CASE ~fallo /\ ultima.operacion = "IO" /\ EsDeConsola(ultima) /\ Bloquear(pcb, "pedir")
  <2>1. f
    BY <1>12, <1>14, <1>16, <1>19 DEF EnRegla
  <2>2. EnRegla(pcb, c, FALSE, FALSE, FALSE, "pedir", f)
    BY <1>14, <1>19, <2>1 DEF EnRegla
  <2> QED BY <1>1, <1>2, <1>4, <1>9, <1>11, <1>13, <1>19, <2>2, RefBloquear
<1>20. CASE /\ ~fallo /\ ultima.operacion = "IO" /\ ~EsDeConsola(ultima)
            /\ Bloquear(pcb, "dispositivo")
  <2>1. EnRegla(pcb, c, FALSE, FALSE, FALSE, "ninguno", f)
    BY <1>14, <1>16, <1>20 DEF EnRegla
  <2> QED BY <1>1, <1>2, <1>4, <1>9, <1>11, <1>13, <1>20, <2>1, RefBloquear
<1>21. CASE /\ ~fallo /\ ultima.operacion # "IO" /\ PasarAReady(pcb)
            /\ UNCHANGED <<cola_dispositivo, cola_exit, hilo, memoria, haciaConsola>>
  <2>1. EnRegla(pcb, c, FALSE, FALSE, FALSE, "ninguno", f)
    BY <1>14, <1>16, <1>21 DEF EnRegla, EsDeConsola
  <2> QED BY <1>1, <1>2, <1>4, <1>9, <1>11, <1>13, <1>14, <1>21, <2>1, RefVolverAReady
<1> QED BY <1>15, <1>17, <1>18, <1>19, <1>20, <1>21

\* AtenderPageFault: the page that takes the place of another is not the one of the TLB, for
\* it was not there.
LEMMA RefPageFault ==
    ASSUME InvE, InvM, InvD, InvE', ProgramasNormales, NEW q \in Pids, AtenderPageFault(q)
    PROVE  Refina
<1>1. PICK pcb : pcb = pcbs[q]
  OBVIOUS
<1>2. /\ hilo[q] = "page fault" /\ memoria' \in MemoriasTrasPageFault(q)
      /\ PasarAReady(pcb) /\ hilo' = [hilo EXCEPT ![q] = "ninguno"]
      /\ cola_new' = cola_new /\ cola_exit' = cola_exit /\ cpu' = cpu
      /\ cola_dispositivo' = cola_dispositivo /\ haciaConsola' = haciaConsola
      /\ UNCHANGED <<pid_actual, consolaDe, tlb, falta, pantalla, consola, haciaKernel>>
  BY <1>1 DEF AtenderPageFault, TrasDesbloquear, deConsolas, historia
<1>3. /\ q \in DOMAIN pcbs /\ q \notin Elems(cola_new) /\ q \notin Elems(cola_exit)
      /\ q \notin Elems(cola_ready) /\ q \notin Elems(cola_dispositivo)
      /\ BuenPcb(pcb, q) /\ Vive(q) /\ ~EnCpuEsta(q) /\ q \in 1..pid_actual /\ q \in Nat
  BY <1>1, <1>2, EnSuLugar
<1>4. PcbDe(q) = pcb
  BY <1>1, <1>3 DEF PcbDe
<1>5. Admitido(q) /\ PcbConMemoria(pcb, q, memoria) /\ pcb.page_fault
  <2>1. Admitido(q)
    BY <1>3, AdmitidoEs
  <2> QED BY <1>1, <1>2, <1>3, <1>4, <2>1 DEF InvM
<1>6. PICK x : x = pcb.pagina_fault
  OBVIOUS
<1>7. x \in PaginasDe(memoria, q) /\ ~Entrada(memoria, x).presencia
  BY <1>5, <1>6 DEF PcbConMemoria
<1>8. Cuerda(memoria, q) /\ Datos(memoria)
  BY <1>3, CuerdaDe
<1>9. Cambiada(memoria, memoria', q)
  <2>1. PICK mem, n : mem = memoria /\ n = memoria'
    OBVIOUS
  <2>2. EsMemoria(mem) /\ BuenaMemoria(mem) /\ Datos(mem) /\ ConDuenio(mem) /\ Cuerda(mem, q)
    BY <1>8, <2>1, NoSeMueve, Duenios DEF InvM
  <2>3. x \in PaginasDe(mem, q) /\ ~Entrada(mem, x).presencia
    BY <1>7, <2>1
  <2>4. n \in AtenderPedidoDePaginaFault(mem, Buffer(Paquete("PAGINA", empaquetar_pagina(x))))
    BY <1>1, <1>2, <1>6, <2>1 DEF MemoriasTrasPageFault
  <2>5. Cambiada(mem, n, q)
    BY <2>2, <2>3, <2>4, Fallada
  <2> QED BY <2>1, <2>5
<1>10. Datos(memoria') /\ Aparte(memoria, memoria', q) /\ Cuerda(memoria', q)
       /\ Mantiene(memoria, memoria', q)
  BY <1>9 DEF Cambiada
<1>11. PICK n : /\ BuenPcb(n, q) /\ Mira(n, pcb) /\ n.registros = pcb.registros
                /\ n.socket_consola = pcb.socket_consola
                /\ ~n.page_fault /\ ~n.segmentation_fault /\ Guardar(n)
                /\ cola_ready' \in Seq(Nat) /\ SinRepetir(cola_ready')
                /\ Elems(cola_ready') = (Elems(cola_ready) \ {q}) \cup {q}
  BY <1>2, <1>3, NoSeMueve, ListoEs
<1>12. /\ hilo' \in [Pids -> {"ninguno", "page fault", "pedir", "contestar"}]
       /\ \A p \in Pids \ {q} : hilo'[p] = hilo[p]
       /\ hilo'[q] = "ninguno"
  BY <1>2, NoSeMueve
<1>13. PICK lugar \in Sitios : lugar = "ready"
  BY DEF Sitios
<1>14. Ubicado(q, n, lugar)
  BY <1>2, <1>3, <1>11, <1>12, <1>13, NoSeMueve DEF Ubicado
<1>15. PICK c, f, h : c = consolaDe[q] /\ f = falta[q] /\ h = "ninguno" /\ h = hilo'[q]
  BY <1>12
<1>16. EnRegla(pcb, c, FALSE, FALSE, FALSE, "page fault", f) /\ f \in BOOLEAN
  <2>1. Vuelve(q) = FALSE /\ (q \in Elems(cola_new)) = FALSE /\ (q \in Elems(cola_exit)) = FALSE
    BY <1>3 DEF Vuelve
  <2>2. pcb = PcbDe(q)
    BY <1>4
  <2> QED BY <1>2, <1>3, <1>15, <2>1, <2>2, EnReglaDe
<1>17. ~f /\ ~pcb.segmentation_fault /\ ProximaEsAcceso(pcb)
       /\ x = PaginaEn(pcb, ClaveA(DirProxima(pcb)))
  BY <1>5, <1>6, <1>16 DEF EnRegla, EnEspera, FallaBien
<1>18. EnRegla(n, c, FALSE, lugar = "exit", FALSE, h, f)
  <2>1. ProgramaDe(pcb, c) /\ TablaDe(pcb.tabla_de_segmentos, Segmentos(c))
    BY <1>16 DEF EnRegla
  <2>2. f = FALSE /\ h # "pedir" /\ (lugar = "exit") = FALSE
    BY <1>13, <1>15, <1>16, <1>17
  <2>3. EnRegla(n, c, FALSE, FALSE, FALSE, h, FALSE)
    BY <1>11, <2>1, <2>2, EnReglaListo
  <2> QED BY <2>2, <2>3
<1>19. Acabado(q) <=> Terminado(n)
  BY <1>3, <1>4, <1>11, <1>17 DEF Acabado, Terminado, Mira
<1>20. ASSUME ~Acabado(q), NEW k \in Claves(tlb), k[1] = q
       PROVE  EnTlb(n, memoria', k[2], tlb.marco[k])
  <2>1. PICK l, m : l = k[2] /\ m = tlb.marco[k]
    OBVIOUS
  <2>2. Mira(pcb, pcb) /\ pcb = PcbDe(q)
    BY <1>4 DEF Mira
  <2>3. EnTlb(pcb, memoria, l, m)
    BY <1>3, <1>5, <1>20, <2>1, <2>2, EnTlbDe
  <2>4. l # ClaveA(DirProxima(pcb))
    BY <1>7, <1>17, <2>3 DEF EnTlb
  <2>5. EnTlb(pcb, memoria', l, m)
    BY <1>17, <2>3, <2>4 DEF EnTlb
  <2>6. EnTlb(n, memoria', l, m)
    BY <1>11, <2>5, EnTlbMira
  <2> QED BY <2>1, <2>6
<1>21. BuenPcb(n, q) /\ Mira(n, PcbDe(q)) /\ n.registros = PcbDe(q).registros
  BY <1>4, <1>11
<1>22. lugar # "exit" /\ h # "contestar" /\ Vive(q) /\ q \notin Elems(cola_new)
       /\ q \notin Elems(cola_exit) /\ \A d \in Consolas \ {c} : haciaConsola'[d] = haciaConsola[d]
  BY <1>2, <1>3, <1>13, <1>15
<1>23. UNCHANGED <<pid_actual, consolaDe, tlb, falta, pantalla, consola, haciaKernel>>
  BY <1>2
<1> QED BY ONLY InvE, InvM, InvD, InvE', ProgramasNormales, <1>10, <1>14, <1>15, <1>18, <1>19,
             <1>20, <1>21, <1>22, <1>23, AlMoverlo

-----------------------------------------------------------------------------
(* What is said between the kernel and a console *)

\* The PCBs stay where they are.
KernelIgual == pcbs' = pcbs /\ cpu' = cpu /\ cola_new' = cola_new /\ cola_exit' = cola_exit
Intacto(p) ==
    /\ (Vive(p)' <=> Vive(p)) /\ PcbDe(p)' = PcbDe(p) /\ (Vuelve(p)' <=> Vuelve(p))
    /\ (Acabado(p)' <=> Acabado(p)) /\ (Admitido(p)' <=> Admitido(p))
    /\ (p \in Elems(cola_new))' = (p \in Elems(cola_new))
    /\ (p \in Elems(cola_exit))' = (p \in Elems(cola_exit))
LEMMA PcbsIntactos ==
    ASSUME KernelIgual, NEW p
    PROVE  Intacto(p)
<1>1. (Vive(p)' <=> Vive(p)) /\ PcbDe(p)' = PcbDe(p) /\ (Vuelve(p)' <=> Vuelve(p))
  BY DEF Vive, PcbDe, EnCpuEsta, Vuelve, KernelIgual
<1>2. /\ (p \in Elems(cola_new))' = (p \in Elems(cola_new))
      /\ (p \in Elems(cola_exit))' = (p \in Elems(cola_exit))
  BY DEF Elems, KernelIgual
<1>3. Acabado(p)' <=> Acabado(p)
  <2>1. Acabado(p)' <=> ~Vive(p)' \/ PcbDe(p)'.segmentation_fault
                       \/ PcbDe(p)'.program_counter = Len(PcbDe(p)'.instrucciones)
    BY DEF Acabado
  <2> QED BY <1>1, <2>1, Zenon DEF Acabado
<1>4. Admitido(p)' <=> Admitido(p)
  <2>1. Admitido(p)' <=> Vive(p)' /\ ~((p \in Elems(cola_new))')
    BY DEF Admitido, Elems
  <2> QED BY <1>1, <1>2, <2>1, AdmitidoEs
<1> QED BY <1>1, <1>2, <1>3, <1>4, Zenon DEF Intacto

LEMMA AjenoQuieto ==
    ASSUME KernelIgual, NEW p, hilo'[p] = hilo[p], falta'[p] = falta[p]
    PROVE  Ajeno(p)
<1>1. pcbs'[p] = pcbs[p]
  BY DEF KernelIgual
<1>2. Intacto(p)
  BY PcbsIntactos
<1> QED BY <1>1, <1>2, Zenon DEF Ajeno, Intacto

\* InvD of a PCB that stays where it is, with what is said of it.
LEMMA PropioQuieto ==
    ASSUME InvE, InvD, KernelIgual, UNCHANGED <<memoria, tlb, consolaDe>>,
           NEW q \in 1..pid_actual, NEW c, c = consolaDe[q], NEW nuevo, NEW fin, NEW vuelve,
           (q \in Elems(cola_new)) = nuevo, (q \in Elems(cola_exit)) = fin, Vuelve(q) = vuelve,
           NEW h, h = hilo'[q], NEW f, f = falta'[q],
           Vive(q) => EnRegla(PcbDe(q), c, nuevo, fin, vuelve, h, f), f => Vive(q),
           h = "contestar" => LoDicho(c, pcbs[q], falta[q])'
    PROVE  Propio(q)'
<1>1. Propio(q) /\ Bien(q)
  BY Propios DEF Propio
<1>2. PICK n : n = PcbDe(q)
  OBVIOUS
<1>3. /\ (Vive(q)' <=> Vive(q)) /\ PcbDe(q)' = n
      /\ (q \in Elems(cola_new))' = nuevo /\ (q \in Elems(cola_exit))' = fin
      /\ Vuelve(q)' = vuelve
      /\ (Acabado(q)' <=> Acabado(q)) /\ (Admitido(q)' <=> Admitido(q))
  <2>1. Intacto(q)
    BY PcbsIntactos
  <2>2. Vuelve(q)' = Vuelve(q)
    BY DEF Vuelve, EnCpuEsta, KernelIgual
  <2> QED BY <1>2, <2>1, <2>2 DEF Intacto
<1>4. Vive(q)' => EnRegla(PcbDe(q)', consolaDe'[q], (q \in Elems(cola_new))', (q \in Elems(cola_exit))',
                         Vuelve(q)', hilo'[q], falta'[q])
  <2>1. Vive(q)' => EnRegla(n, c, nuevo, fin, vuelve, h, f)
    BY <1>2, <1>3
  <2>2. consolaDe'[q] = c
    OBVIOUS
  <2> QED BY <1>3, <2>1, <2>2, Zenon
<1>5. (Admitido(q) /\ q \notin Elems(cola_exit))' => Cuerda(memoria', q)
  BY <1>1, <1>3 DEF Bien
<1>6. hilo'[q] = "contestar" => LoDicho(consolaDe[q], pcbs[q], falta[q])'
  <2>1. consolaDe'[q] = c
    OBVIOUS
  <2>2. ASSUME h = "contestar" PROVE LoDicho(consolaDe[q], pcbs[q], falta[q])'
    BY <2>1, <2>2 DEF LoDicho, KernelIgual
  <2> QED BY <2>2
<1>7. falta'[q] => Vive(q)'
  BY <1>3
<1>8. Bien(q)'
  BY <1>4, <1>5, <1>6, <1>7, Zenon DEF Bien
<1>9. Mira(n, PcbDe(q)) /\ n = PcbDe(q)'
  BY <1>2, <1>3 DEF Mira
<1> QED BY <1>1, <1>3, <1>8, <1>9, TlbSigue

\* Pedir.
LEMMA RefPedir ==
    ASSUME InvE, InvM, InvD, InvE', ProgramasNormales, NEW q \in Pids, Pedir(q) PROVE Refina
<1>1. PICK fd, pcb, t, m : /\ fd = pcbs[q].socket_consola /\ pcb = pcbs[q]
                           /\ t = obtener_ultima_instruccion(pcb).parametro1
                           /\ m = IF t = "TECLADO" THEN Codigo("TECLADO")
                                  ELSE ValorConCodigo(obtener_valor_del_registro(pcb,
                                           obtener_ultima_instruccion(pcb).parametro2), "PANTALLA")
  OBVIOUS
<1>2. /\ hilo[q] = "pedir" /\ hilo' = [hilo EXCEPT ![q] = "contestar"] /\ Enviar(fd, m)
      /\ UNCHANGED <<pcbs, cpu, cola_new, cola_exit>>
      /\ UNCHANGED <<pid_actual, consolaDe, tlb, falta, pantalla, consola>>
      /\ haciaKernel' = haciaKernel /\ memoria' = memoria
  BY <1>1 DEF Pedir, historia, colas
<1>3. /\ q \in DOMAIN pcbs /\ q \notin Elems(cola_exit) /\ q \in 1..pid_actual
      /\ q \notin Elems(cola_new) /\ ~EnCpuEsta(q)
      /\ BuenPcb(pcb, q) /\ Vive(q) /\ Socket(q) = fd
  BY <1>1, <1>2, EnSuLugar
<1>4. Tipos /\ Pcbs /\ Conexiones
  BY DEF InvE
<1>5. PICK c \in Consolas : c = consolaDe[q]
  BY <1>3, <1>4, PidsAlcanzan
<1>6. EnSilencio(c)
  BY <1>2, <1>3, <1>5, SegunTrato DEF Acabo
<1>7. pcb = PcbDe(q)
  BY <1>1, <1>3 DEF PcbDe
<1>8. PICK f : f = falta[q]
  OBVIOUS
<1>9. EnRegla(pcb, c, FALSE, FALSE, FALSE, "pedir", f) /\ f \in BOOLEAN
  <2>1. Vuelve(q) = FALSE /\ (q \in Elems(cola_new)) = FALSE /\ (q \in Elems(cola_exit)) = FALSE
    BY <1>3 DEF Vuelve
  <2> QED BY <1>2, <1>3, <1>5, <1>7, <1>8, <2>1, EnReglaDe
<1>10. f /\ EnRegla(pcb, c, FALSE, FALSE, FALSE, "contestar", f)
  BY <1>9 DEF EnRegla
<1>11. fds[fd] = c \/ fds[fd] = Cerrado
  BY <1>3, <1>4, <1>5 DEF Conexiones, Conectados, Conectado
<1>12. /\ haciaConsola'[c] # <<>> => haciaConsola'[c] = m
       /\ \A d \in Consolas \ {c} : haciaConsola'[d] = haciaConsola[d]
  <2>1. DOMAIN haciaConsola = Consolas /\ haciaConsola[c] = <<>> /\ Cerrado \notin Consolas
    BY <1>4, <1>6, EjecucionAssumption DEF Tipos, EnSilencio
  <2>2. <<>> \o m = m
    <3>1. UltimaEsDeConsola(pcb)
      BY <1>10 DEF EnRegla, EnEspera
    <3> QED BY <1>1, <1>3, <3>1, LoPedido
  <2>3. CASE fds[fd] # Cerrado /\ ~Terminada(fds[fd])
    <3>1. haciaConsola' = [haciaConsola EXCEPT ![c] = m]
      BY <1>2, <1>11, <2>1, <2>2, <2>3 DEF Enviar
    <3> QED BY <2>1, <3>1
  <2>4. CASE fds[fd] = Cerrado \/ Terminada(fds[fd])
    BY <1>2, <2>1, <2>4 DEF Enviar
  <2> QED BY <2>3, <2>4
<1>13. /\ hilo'[q] = "contestar" /\ \A p \in Pids \ {q} : hilo'[p] = hilo[p]
       /\ 1..pid_actual \subseteq Pids
  BY <1>2, <1>4, NoSeMueve, PidsAlcanzan
<1>14. LoDicho(c, pcb, falta[q])'
  <2>1. haciaKernel'[c] = <<>> /\ consola'[c] # "imprimio"
    BY <1>2, <1>6 DEF EnSilencio
  <2>2. falta'[q] = f
    BY <1>2, <1>8
  <2>3. t # "TECLADO" /\ haciaConsola'[c] # <<>> =>
           haciaConsola'[c] = ValorConCodigo(pcb.registros[obtener_ultima_instruccion(pcb).parametro2],
                                             "PANTALLA")
    BY <1>1, <1>12 DEF obtener_valor_del_registro
  <2> QED BY <1>1, <1>10, <2>1, <2>2, <2>3 DEF LoDicho
<1>15. Propio(q)'
  <2>1. (q \in Elems(cola_new)) = FALSE /\ (q \in Elems(cola_exit)) = FALSE /\ Vuelve(q) = FALSE
    BY <1>3 DEF Vuelve
  <2>2. LoDicho(c, pcbs[q], falta[q])'
    BY <1>1, <1>2, <1>14
  <2>3. f = falta'[q] /\ "contestar" = hilo'[q]
    BY <1>2, <1>8, <1>13
  <2>4. EnRegla(PcbDe(q), c, FALSE, FALSE, FALSE, "contestar", f)
    BY <1>7, <1>10
  <2> QED BY <1>2, <1>3, <1>5, <2>1, <2>2, <2>3, <2>4, PropioQuieto DEF KernelIgual
<1>16. Turno(c)
  <2>1. \A p \in (1..pid_actual) \ {q} : Ajeno(p)
    BY <1>2, <1>13, AjenoQuieto DEF KernelIgual
  <2> QED BY <1>2, <1>3, <1>5, <1>12, <2>1, SuTurno
<1>17. /\ (Acabado(q)' <=> Acabado(q)) /\ (Admitido(q)' <=> Admitido(q))
       /\ Mira(PcbDe(q)', PcbDe(q)) /\ PcbDe(q)'.registros = PcbDe(q).registros
       /\ (q \in Elems(cola_new))' <=> q \in Elems(cola_new)
  <2>1. /\ (Acabado(q)' <=> Acabado(q)) /\ (Admitido(q)' <=> Admitido(q)) /\ PcbDe(q)' = PcbDe(q)
        /\ (q \in Elems(cola_new))' = (q \in Elems(cola_new))
    BY <1>2, PcbsIntactos DEF Intacto, KernelIgual
  <2> QED BY <2>1 DEF Mira
<1>18. TecleadoDe(c)' = TecleadoDe(c) /\ Mantiene(memoria, memoria', q) /\ Datos(memoria')
  BY <1>2 DEF TecleadoDe, Mantiene, InvD
<1> QED BY <1>2, <1>3, <1>5, <1>15, <1>16, <1>17, <1>18, PasoQuieto

-----------------------------------------------------------------------------
(* The PCB goes to the CPU, and it ends *)

LEMMA PasoCalmo ==
    ASSUME InvE, InvM, InvD, InvE', ProgramasNormales, NEW q \in 1..pid_actual, NEW c, c = consolaDe[q],
           UNCHANGED <<pid_actual, consolaDe, tlb, falta, pantalla, consola>>,
           TecleadoDe(c)' = TecleadoDe(c), Turno(c), Datos(memoria'), Propio(q)',
           ProcesoEs(q)' = ProcesoEs(q), MemoriaEs(q, c)' = MemoriaEs(q, c)
    PROVE  Refina
<1>1. c \in Consolas /\ ProcesoDe(c) = ProcesoEs(q) /\ MemoriaDe(c) = MemoriaEs(q, c)
  BY MaquinaDe
<1>2. falta \in [Pids -> BOOLEAN] /\ \A p \in Pids : p > pid_actual => ~falta[p]
  BY DEF InvD
<1>3. q \in 1..pid_actual' /\ consolaDe'[q] = c
  OBVIOUS
<1>4. Claveado(c)
  BY TlbQuieta
<1>5. InvD' /\ Pasado(c)
  BY <1>1, <1>2, <1>3, <1>4, TrasSuPaso
<1>6. ProcesoDe(c)' = ProcesoEs(q)' /\ MemoriaDe(c)' = MemoriaEs(q, c)'
  BY <1>1, <1>3, MaquinaDespues
<1>9. MaqVars' = MaqVars
  <2>1. MemQuieta(c)
    BY <1>1, <1>6 DEF MemQuieta
  <2>2. DichoQuieto(c)
    BY DEF DichoQuieto
  <2> QED BY <1>1, <1>5, <1>6, <2>1, <2>2, MaqQuieta
<1> QED BY <1>5, <1>9 DEF Refina

\* Rajar.
LEMMA RefRajar == ASSUME InvE, InvM, InvD, InvE', ProgramasNormales, Rajar PROVE Refina
<1>0. PICK q : q = Head(cola_exit)
  OBVIOUS
<1>1. /\ cola_exit # <<>> /\ cola_exit' = Tail(cola_exit)
      /\ pcbs' = Restrict(pcbs, DOMAIN pcbs \ {q}) /\ hilo' = hilo /\ memoria' = memoria
      /\ cola_new' = cola_new /\ cpu' = cpu
      /\ UNCHANGED <<pid_actual, consolaDe, tlb, falta, pantalla, consola>>
      /\ haciaKernel' = haciaKernel /\ haciaConsola' = haciaConsola
  BY <1>0 DEF Rajar, historia, deConsolas
<1>2. cola_exit \in Seq(Nat) /\ SinRepetir(cola_exit)
  BY NoSeMueve
<1>3. q \in Elems(cola_exit) /\ Elems(cola_exit') = Elems(cola_exit) \ {q}
  BY <1>0, <1>1, <1>2, Cabeza
<1>4. /\ q \in DOMAIN pcbs /\ q \notin Elems(cola_new) /\ hilo[q] = "ninguno"
      /\ Vive(q) /\ ~EnCpuEsta(q) /\ q \in 1..pid_actual /\ q \in Pids
  BY <1>3, EnSuLugar
<1>5. DOMAIN pcbs' = DOMAIN pcbs \ {q} /\ \A p \in DOMAIN pcbs \ {q} : pcbs'[p] = pcbs[p]
  BY <1>1 DEF Restrict
<1>6. /\ \A p : Vive(p)' <=> Vive(p) /\ p # q
      /\ \A p : Vive(p) /\ p # q => PcbDe(p)' = PcbDe(p)
      /\ \A p : Vuelve(p)' <=> Vuelve(p)
  BY <1>1, <1>4, <1>5 DEF Vive, EnCpuEsta, PcbDe, Vuelve
<1>7. /\ \A p : (p \in Elems(cola_new))' <=> p \in Elems(cola_new)
      /\ \A p : (p \in Elems(cola_exit))' <=> p \in Elems(cola_exit) /\ p # q
  <2>1. Elems(cola_new') = Elems(cola_new)
    BY <1>1
  <2>2. /\ \A p : (p \in Elems(cola_new))' <=> p \in Elems(cola_new')
        /\ \A p : (p \in Elems(cola_exit))' <=> p \in Elems(cola_exit')
    BY DEF Elems
  <2> QED BY <1>3, <2>1, <2>2
<1>8. ASSUME NEW p \in (1..pid_actual) \ {q} PROVE Ajeno(p)
  <2>1. hilo[p] = "contestar" => pcbs'[p] = pcbs[p]
    <3>1. p \in Pids
      BY PidsAlcanzan DEF InvE
    <3>2. hilo[p] = "contestar" => p \in DOMAIN pcbs
      BY <3>1, EnSuLugar
    <3> QED BY <1>5, <3>2
  <2> QED BY <1>1, <1>6, <1>7, <2>1 DEF Ajeno
<1>9. PICK c : c = consolaDe[q]
  OBVIOUS
<1>10. Turno(c)
  BY <1>1, <1>4, <1>8, <1>9, SuTurno
<1>11. ~(Vive(q)') /\ ~(Admitido(q)') /\ Acabado(q)'
  <2>1. ~(Vive(q)')
    BY <1>6
  <2>2. Admitido(q)' => Vive(q)'
    BY DEF Admitido
  <2>3. ~(Vive(q)') => Acabado(q)'
    BY DEF Acabado
  <2> QED BY <2>1, <2>2, <2>3
<1>12. Acabado(q)
  <2>1. Terminado(pcbs[q]) /\ PcbDe(q) = pcbs[q]
    BY <1>3, <1>4 DEF InvE, Pcbs, PcbDe
  <2> QED BY <2>1 DEF Terminado, Acabado
<1>13. ~falta[q]
  BY <1>4, <1>12, FaltaSigue
<1>14. Propio(q)'
  <2>1. Bien(q)'
    BY <1>1, <1>4, <1>11, <1>13 DEF Bien
  <2> QED BY <1>11, <2>1 DEF Propio
<1>15. ProcesoEs(q)' = ProcesoEs(q)
  <2>1. falta'[q] = falta[q] /\ ((q \in Elems(cola_new))' <=> q \in Elems(cola_new))
    BY <1>1, <1>7
  <2> QED BY <1>11, <1>12, <1>13, <2>1, ProcesoQuieto
<1>16. MemoriaEs(q, c)' = MemoriaEs(q, c)
  BY <1>11, <1>12 DEF MemoriaEs
<1>17. TecleadoDe(c)' = TecleadoDe(c) /\ Datos(memoria')
  BY <1>1 DEF TecleadoDe, InvD
<1> QED BY <1>1, <1>4, <1>9, <1>10, <1>14, <1>15, <1>16, <1>17, PasoCalmo

\* Despachar.
LEMMA RefDespachar == ASSUME InvE, InvM, InvD, InvE', ProgramasNormales, Despachar PROVE Refina
<1>0. PICK q : q = Head(cola_ready)
  OBVIOUS
<1>0a. PICK pcb, enviado : pcb = pcbs[q] /\ enviado = [pcb EXCEPT !.estado = "EXEC"]
  OBVIOUS
<1>0b. PICK r : r = PorDispatch(enviado)
  OBVIOUS
<1>1. /\ cpu = Libre /\ cola_ready # <<>>
      /\ cpu' = EnCpu(r) /\ pcbs' = Restrict(pcbs, DOMAIN pcbs \ {q})
      /\ hilo' = hilo /\ memoria' = memoria
      /\ cola_new' = cola_new /\ cola_exit' = cola_exit
      /\ UNCHANGED <<pid_actual, consolaDe, tlb, falta, pantalla, consola>>
      /\ haciaKernel' = haciaKernel /\ haciaConsola' = haciaConsola
  BY <1>0, <1>0a, <1>0b DEF Despachar, PuedeDespachar, historia, deConsolas
<1>2. cola_ready \in Seq(Nat) /\ SinRepetir(cola_ready)
  BY NoSeMueve
<1>3. q \in Elems(cola_ready)
  BY <1>0, <1>1, <1>2, Cabeza
<1>4. /\ q \in DOMAIN pcbs /\ q \notin Elems(cola_new) /\ hilo[q] = "ninguno"
      /\ q \notin Elems(cola_exit) /\ BuenPcb(pcb, q)
      /\ Vive(q) /\ ~EnCpuEsta(q) /\ q \in 1..pid_actual /\ q \in Pids
  BY <1>0a, <1>3, EnSuLugar
<1>5. DOMAIN pcbs' = DOMAIN pcbs \ {q} /\ \A p \in DOMAIN pcbs \ {q} : pcbs'[p] = pcbs[p]
  BY <1>1 DEF Restrict
<1>6. PcbDe(q) = pcb /\ Admitido(q)
  BY <1>0a, <1>4, AdmitidoEs DEF PcbDe
<1>7. BuenPcb(r, q) /\ Trae(r, pcb)
  <2>1. BuenPcb(enviado, q) /\ Trae(enviado, pcb)
    BY <1>0a, <1>4, CambiaEstado, TraeIgual
  <2>2. DeMemoria(enviado, pcb)
    BY <1>0a, <1>4 DEF BuenPcb, CamposPcb, DeMemoria
  <2>3. PcbConMemoria(pcb, q, memoria)
    BY <1>4, <1>6 DEF InvM
  <2>4. PcbConMemoria(enviado, q, memoria)
    BY <2>2, <2>3, DeMemoriaVale
  <2>5. Trae(r, enviado)
    BY <1>0b, <2>1, <2>4, TraeEntero
  <2> QED BY <1>0b, <2>1, <2>5, Viaja, TraeLuego
<1>8. Ejecutable(cpu', q) /\ cpu'.pcb = r /\ (cpu'.estado = "devuelve" => r.program_counter >= Len(r.instrucciones))
  <2>1. Ejecutable(cpu', q) /\ cpu'.pcb = r
    BY <1>1, <1>7, EnCpuEs
  <2>2. r.program_counter \in Nat /\ Len(r.instrucciones) \in Nat
    BY <1>7, DeLista DEF BuenPcb, EsPrograma
  <2> QED BY <1>1, <2>1, <2>2 DEF EnCpu
<1>9. cpu' # Libre /\ cpu'.pcb.pid = q
  BY <1>8 DEF Ejecutable
<1>10. (\A p : EnCpuEsta(p)' <=> p = q) /\ \A p : ~EnCpuEsta(p)
  BY <1>1, <1>9 DEF EnCpuEsta
<1>11. /\ \A p : (p \in Elems(cola_new))' = (p \in Elems(cola_new))
       /\ \A p : (p \in Elems(cola_exit))' = (p \in Elems(cola_exit))
  BY <1>1 DEF Elems
<1>12. /\ \A p : Vive(p)' <=> Vive(p)
       /\ \A p : p # q => (Vuelve(p)' <=> Vuelve(p))
       /\ PcbDe(q)' = r
  BY <1>4, <1>5, <1>8, <1>10 DEF Vive, Vuelve, PcbDe
<1>13. ASSUME NEW p \in (1..pid_actual) \ {q} PROVE Ajeno(p)
  <2>1. hilo[p] = "contestar" => pcbs'[p] = pcbs[p]
    <3>1. p \in Pids
      BY PidsAlcanzan DEF InvE
    <3>2. hilo[p] = "contestar" => p \in DOMAIN pcbs
      BY <3>1, EnSuLugar
    <3> QED BY <1>5, <3>2
  <2>2. Vive(p) => PcbDe(p)' = PcbDe(p)
    <3>1. PcbDe(p)' = pcbs'[p] /\ PcbDe(p) = pcbs[p]
      BY <1>10 DEF PcbDe
    <3> QED BY <1>5, <1>10, <3>1 DEF Vive
  <2> QED BY <1>1, <1>11, <1>12, <2>1, <2>2 DEF Ajeno
<1>14. PICK c \in Consolas : c = consolaDe[q]
  BY <1>4, PidsAlcanzan DEF InvE
<1>15. Turno(c)
  BY <1>1, <1>4, <1>13, <1>14, SuTurno
<1>16. PICK f, h, vuelve : f = falta[q] /\ h = "ninguno" /\ vuelve = Vuelve(q)'
  OBVIOUS
<1>17. EnRegla(pcb, c, FALSE, FALSE, FALSE, h, f) /\ f \in BOOLEAN
  <2>1. Vuelve(q) = FALSE /\ (q \in Elems(cola_new)) = FALSE /\ (q \in Elems(cola_exit)) = FALSE
    BY <1>4 DEF Vuelve
  <2> QED BY <1>4, <1>6, <1>14, <1>16, <2>1, EnReglaDe
<1>18. EnRegla(r, c, FALSE, FALSE, FALSE, h, f)
  BY <1>7, <1>17, TraeLaRegla
<1>19. vuelve => ~EnEspera(r)
  <2>1. ASSUME vuelve, EnEspera(r) PROVE FALSE
    <3>1. r.program_counter >= Len(r.instrucciones)
      BY <1>8, <1>16, <2>1 DEF Vuelve
    <3>2. ProgramaDe(r, c)
      BY <1>18 DEF EnRegla
    <3>3. r.program_counter < Len(r.instrucciones)
      BY <1>7, <2>1, <3>2, EnEsperaSigue
    <3>4. r.program_counter \in Nat /\ Len(r.instrucciones) \in Nat
      BY <1>7, DeLista DEF BuenPcb, EsPrograma
    <3> QED BY <3>1, <3>3, <3>4
  <2> QED BY <2>1
<1>20. EnRegla(r, c, FALSE, FALSE, vuelve, h, f)
  BY <1>16, <1>18, <1>19 DEF EnRegla
<1>21. Bien(q)'
  <2>1. /\ (q \in Elems(cola_new))' = FALSE /\ (q \in Elems(cola_exit))' = FALSE
        /\ c = consolaDe'[q] /\ h = hilo'[q] /\ f = falta'[q] /\ h # "contestar"
    BY <1>1, <1>4, <1>11, <1>14, <1>16
  <2>2. Cuerda(memoria', q)
    BY <1>1, <1>4, CuerdaDe
  <2>3. Vive(q)' /\ r = PcbDe(q)' /\ Vuelve(q)' = vuelve
    BY <1>4, <1>12, <1>16
  <2> QED BY <1>20, <2>1, <2>2, <2>3, BienCon
<1>22. Admitido(q)' <=> Admitido(q)
  <2>1. Admitido(q)' <=> Vive(q)' /\ ~((q \in Elems(cola_new))')
    BY DEF Admitido, Elems
  <2> QED BY <1>4, <1>6, <1>11, <1>12, <2>1
<1>23. Acabado(q)' <=> Acabado(q)
  <2>1. Acabado(q)' <=> ~Vive(q)' \/ PcbDe(q)'.segmentation_fault
                       \/ PcbDe(q)'.program_counter = Len(PcbDe(q)'.instrucciones)
    BY DEF Acabado
  <2>2. Acabado(q) <=> pcb.segmentation_fault \/ pcb.program_counter = Len(pcb.instrucciones)
    BY <1>4, <1>6 DEF Acabado
  <2>3. Acabado(q)' <=> r.segmentation_fault \/ r.program_counter = Len(r.instrucciones)
    BY <1>4, <1>12, <2>1
  <2> QED BY <1>7, <2>2, <2>3 DEF Trae, Mira
<1>24. /\ Mira(PcbDe(q)', PcbDe(q)) /\ PcbDe(q)'.registros = PcbDe(q).registros
       /\ (q \in Elems(cola_new))' <=> q \in Elems(cola_new)
  BY <1>6, <1>7, <1>11, <1>12 DEF Trae
<1>25. Propio(q)'
  <2>1. Propio(q) /\ r = PcbDe(q)' /\ Mira(r, PcbDe(q))
    BY <1>4, <1>12, <1>24, Propios
  <2> QED BY <1>1, <1>21, <1>22, <1>23, <2>1, TlbSigue
<1>26. TecleadoDe(c)' = TecleadoDe(c) /\ Datos(memoria') /\ Mantiene(memoria, memoria', q)
  BY <1>1 DEF TecleadoDe, InvD, Mantiene
<1> QED BY <1>1, <1>4, <1>14, <1>15, <1>22, <1>23, <1>24, <1>25, <1>26, PasoQuieto

-----------------------------------------------------------------------------
(* A console that has a process reads, prints, answers and dies *)

\* The other consoles say nothing.
LosDemas(c) ==
    \A d \in Consolas \ {c} :
        /\ haciaKernel'[d] = haciaKernel[d] /\ haciaConsola'[d] = haciaConsola[d]
        /\ pantalla'[d] = pantalla[d]
        /\ (consola'[d] = "muerta" <=> consola[d] = "muerta")
        /\ (consola'[d] = "imprimio" <=> consola[d] = "imprimio")

\* The process of the console is where it was; its instruction may have had its effect.
LEMMA AlDecir ==
    ASSUME InvE, InvM, InvD, InvE', ProgramasNormales, KernelIgual,
           UNCHANGED <<pid_actual, consolaDe, memoria, tlb, hilo>>,
           NEW q \in 1..pid_actual, NEW c, c = consolaDe[q], LosDemas(c),
           falta' \in [Pids -> BOOLEAN], \A p \in Pids \ {q} : falta'[p] = falta[p],
           falta'[q] => falta[q], falta'[q] = falta[q] \/ hilo[q] = "contestar",
           hilo[q] = "contestar" => LoDicho(c, pcbs[q], falta[q])'
    PROVE  /\ InvD' /\ Pasado(c) /\ c \in Consolas /\ MemQuieta(c)
           /\ ProcesoDe(c) = ProcesoEs(q) /\ ProcesoDe(c)' = ProcesoEs(q)'
           /\ PcbDe(q)' = PcbDe(q) /\ (Acabado(q)' <=> Acabado(q))
           /\ (q \in Elems(cola_new))' <=> q \in Elems(cola_new)
<1>1. Intacto(q) /\ Tipos /\ q \in Pids /\ 1..pid_actual \subseteq Pids
  BY PcbsIntactos, PidsAlcanzan DEF InvE
<1>2. PICK nuevo, fin, vuelve, h, f, viejo :
          /\ nuevo = (q \in Elems(cola_new)) /\ fin = (q \in Elems(cola_exit)) /\ vuelve = Vuelve(q)
          /\ h = hilo'[q] /\ f = falta'[q] /\ viejo = falta[q]
  OBVIOUS
<1>3. h = hilo[q] /\ f \in BOOLEAN /\ viejo \in BOOLEAN /\ (f => viejo) /\ (f = viejo \/ h = "contestar")
  BY <1>1, <1>2 DEF InvD
<1>4. Bien(q)
  BY DEF InvD
<1>5. PICK pcb : pcb = PcbDe(q)
  OBVIOUS
<1>6. Vive(q) => EnRegla(pcb, c, nuevo, fin, vuelve, h, f)
  <2>1. ASSUME Vive(q) PROVE EnRegla(pcb, c, nuevo, fin, vuelve, h, f)
    <3>1. EnRegla(pcb, c, nuevo, fin, vuelve, h, viejo)
      <4>1. h = hilo[q] /\ viejo = falta[q] /\ (q \in Elems(cola_new)) = nuevo
            /\ (q \in Elems(cola_exit)) = fin /\ Vuelve(q) = vuelve
        BY <1>2, <1>3
      <4> QED BY <1>5, <2>1, <4>1, EnReglaDe
    <3>2. h = "contestar" => vuelve = FALSE
      <4>1. h = "contestar" => q \in DOMAIN pcbs
        BY <1>1, <1>3, EnSuLugar
      <4>2. q \in DOMAIN pcbs => ~EnCpuEsta(q)
        BY EnSuLugar
      <4>3. h = "contestar" => ~EnCpuEsta(q)
        BY <4>1, <4>2
      <4>4. ~EnCpuEsta(q) => Vuelve(q) = FALSE
        BY DEF Vuelve
      <4> QED BY <1>2, <4>3, <4>4
    <3> HIDE DEF EnRegla
    <3>3. CASE f = viejo
      BY <3>1, <3>3
    <3>4. CASE f # viejo
      <4>1. f = FALSE /\ h = "contestar" /\ vuelve = FALSE
        BY <1>3, <3>2, <3>4
      <4> QED BY <3>1, <4>1 DEF EnRegla
    <3> QED BY <3>3, <3>4
  <2> QED BY <2>1
<1>7. f => Vive(q)
  BY <1>2, <1>3, <1>4 DEF Bien
<1>8. Propio(q)'
  <2>1. h = "contestar" => LoDicho(c, pcbs[q], falta[q])'
    BY <1>3
  <2>2. Vive(q) => EnRegla(PcbDe(q), c, nuevo, fin, vuelve, h, f)
    BY <1>5, <1>6
  <2>3. /\ (q \in Elems(cola_new)) = nuevo /\ (q \in Elems(cola_exit)) = fin /\ Vuelve(q) = vuelve
        /\ h = hilo'[q] /\ f = falta'[q]
    BY <1>2
  <2> QED BY <1>7, <2>1, <2>2, <2>3, PropioQuieto
<1>9. Turno(c)
  <2>1. ASSUME NEW p \in (1..pid_actual) \ {q} PROVE Ajeno(p)
    <3>1. hilo'[p] = hilo[p] /\ falta'[p] = falta[p]
      BY <1>1
    <3> QED BY <3>1, AjenoQuieto
  <2> QED BY <2>1, SuTurno DEF LosDemas
<1>10. c \in Consolas /\ ProcesoDe(c) = ProcesoEs(q) /\ MemoriaDe(c) = MemoriaEs(q, c)
  BY MaquinaDe
<1>11. InvD' /\ Pasado(c)
  <2>1. \A p \in Pids : p > pid_actual' => ~falta'[p]
    <3>1. \A p \in Pids : p > pid_actual => ~falta[p] /\ p # q
      <4>1. pid_actual \in Nat
        BY <1>1 DEF Tipos
      <4> QED BY <4>1 DEF InvD
    <3> QED BY <3>1
  <2>2. Claveado(c) /\ Datos(memoria')
    BY TlbQuieta DEF InvD
  <2>3. q \in 1..pid_actual' /\ consolaDe'[q] = c
    OBVIOUS
  <2> QED BY <1>8, <1>9, <1>10, <2>1, <2>2, <2>3, TrasSuPaso
<1>12. ProcesoDe(c)' = ProcesoEs(q)' /\ MemoriaDe(c)' = MemoriaEs(q, c)'
  <2>1. q \in 1..pid_actual' /\ consolaDe'[q] = c
    OBVIOUS
  <2> QED BY <1>10, <2>1, MaquinaDespues
<1>13. /\ (Admitido(q)' <=> Admitido(q)) /\ (Acabado(q)' <=> Acabado(q)) /\ PcbDe(q)' = PcbDe(q)
       /\ (q \in Elems(cola_new))' <=> q \in Elems(cola_new)
  BY <1>1 DEF Intacto
<1>14. MemoriaEs(q, c)' = MemoriaEs(q, c)
  BY <1>13 DEF MemoriaEs
<1> QED BY <1>10, <1>11, <1>12, <1>13, <1>14 DEF MemQuieta

\* The process whose instruction of its console has not had its effect is at it.
LEMMA EnSuInstruccion ==
    ASSUME InvE, InvD, ProgramasNormales, NEW q \in 1..pid_actual, NEW c, c = consolaDe[q],
           falta[q], NEW pcb, pcb = PcbDe(q)
    PROVE  /\ ProcesoEs(q) = [estado |-> "corre", programa |-> Traduccion(pcb.instrucciones),
                              pc |-> pcb.program_counter, registros |-> pcb.registros]
           /\ Traduccion(pcb.instrucciones)[pcb.program_counter] =
                 [op |-> obtener_ultima_instruccion(pcb).parametro1,
                  r |-> obtener_ultima_instruccion(pcb).parametro2]
           /\ obtener_ultima_instruccion(pcb).parametro1 \in {"TECLADO", "PANTALLA"}
           /\ EnEspera(pcb) /\ Vive(q) /\ ~Acabado(q) /\ BuenPcb(pcb, q) /\ q \notin Elems(cola_new)
<1>1. Vive(q) /\ ~Acabado(q)
  BY FaltaSigue
<1>2. BuenPcb(pcb, q) /\ c \in Consolas
  BY <1>1, Vivos, PidsAlcanzan DEF InvE
<1>3. Bien(q)
  BY DEF InvD
<1>4. ProgramaDe(pcb, c) /\ EnEspera(pcb)
  BY <1>1, <1>3 DEF Bien, EnRegla
<1>5. pcb.program_counter \in DOMAIN pcb.instrucciones /\ EsDeConsola(pcb.instrucciones[pcb.program_counter])
  BY <1>2, <1>4, EnEsperaSigue
<1>6. PICK i : i = pcb.instrucciones[pcb.program_counter]
  OBVIOUS
<1>7. i = obtener_ultima_instruccion(pcb)
  BY <1>6 DEF obtener_ultima_instruccion
<1>8. Traducir(i) = [op |-> i.parametro1, r |-> i.parametro2] /\ i.parametro1 \in {"TECLADO", "PANTALLA"}
  BY <1>5, <1>6 DEF Traducir, EsDeConsola
<1>9. Traduccion(pcb.instrucciones)[pcb.program_counter] = Traducir(i)
  BY <1>5, <1>6 DEF Traduccion
<1>10. pcb.program_counter + 0 = pcb.program_counter
  BY <1>2, DeLista DEF BuenPcb, EsPrograma
<1>11. q \notin Elems(cola_new)
  <2>1. q \in Elems(cola_new) => pcb.program_counter = 0
    BY <1>1, <1>3 DEF Bien, EnRegla
  <2> QED BY <1>2, <1>5, <2>1, DeLista DEF BuenPcb, EsPrograma
<1>12. ProcesoEs(q) = [estado |-> "corre", programa |-> Traduccion(pcb.instrucciones),
                       pc |-> pcb.program_counter, registros |-> pcb.registros]
  BY <1>1, <1>10, <1>11 DEF ProcesoEs
<1> QED BY <1>1, <1>2, <1>4, <1>7, <1>8, <1>9, <1>11, <1>12

\* What the machine does not notice.
LEMMA SinNovedad ==
    ASSUME InvE, InvM, InvD, InvE', ProgramasNormales, KernelIgual,
           UNCHANGED <<pid_actual, consolaDe, memoria, tlb, hilo, falta, pantalla>>,
           NEW q \in 1..pid_actual, NEW c, c = consolaDe[q], LosDemas(c),
           hilo[q] = "contestar" => LoDicho(c, pcbs[q], falta[q])',
           TecleadoDe(c)' = TecleadoDe(c), (consola'[c] # "muerta") = (consola[c] # "muerta")
    PROVE  Refina
<1>1. falta' \in [Pids -> BOOLEAN]
  BY DEF InvD
<1>2. /\ InvD' /\ Pasado(c) /\ c \in Consolas /\ MemQuieta(c)
      /\ ProcesoDe(c) = ProcesoEs(q) /\ ProcesoDe(c)' = ProcesoEs(q)'
      /\ PcbDe(q)' = PcbDe(q) /\ (Acabado(q)' <=> Acabado(q))
      /\ (q \in Elems(cola_new))' <=> q \in Elems(cola_new)
  BY <1>1, AlDecir
<1>3. ProcesoEs(q)' = ProcesoEs(q)
  BY <1>2, FaltaSigue, ProcesoQuieto
<1>4. DichoQuieto(c)
  BY DEF DichoQuieto
<1>5. MaqVars' = MaqVars
  BY <1>2, <1>3, <1>4, MaqQuieta
<1> QED BY <1>2, <1>5 DEF Refina

-----------------------------------------------------------------------------
(* The steps of a console *)

\* A console without a process.
LEMMA PasoSinNadie ==
    ASSUME InvE, InvM, InvD, InvE', ProgramasNormales, NEW c \in Consolas,
           \A p \in 1..pid_actual : consolaDe[p] # c,
           KernelIgual, UNCHANGED <<pid_actual, consolaDe, memoria, tlb, hilo, falta>>, LosDemas(c)
    PROVE  /\ InvD' /\ Pasado(c) /\ MemQuieta(c)
           /\ ProcesoDe(c) = [estado |-> "nada"] /\ ProcesoDe(c)' = ProcesoDe(c)
<1>1. pid_actual \in Nat
  BY DEF InvE, Tipos
<1>2. Turno(c)
  <2>1. ASSUME NEW p \in 1..pid_actual
        PROVE  Ajeno(p) /\ (Cuerda(memoria, p) => Queda(memoria, memoria', p))
    <3>1. Ajeno(p)
      BY AjenoQuieto
    <3>2. Cuerda(memoria, p) => Queda(memoria, memoria', p)
      BY DEF Queda, Mantiene
    <3> QED BY <3>1, <3>2
  <2> QED BY <1>1, <2>1 DEF Turno, LosDemas
<1>3. InvD'
  <2>1. Claveado(c) /\ Datos(memoria')
    BY TlbQuieta DEF InvD
  <2>2. /\ falta' \in [Pids -> BOOLEAN] /\ \A p \in Pids : p > pid_actual' => ~falta'[p]
        /\ \A p \in 1..pid_actual' : consolaDe'[p] # c
    BY DEF InvD
  <2> QED BY <1>2, <2>1, <2>2, InvDTras
<1>4. Pasado(c)
  BY <1>2, Pasa
<1>5. ProcesoDe(c) = [estado |-> "nada"] /\ MemoriaDe(c) = SinMemoria(c)
  BY LaMaquinaEs DEF LaMaquina
<1>6. ProcesoDe(c)' = [estado |-> "nada"] /\ MemoriaDe(c)' = SinMemoria(c)'
  <2>1. \A p \in 1..pid_actual' : consolaDe'[p] # c
    OBVIOUS
  <2> QED BY <2>1, LaMaquinaLuego DEF LaMaquina
<1>7. SinMemoria(c)' = SinMemoria(c)
  BY DEF SinMemoria
<1> QED BY <1>3, <1>4, <1>5, <1>6, <1>7 DEF MemQuieta

LEMMA NadieQuieto ==
    ASSUME InvE, InvM, InvD, InvE', ProgramasNormales, NEW c \in Consolas,
           \A p \in 1..pid_actual : consolaDe[p] # c,
           KernelIgual, UNCHANGED <<pid_actual, consolaDe, memoria, tlb, hilo, falta, pantalla>>,
           LosDemas(c), TecleadoDe(c)' = TecleadoDe(c),
           (consola'[c] # "muerta") = (consola[c] # "muerta")
    PROVE  Refina
<1>1. InvD' /\ Pasado(c) /\ MemQuieta(c) /\ ProcesoDe(c)' = ProcesoDe(c)
  BY PasoSinNadie
<1>2. DichoQuieto(c)
  BY DEF DichoQuieto
<1>3. MaqVars' = MaqVars
  BY <1>1, <1>2, MaqQuieta
<1> QED BY <1>1, <1>3 DEF Refina

\* The variables of a console at its place.
LEMMA SusVariables ==
    ASSUME InvE, NEW c \in Consolas
    PROVE  /\ \A x : consola' = [consola EXCEPT ![c] = x] =>
                  consola'[c] = x /\ \A d \in Consolas \ {c} : consola'[d] = consola[d]
           /\ \A x : haciaKernel' = [haciaKernel EXCEPT ![c] = x] =>
                  haciaKernel'[c] = x /\ \A d \in Consolas \ {c} : haciaKernel'[d] = haciaKernel[d]
           /\ \A x : haciaConsola' = [haciaConsola EXCEPT ![c] = x] =>
                  haciaConsola'[c] = x /\ \A d \in Consolas \ {c} : haciaConsola'[d] = haciaConsola[d]
BY DEF InvE, Tipos

\* ContestarPantalla.
LEMMA RefContestarPantalla ==
    ASSUME InvE, InvM, InvD, InvE', ProgramasNormales, NEW c \in Consolas, ContestarPantalla(c)
    PROVE  Refina
<1>1. /\ consola[c] = "imprimio" /\ KernelIgual
      /\ UNCHANGED <<pid_actual, consolaDe, memoria, tlb, hilo, falta, pantalla>>
      /\ haciaConsola' = haciaConsola /\ consola' = [consola EXCEPT ![c] = "atiende"]
      /\ AlKernel(c, Codigo("OKI_PANTALLA"))
  BY DEF ContestarPantalla, historia, deKernel, colas, KernelIgual
<1>2. c \in Elems(consolaDe)
  BY <1>1, SegunTrato DEF SinProceso
<1>3. PICK q \in 1..pid_actual : consolaDe[q] = c
  BY <1>2, ProcesosDe DEF InvE
<1>4. PICK t : t = obtener_ultima_instruccion(pcbs[q]).parametro1
  OBVIOUS
<1>5. hilo[q] = "contestar" /\ EnDialogo(c, t)
  BY <1>1, <1>3, <1>4, SegunTrato DEF EnSilencio, Despedida
<1>6. haciaKernel[c] = <<>> /\ haciaConsola[c] = <<>> /\ t # "TECLADO"
  BY <1>1, <1>5 DEF EnDialogo
<1>7. haciaKernel' = [haciaKernel EXCEPT ![c] = Codigo("OKI_PANTALLA")]
  <2>1. <<>> \o Codigo("OKI_PANTALLA") = Codigo("OKI_PANTALLA")
    BY CodigoSolo
  <2> QED BY <1>1, <1>6, <2>1 DEF AlKernel
<1>8. LosDemas(c) /\ consola'[c] = "atiende" /\ haciaKernel'[c] = Codigo("OKI_PANTALLA")
  <2>1. /\ consola'[c] = "atiende" /\ \A d \in Consolas \ {c} : consola'[d] = consola[d]
    BY <1>1, SusVariables
  <2>2. /\ haciaKernel'[c] = Codigo("OKI_PANTALLA")
        /\ \A d \in Consolas \ {c} : haciaKernel'[d] = haciaKernel[d]
    BY <1>7, SusVariables
  <2> QED BY <1>1, <2>1, <2>2 DEF LosDemas
<1>9. TecleadoDe(c)' = TecleadoDe(c)
  <2>1. TecleadoDe(c) = <<>>
    BY <1>6 DEF TecleadoDe
  <2>2. Operacion(Codigo("OKI_PANTALLA")) = "OKI_PANTALLA"
    BY CodigoSolo
  <2>3. TecleadoDe(c)' = <<>>
    BY <1>8, <2>2 DEF TecleadoDe
  <2> QED BY <2>1, <2>3
<1>10. LoDicho(c, pcbs[q], falta[q])'
  <2>1. LoDicho(c, pcbs[q], falta[q])
    BY <1>3, <1>5 DEF InvD, Bien
  <2>2. ~falta[q]
    BY <1>1, <1>4, <1>6, <2>1 DEF LoDicho
  <2>3. pcbs'[q] = pcbs[q] /\ falta'[q] = falta[q] /\ haciaConsola'[c] = <<>>
    BY <1>1, <1>6 DEF KernelIgual
  <2> QED BY <1>4, <1>6, <2>2, <2>3 DEF LoDicho
<1>11. (consola'[c] # "muerta") = (consola[c] # "muerta")
  BY <1>1, <1>8
<1> QED BY <1>1, <1>3, <1>8, <1>9, <1>10, <1>11, SinNovedad

\* Sigint: the user leaves.
LEMMA RefMorir ==
    ASSUME InvE, InvM, InvD, InvE', ProgramasNormales, NEW c \in Consolas, Sigint(c) PROVE Refina
<1>1. /\ c \in Interrumpibles /\ consola[c] \in {"conectada", "atiende", "imprimio"} /\ KernelIgual
      /\ UNCHANGED <<pid_actual, consolaDe, memoria, tlb, hilo, falta, pantalla>>
      /\ haciaKernel' = haciaKernel /\ consola' = [consola EXCEPT ![c] = "muerta"]
      /\ haciaConsola' = [haciaConsola EXCEPT ![c] = <<>>]
  BY DEF Sigint, historia, deKernel, colas, KernelIgual
<1>2. LosDemas(c) /\ consola'[c] = "muerta" /\ haciaConsola'[c] = <<>>
  <2>1. /\ consola'[c] = "muerta" /\ \A d \in Consolas \ {c} : consola'[d] = consola[d]
    BY <1>1, SusVariables
  <2>2. /\ haciaConsola'[c] = <<>> /\ \A d \in Consolas \ {c} : haciaConsola'[d] = haciaConsola[d]
    BY <1>1, SusVariables
  <2> QED BY <1>1, <2>1, <2>2 DEF LosDemas
<1>3. TecleadoDe(c)' = TecleadoDe(c)
  BY <1>1 DEF TecleadoDe
<1>4. InvD' /\ Pasado(c) /\ MemQuieta(c) /\ ProcesoDe(c)' = ProcesoDe(c)
  <2>1. CASE \A p \in 1..pid_actual : consolaDe[p] # c
    <3>1. UNCHANGED <<pid_actual, consolaDe, memoria, tlb, hilo, falta>>
      BY <1>1
    <3> QED BY <1>1, <1>2, <2>1, <3>1, PasoSinNadie
  <2>2. CASE ~\A p \in 1..pid_actual : consolaDe[p] # c
    <3>1. PICK q \in 1..pid_actual : consolaDe[q] = c
      BY <2>2
    <3>2. hilo[q] = "contestar" => LoDicho(c, pcbs[q], falta[q])'
      <4>1. ASSUME hilo[q] = "contestar" PROVE LoDicho(c, pcbs[q], falta[q])'
        <5>1. LoDicho(c, pcbs[q], falta[q])
          BY <3>1, <4>1 DEF InvD, Bien
        <5>2. /\ pcbs'[q] = pcbs[q] /\ falta'[q] = falta[q] /\ haciaKernel'[c] = haciaKernel[c]
          BY <1>1 DEF KernelIgual
        <5> QED BY <1>2, <5>1, <5>2 DEF LoDicho
      <4> QED BY <4>1
    <3>3. falta' \in [Pids -> BOOLEAN] /\ falta' = falta
      BY <1>1 DEF InvD
    <3>4. UNCHANGED <<pid_actual, consolaDe, memoria, tlb, hilo>>
      BY <1>1
    <3>5. /\ InvD' /\ Pasado(c) /\ c \in Consolas /\ MemQuieta(c)
          /\ ProcesoDe(c) = ProcesoEs(q) /\ ProcesoDe(c)' = ProcesoEs(q)'
          /\ PcbDe(q)' = PcbDe(q) /\ (Acabado(q)' <=> Acabado(q))
          /\ (q \in Elems(cola_new))' <=> q \in Elems(cola_new)
      BY <1>1, <1>2, <3>1, <3>2, <3>3, <3>4, AlDecir
    <3>6. ProcesoEs(q)' = ProcesoEs(q)
      BY <3>3, <3>5, FaltaSigue, ProcesoQuieto
    <3> QED BY <3>5, <3>6
  <2> QED BY <2>1, <2>2
<1>5. Maq!Next
  BY <1>1, <1>2, <1>3, <1>4, MaqSeVa
<1> QED BY <1>4, <1>5 DEF Refina

\* Atender: the console is told that its process ended.
LEMMA RefAtenderFin ==
    ASSUME InvE, InvM, InvD, InvE', ProgramasNormales, NEW c \in Consolas, Atender(c),
           NEW q \in 1..pid_actual, consolaDe[q] = c, Acabo(q)
    PROVE  Refina
<1>1. /\ consola[c] = "atiende" /\ haciaConsola[c] # <<>> /\ KernelIgual
      /\ UNCHANGED <<pid_actual, consolaDe, memoria, tlb, hilo>>
  BY DEF Atender, PuedeAtender, deKernel, colas, KernelIgual
<1>2. haciaConsola[c] = Codigo("FINALIZAR")
  BY <1>1, SegunTrato DEF Despedida
<1>3. Operacion(haciaConsola[c]) = "FINALIZAR" /\ TrasOperacion(haciaConsola[c]) = <<>>
  BY <1>2, CodigoSolo
<1>4. /\ consola' = [consola EXCEPT ![c] = "fin"]
      /\ haciaConsola' = [haciaConsola EXCEPT ![c] = <<>>]
      /\ UNCHANGED <<haciaKernel, pantalla, falta>>
  BY <1>3 DEF Atender
<1>5. LosDemas(c) /\ consola'[c] = "fin"
  <2>1. consola'[c] = "fin" /\ \A d \in Consolas \ {c} : consola'[d] = consola[d]
    BY <1>4, SusVariables
  <2>2. \A d \in Consolas \ {c} : haciaConsola'[d] = haciaConsola[d]
    BY <1>4, SusVariables
  <2> QED BY <1>4, <2>1, <2>2 DEF LosDemas
<1>6. hilo[q] # "contestar"
  <2>1. q \in Pids /\ Tipos
    BY PidsAlcanzan DEF InvE
  <2>2. hilo[q] # "ninguno" => q \in DOMAIN pcbs /\ q \notin Elems(cola_exit)
    BY <2>1, EnSuLugar
  <2>3. q \in DOMAIN pcbs => Vive(q)
    BY EnSuLugar
  <2> QED BY <2>2, <2>3 DEF Acabo
<1>7. TecleadoDe(c)' = TecleadoDe(c)
  BY <1>4 DEF TecleadoDe
<1>8. UNCHANGED <<pid_actual, consolaDe, memoria, tlb, hilo, falta, pantalla>>
  BY <1>1, <1>4
<1>9. (consola'[c] # "muerta") = (consola[c] # "muerta")
  BY <1>1, <1>5
<1> QED BY <1>1, <1>5, <1>6, <1>7, <1>8, <1>9, SinNovedad

\* The user types.
LEMMA RefAtenderTeclado ==
    ASSUME InvE, InvM, InvD, InvE', ProgramasNormales, NEW c \in Consolas, Atender(c),
           NEW q \in 1..pid_actual, consolaDe[q] = c, hilo[q] = "contestar",
           NEW t, t = obtener_ultima_instruccion(pcbs[q]).parametro1, EnDialogo(c, t), t = "TECLADO"
    PROVE  Refina
<1>1. /\ consola[c] = "atiende" /\ haciaConsola[c] # <<>> /\ KernelIgual
      /\ UNCHANGED <<pid_actual, consolaDe, memoria, tlb, hilo>>
  BY DEF Atender, PuedeAtender, deKernel, colas, KernelIgual
<1>2. haciaConsola[c] = Codigo("TECLADO") /\ haciaKernel[c] = <<>>
  BY <1>1 DEF EnDialogo, Pedido
<1>3. Operacion(haciaConsola[c]) = "TECLADO" /\ TrasOperacion(haciaConsola[c]) = <<>>
  BY <1>2, CodigoSolo
<1>4. PICK v \in Teclas : /\ AlKernel(c, ValorConCodigo(v, "OKI_TECLADO"))
                          /\ haciaConsola' = [haciaConsola EXCEPT ![c] = <<>>]
                          /\ UNCHANGED <<consola, pantalla, falta>>
  BY <1>3 DEF Atender
<1>5. PICK k : k = ValorConCodigo(v, "OKI_TECLADO")
  OBVIOUS
<1>6. v \in Int /\ ConSigno(v) = v
  BY NumeroEntero, EjecucionAssumption
<1>7. <<>> \o k = k /\ k # <<>> /\ Operacion(k) = "OKI_TECLADO" /\ Valor(Buffer(k)) = v
  BY <1>5, <1>6, ValorSolo, ValorLeido
<1>8. haciaKernel' = [haciaKernel EXCEPT ![c] = k]
  BY <1>2, <1>4, <1>5, <1>7 DEF AlKernel
<1>9. LosDemas(c) /\ haciaKernel'[c] = k /\ haciaConsola'[c] = <<>>
  <2>1. haciaKernel'[c] = k /\ \A d \in Consolas \ {c} : haciaKernel'[d] = haciaKernel[d]
    BY <1>8, SusVariables
  <2>2. haciaConsola'[c] = <<>> /\ \A d \in Consolas \ {c} : haciaConsola'[d] = haciaConsola[d]
    BY <1>4, SusVariables
  <2> QED BY <1>4, <2>1, <2>2 DEF LosDemas
<1>10. q \in Pids /\ Tipos
  BY PidsAlcanzan DEF InvE
<1>11. falta[q] /\ LoDicho(c, pcbs[q], falta[q])'
  <2>1. LoDicho(c, pcbs[q], falta[q])
    BY DEF InvD, Bien
  <2>2. falta[q]
    BY <2>1 DEF LoDicho
  <2>3. pcbs'[q] = pcbs[q] /\ falta'[q] = falta[q]
    BY <1>1, <1>4 DEF KernelIgual
  <2> QED BY <1>5, <1>9, <2>2, <2>3 DEF LoDicho
<1>12. PICK pcb : pcb = PcbDe(q)
  OBVIOUS
<1>13. pcb = pcbs[q]
  <2>1. q \in DOMAIN pcbs
    BY <1>10, EnSuLugar
  <2>2. ~EnCpuEsta(q)
    BY <2>1, EnSuLugar
  <2> QED BY <1>12, <2>2 DEF PcbDe
<1>14. falta' \in [Pids -> BOOLEAN] /\ falta' = falta
  BY <1>4 DEF InvD
<1>15. /\ InvD' /\ Pasado(c) /\ c \in Consolas /\ MemQuieta(c)
       /\ ProcesoDe(c) = ProcesoEs(q) /\ ProcesoDe(c)' = ProcesoEs(q)'
       /\ PcbDe(q)' = PcbDe(q) /\ (Acabado(q)' <=> Acabado(q))
       /\ (q \in Elems(cola_new))' <=> q \in Elems(cola_new)
  BY <1>1, <1>9, <1>11, <1>14, AlDecir
<1>16. ProcesoDe(c)' = ProcesoDe(c)
  <2>1. ProcesoEs(q)' = ProcesoEs(q)
    BY <1>14, <1>15, FaltaSigue, ProcesoQuieto
  <2> QED BY <1>15, <2>1
<1>17. PICK L, n, R : L = Traduccion(pcb.instrucciones) /\ n = pcb.program_counter /\ R = pcb.registros
  OBVIOUS
<1>18. EnMarcha(c, L, n, R) /\ L[n].op = "TECLADO"
  <2>1. /\ ProcesoEs(q) = [estado |-> "corre", programa |-> L, pc |-> n, registros |-> R]
        /\ L[n] = [op |-> t, r |-> obtener_ultima_instruccion(pcb).parametro2]
    BY <1>11, <1>12, <1>13, <1>17, EnSuInstruccion
  <2>2. L[n].op = "TECLADO"
    BY <2>1
  <2> QED BY <1>15, <2>1, <2>2 DEF EnMarcha
<1>19. TecleadoDe(c) = <<>> /\ TecleadoDe(c)' = <<v>>
  <2>1. TecleadoDe(c) = <<>>
    BY <1>2 DEF TecleadoDe
  <2>2. TecleadoDe(c)' = <<v>>
    BY <1>7, <1>9 DEF TecleadoDe
  <2> QED BY <2>1, <2>2
<1>20. consola[c] # "muerta" /\ consola'[c] # "muerta" /\ pantalla' = pantalla
  BY <1>1, <1>4
<1>21. Maq!Next
  BY <1>15, <1>16, <1>18, <1>19, <1>20, MaqTeclea
<1> QED BY <1>15, <1>21 DEF Refina

\* The console prints.
LEMMA RefAtenderPantalla ==
    ASSUME InvE, InvM, InvD, InvE', ProgramasNormales, NEW c \in Consolas, Atender(c),
           NEW q \in 1..pid_actual, consolaDe[q] = c, hilo[q] = "contestar",
           NEW t, t = obtener_ultima_instruccion(pcbs[q]).parametro1, EnDialogo(c, t), t # "TECLADO"
    PROVE  Refina
<1>1. /\ consola[c] = "atiende" /\ haciaConsola[c] # <<>> /\ KernelIgual
      /\ UNCHANGED <<pid_actual, consolaDe, memoria, tlb, hilo>>
  BY DEF Atender, PuedeAtender, deKernel, colas, KernelIgual
<1>2. q \in Pids /\ Tipos
  BY PidsAlcanzan DEF InvE
<1>3. PICK pcb : pcb = PcbDe(q)
  OBVIOUS
<1>4. pcb = pcbs[q]
  <2>1. q \in DOMAIN pcbs
    BY <1>2, EnSuLugar
  <2>2. ~EnCpuEsta(q)
    BY <2>1, EnSuLugar
  <2> QED BY <1>3, <2>2 DEF PcbDe
<1>5. PICK r : r = obtener_ultima_instruccion(pcb).parametro2
  OBVIOUS
<1>6. falta[q] /\ haciaConsola[c] = ValorConCodigo(pcb.registros[r], "PANTALLA") /\ haciaKernel[c] = <<>>
  <2>1. LoDicho(c, pcbs[q], falta[q])
    BY DEF InvD, Bien
  <2>2. haciaKernel[c] = <<>>
    BY <1>1 DEF EnDialogo
  <2> QED BY <1>1, <1>4, <1>5, <2>1, <2>2 DEF LoDicho
<1>7. PICK L, n, R : L = Traduccion(pcb.instrucciones) /\ n = pcb.program_counter /\ R = pcb.registros
  OBVIOUS
<1>8. /\ ProcesoEs(q) = [estado |-> "corre", programa |-> L, pc |-> n, registros |-> R]
      /\ L[n] = [op |-> t, r |-> r] /\ t \in {"TECLADO", "PANTALLA"}
      /\ EnEspera(pcb) /\ Vive(q) /\ ~Acabado(q) /\ BuenPcb(pcb, q) /\ q \notin Elems(cola_new)
  BY <1>3, <1>4, <1>5, <1>6, <1>7, EnSuInstruccion
<1>9. r \in NombresRegistros /\ R[r] \in 0..(Modulo - 1) /\ R[r] \in Int
  <2>1. PICK j : j = pcb.program_counter
    OBVIOUS
  <2>2. j \in DOMAIN pcb.instrucciones
    <3>1. ProgramaDe(pcb, c)
      BY <1>3, <1>8 DEF InvD, Bien, EnRegla
    <3> QED BY <1>8, <2>1, <3>1, EnEsperaSigue
  <2>3. EsI(pcb.instrucciones[j]) /\ EsDeConsola(pcb.instrucciones[j])
    BY <1>8, <2>1, <2>2 DEF BuenPcb, EsPrograma, EnEspera, UltimaEsDeConsola, obtener_ultima_instruccion
  <2>4. pcb.instrucciones[j].parametro1 = "PANTALLA" /\ pcb.instrucciones[j].parametro2 = r
    BY <1>4, <1>5, <1>8, <2>1 DEF obtener_ultima_instruccion
  <2>5. r \in NombresRegistros
    BY <2>3, <2>4 DEF EsI, EsDeConsola
  <2>6. R \in [NombresRegistros -> 0..(Modulo - 1)]
    BY <1>7, <1>8 DEF BuenPcb
  <2> QED BY <2>5, <2>6, ModuloAssumption
<1>10. PICK m : m = ValorConCodigo(R[r], "PANTALLA")
  OBVIOUS
<1>11. haciaConsola[c] = m /\ Operacion(m) = "PANTALLA" /\ TrasPaquete(m) = <<>>
       /\ Valor(Buffer(m)) = ConSigno(R[r])
  BY <1>6, <1>7, <1>9, <1>10, ValorSolo, ValorLeido
<1>12. /\ pantalla' = [pantalla EXCEPT ![c] = Append(@, Valor(Buffer(m)))]
       /\ falta' = [p \in Pids |-> falta[p] /\ p \notin {x \in DOMAIN consolaDe : consolaDe[x] = c}]
       /\ haciaConsola' = [haciaConsola EXCEPT ![c] = <<>>]
       /\ consola' = [consola EXCEPT ![c] = "imprimio"]
       /\ haciaKernel' = haciaKernel
  BY <1>11 DEF Atender
<1>13. LosDemas(c) /\ consola'[c] = "imprimio" /\ haciaConsola'[c] = <<>>
  <2>1. consola'[c] = "imprimio" /\ \A d \in Consolas \ {c} : consola'[d] = consola[d]
    BY <1>12, SusVariables
  <2>2. haciaConsola'[c] = <<>> /\ \A d \in Consolas \ {c} : haciaConsola'[d] = haciaConsola[d]
    BY <1>12, SusVariables
  <2>3. \A d \in Consolas \ {c} : pantalla'[d] = pantalla[d]
    BY <1>12
  <2> QED BY <1>12, <2>1, <2>2, <2>3 DEF LosDemas
<1>14. falta' \in [Pids -> BOOLEAN] /\ ~falta'[q] /\ \A p \in Pids \ {q} : falta'[p] = falta[p]
  <2>1. DOMAIN consolaDe = 1..pid_actual
    BY <1>2, PidsAlcanzan
  <2>2. \A p \in 1..pid_actual : consolaDe[p] = c <=> p = q
    BY <1>2, Unico
  <2>3. falta \in [Pids -> BOOLEAN]
    BY DEF InvD
  <2> QED BY <1>2, <1>12, <2>1, <2>2, <2>3
<1>15. LoDicho(c, pcbs[q], falta[q])'
  <2>1. pcbs'[q] = pcbs[q] /\ haciaKernel'[c] = <<>>
    BY <1>1, <1>6, <1>12 DEF KernelIgual
  <2> QED BY <1>13, <1>14, <2>1 DEF LoDicho
<1>16. /\ InvD' /\ Pasado(c) /\ c \in Consolas /\ MemQuieta(c)
       /\ ProcesoDe(c) = ProcesoEs(q) /\ ProcesoDe(c)' = ProcesoEs(q)'
       /\ PcbDe(q)' = PcbDe(q) /\ (Acabado(q)' <=> Acabado(q))
       /\ (q \in Elems(cola_new))' <=> q \in Elems(cola_new)
  BY <1>1, <1>13, <1>14, <1>15, AlDecir
<1>17. EnMarcha(c, L, n, R) /\ L[n].op = "PANTALLA" /\ L[n].r = r
  BY <1>8, <1>16 DEF EnMarcha
<1>18. EnMarcha(c, L, n + 1, R)'
  <2>1. ProcesoEs(q)' = [estado |-> "corre", programa |-> L, pc |-> n + 1, registros |-> R]
    BY <1>3, <1>7, <1>8, <1>14, <1>16 DEF ProcesoEs
  <2> QED BY <1>16, <2>1 DEF EnMarcha
<1>19. TecleadoDe(c)' = TecleadoDe(c)
  BY <1>12 DEF TecleadoDe
<1>20. Maq!ConSigno(R[r]) = ConSigno(R[r])
  BY <1>9, Signos DEF Maq!ConSigno
<1>21. pantalla' = [pantalla EXCEPT ![c] = Append(pantalla[c], Maq!ConSigno(R[L[n].r]))]
  BY <1>11, <1>12, <1>17, <1>20
<1>22. consola[c] # "muerta" /\ consola'[c] # "muerta"
  BY <1>1, <1>13
<1>23. Maq!Next
  BY <1>16, <1>17, <1>18, <1>19, <1>21, <1>22, MaqImprime
<1> QED BY <1>16, <1>23 DEF Refina

LEMMA RefAtender ==
    ASSUME InvE, InvM, InvD, InvE', ProgramasNormales, NEW c \in Consolas, Atender(c) PROVE Refina
<1>1. consola[c] = "atiende" /\ haciaConsola[c] # <<>>
  BY DEF Atender, PuedeAtender
<1>2. c \in Elems(consolaDe)
  BY <1>1, SegunTrato DEF SinProceso
<1>3. PICK q \in 1..pid_actual : consolaDe[q] = c
  BY <1>2, ProcesosDe DEF InvE
<1>4. PICK t : t = obtener_ultima_instruccion(pcbs[q]).parametro1
  OBVIOUS
<1>5. CASE Acabo(q)
  BY <1>3, <1>5, RefAtenderFin
<1>6. CASE ~Acabo(q)
  <2>1. hilo[q] = "contestar" /\ EnDialogo(c, t)
    BY <1>1, <1>3, <1>4, <1>6, SegunTrato DEF EnSilencio
  <2> QED BY <1>3, <1>4, <2>1, RefAtenderTeclado, RefAtenderPantalla
<1> QED BY <1>5, <1>6

-----------------------------------------------------------------------------
(* The answer of a console *)

\* The PCB goes to READY with what was answered, and its instruction has had its effect.
LEMMA AlSerContestado ==
    ASSUME InvE, InvM, InvD, InvE', ProgramasNormales, NEW q \in Pids, hilo[q] = "contestar",
           NEW c, c = consolaDe[q], NEW pcb, pcb = pcbs[q],
           NEW nuevo, BuenPcb(nuevo, q), Mira(nuevo, pcb), PasarAReady(nuevo),
           hilo' = [hilo EXCEPT ![q] = "ninguno"], haciaKernel' = [haciaKernel EXCEPT ![c] = <<>>],
           falta' = [falta EXCEPT ![q] = FALSE],
           UNCHANGED <<consola, haciaConsola, pid_actual, cola_new, cola_dispositivo, cola_exit,
                       cpu, memoria, tlb, consolaDe, pantalla>>
    PROVE  /\ InvD' /\ Pasado(c) /\ c \in Consolas /\ MemQuieta(c) /\ q \in 1..pid_actual
           /\ PcbDe(q) = pcb /\ ProcesoDe(c) = ProcesoEs(q) /\ ~Acabado(q)
           /\ q \notin Elems(cola_new)
           /\ ProcesoDe(c)' = [estado |-> "corre", programa |-> Traduccion(pcb.instrucciones),
                               pc |-> pcb.program_counter + 1, registros |-> nuevo.registros]
<1>1. /\ q \in DOMAIN pcbs /\ q \notin Elems(cola_new) /\ q \notin Elems(cola_ready)
      /\ q \notin Elems(cola_dispositivo) /\ q \notin Elems(cola_exit)
      /\ BuenPcb(pcb, q) /\ Vive(q) /\ ~EnCpuEsta(q) /\ q \in Nat /\ q \in 1..pid_actual
  BY EnSuLugar
<1>2. PcbDe(q) = pcb /\ Admitido(q) /\ c \in Consolas /\ Tipos /\ 1..pid_actual \subseteq Pids
  BY <1>1, AdmitidoEs, PidsAlcanzan DEF PcbDe, InvE
<1>3. PICK n : /\ BuenPcb(n, q) /\ Mira(n, nuevo) /\ n.registros = nuevo.registros
               /\ n.socket_consola = nuevo.socket_consola
               /\ ~n.page_fault /\ ~n.segmentation_fault /\ Guardar(n)
               /\ cola_ready' \in Seq(Nat) /\ SinRepetir(cola_ready')
               /\ Elems(cola_ready') = (Elems(cola_ready) \ {q}) \cup {q}
  BY <1>1, NoSeMueve, ListoEs
<1>4. /\ hilo' \in [Pids -> {"ninguno", "page fault", "pedir", "contestar"}]
      /\ hilo'[q] = "ninguno" /\ \A p \in Pids \ {q} : hilo'[p] = hilo[p]
  BY NoSeMueve
<1>5. PICK lugar \in Sitios : lugar = "ready"
  BY DEF Sitios
<1>6. Ubicado(q, n, lugar)
  BY <1>1, <1>3, <1>4, <1>5, NoSeMueve DEF Ubicado
<1>7. /\ falta' \in [Pids -> BOOLEAN] /\ falta'[q] = FALSE /\ \A p \in Pids \ {q} : falta'[p] = falta[p]
      /\ \A p \in Pids : p > pid_actual' => ~falta'[p]
  BY DEF InvD
<1>8. /\ q \in 1..pid_actual /\ \A p \in (1..pid_actual) \ {q} : Ajeno(p)
      /\ PcbDe(q)' = n /\ Vive(q)' /\ Vuelve(q)' = FALSE /\ Admitido(q)'
      /\ (q \in Elems(cola_new))' = FALSE
      /\ (q \in Elems(cola_exit))' = (lugar = "exit")
      /\ Acabado(q)' <=> Terminado(n)
  <2>1. lugar # "exit" /\ hilo'[q] \notin {"pedir", "contestar"} /\ pid_actual' = pid_actual
    BY <1>4, <1>5
  <2> QED BY <1>1, <1>3, <1>6, <1>7, <2>1, Movidas
<1>9. PICK f, h : f = falta[q] /\ h = hilo[q]
  OBVIOUS
<1>10. EnRegla(pcb, c, FALSE, FALSE, FALSE, h, f)
  <2>1. Vuelve(q) = FALSE /\ (q \in Elems(cola_new)) = FALSE /\ (q \in Elems(cola_exit)) = FALSE
    BY <1>1 DEF Vuelve
  <2> QED BY <1>1, <1>2, <1>9, <2>1, EnReglaDe
<1>11. /\ ProgramaDe(pcb, c) /\ TablaDe(pcb.tabla_de_segmentos, Segmentos(c))
       /\ ~pcb.segmentation_fault /\ ~pcb.page_fault
  BY <1>9, <1>10 DEF EnRegla
<1>12. EnEspera(pcb)
  <2>1. UltimaEsDeConsola(pcb)
    BY DEF InvE, Pcbs
  <2> QED BY <1>11, <2>1 DEF EnEspera
<1>13. Mira(n, pcb)
  BY <1>3 DEF Mira
<1>14. pcb.program_counter < Len(pcb.instrucciones) /\ Len(pcb.instrucciones) \in Nat
       /\ pcb.program_counter \in Nat
  <2>1. pcb.program_counter < Len(pcb.instrucciones)
    BY <1>1, <1>2, <1>11, <1>12, EnEsperaSigue
  <2> QED BY <1>1, <2>1, DeLista DEF BuenPcb, EsPrograma
<1>15. ~Acabado(q) /\ ~(Acabado(q)')
  BY <1>1, <1>2, <1>3, <1>8, <1>11, <1>13, <1>14 DEF Acabado, Terminado, Mira
<1>16. Bien(q)'
  <2>1. PICK k, g : k = hilo'[q] /\ g = falta'[q]
    OBVIOUS
  <2>2. EnRegla(n, c, FALSE, FALSE, FALSE, k, g) /\ k # "contestar"
    <3>1. g = FALSE /\ k # "pedir" /\ k # "contestar"
      BY <1>4, <1>7, <2>1
    <3> QED BY <1>3, <1>11, <1>13, <3>1, EnReglaListo
  <2>3. Cuerda(memoria', q)
    BY <1>1, CuerdaDe
  <2>4. c = consolaDe'[q] /\ n = PcbDe(q)' /\ (q \in Elems(cola_exit))' = FALSE
    BY <1>5, <1>8
  <2> QED BY ONLY <1>8, <2>1, <2>2, <2>3, <2>4, BienCon
<1>17. Propio(q)'
  <2>1. \A k \in Claves(tlb) : k[1] = q => EnTlb(n, memoria, k[2], tlb.marco[k])
    BY <1>1, <1>2, <1>13, <1>15, EnTlbDe
  <2>2. ASSUME NEW k \in Claves(tlb'), k[1] = q PROVE EnTlb(PcbDe(q)', memoria', k[2], tlb'.marco[k])
    BY <1>8, <2>1, <2>2
  <2> QED BY <1>16, <2>2, Zenon DEF Propio
<1>18. Turno(c)
  <2>1. \A d \in Consolas \ {c} : haciaKernel'[d] = haciaKernel[d]
    BY <1>2, SusVariables DEF InvE
  <2> QED BY <1>8, <2>1, SuTurno
<1>19. InvD' /\ Pasado(c)
  <2>1. Claveado(c) /\ Datos(memoria')
    BY TlbQuieta DEF InvD
  <2>2. q \in 1..pid_actual' /\ consolaDe'[q] = c
    BY <1>8
  <2> QED BY <1>2, <1>7, <1>17, <1>18, <2>1, <2>2, TrasSuPaso
<1>20. ProcesoDe(c) = ProcesoEs(q) /\ MemoriaDe(c) = MemoriaEs(q, c)
  BY <1>8, MaquinaDe
<1>21. ProcesoDe(c)' = ProcesoEs(q)' /\ MemoriaDe(c)' = MemoriaEs(q, c)'
  <2>1. q \in 1..pid_actual' /\ consolaDe'[q] = c
    BY <1>8
  <2> QED BY <1>2, <2>1, MaquinaDespues
<1>22. MemoriaEs(q, c)' = MemoriaEs(q, c)
  <2>1. n.tabla_de_segmentos = pcb.tabla_de_segmentos /\ PcbDe(q)' = n
    BY <1>8, <1>13 DEF Mira
  <2>2. \A dir : PalabraA(memoria', n, dir) = PalabraA(memoria, pcb, dir)
    BY <2>1 DEF PalabraA, PaginaEn
  <2>3. MemoriaEs(q, c)' = [dir \in DireccionesDe(c) |-> SinSigno(PalabraA(memoria', n, dir))]
    BY <1>8, <1>15, <2>1 DEF MemoriaEs
  <2>4. MemoriaEs(q, c) = [dir \in DireccionesDe(c) |-> SinSigno(PalabraA(memoria, pcb, dir))]
    BY <1>2, <1>15 DEF MemoriaEs
  <2> QED BY <2>2, <2>3, <2>4
<1>23. ProcesoEs(q)' = [estado |-> "corre", programa |-> Traduccion(pcb.instrucciones),
                        pc |-> pcb.program_counter + 1, registros |-> nuevo.registros]
  <2>1. n.instrucciones = pcb.instrucciones /\ n.program_counter = pcb.program_counter
    BY <1>13 DEF Mira
  <2> QED BY <1>3, <1>7, <1>8, <1>15, <2>1 DEF ProcesoEs
<1> QED BY <1>1, <1>2, <1>15, <1>19, <1>20, <1>21, <1>22, <1>23 DEF MemQuieta

\* What Contestar reads and does.
Contestado(c, pcb, i, k) ==
    \/ /\ k # <<>>
       /\ IF i.parametro1 = "TECLADO" /\ Operacion(k) = "OKI_TECLADO"
          THEN /\ haciaKernel' = [haciaKernel EXCEPT ![c] = TrasPaquete(k)]
               /\ PasarAReady(set_valor_en_registro(pcb, i.parametro2, Valor(Buffer(k))))
          ELSE /\ haciaKernel' = [haciaKernel EXCEPT ![c] = TrasOperacion(k)]
               /\ PasarAReady(pcb)
    \/ /\ k = <<>> /\ consola[c] = "muerta" /\ PasarAReady(pcb)
       /\ haciaKernel' = [haciaKernel EXCEPT ![c] = <<>>]
LEMMA LoQueContesta ==
    ASSUME InvE, NEW q \in Pids, Contestar(q), NEW c, c = consolaDe[q], NEW pcb, pcb = pcbs[q],
           NEW i, i = obtener_ultima_instruccion(pcb), NEW k, k = haciaKernel[c]
    PROVE  /\ hilo[q] = "contestar" /\ hilo' = [hilo EXCEPT ![q] = "ninguno"]
           /\ falta' = [falta EXCEPT ![q] = FALSE]
           /\ UNCHANGED <<consola, haciaConsola, pid_actual, cola_new, cola_dispositivo, cola_exit,
                          cpu, memoria, tlb, consolaDe, pantalla>>
           /\ q \in 1..pid_actual /\ c \in Consolas /\ BuenPcb(pcb, q)
           /\ EnDialogo(c, i.parametro1)
           /\ Contestado(c, pcb, i, k)
<1>1. PICK fd : fd = pcbs[q].socket_consola
  OBVIOUS
<1>2. /\ hilo[q] = "contestar" /\ hilo' = [hilo EXCEPT ![q] = "ninguno"]
      /\ falta' = [falta EXCEPT ![q] = FALSE]
      /\ UNCHANGED <<consola, haciaConsola, pid_actual, cola_new, cola_dispositivo, cola_exit,
                     cpu, memoria, tlb, consolaDe, pantalla>>
      /\ \/ /\ HayDatos(fd)
            /\ IF i.parametro1 = "TECLADO" /\ Operacion(Flujo(fd)) = "OKI_TECLADO"
               THEN /\ Leido(fd, TrasPaquete(Flujo(fd)))
                    /\ PasarAReady(set_valor_registro(pcb, i.parametro2,
                                                      ValorString(Buffer(Flujo(fd)))))
               ELSE Leido(fd, TrasOperacion(Flujo(fd))) /\ PasarAReady(pcb)
         \/ RecvFalla(fd) /\ PasarAReady(pcb) /\ haciaKernel' = haciaKernel
  BY <1>1 DEF Contestar, PuedeContestar, TrasDesbloquear
<1>3. Tipos /\ Conexiones
  BY DEF InvE
<1>4. /\ q \in DOMAIN pcbs /\ q \notin Elems(cola_exit) /\ q \in 1..pid_actual
      /\ BuenPcb(pcb, q) /\ Vive(q) /\ Socket(q) = fd
  BY <1>1, <1>2, EnSuLugar
<1>5. c \in Consolas
  BY <1>3, <1>4, PidsAlcanzan
<1>6. EnDialogo(c, i.parametro1)
  <2>1. ~Acabo(q)
    BY <1>4 DEF Acabo
  <2> QED BY <1>2, <1>4, <1>5, <2>1, SegunTrato
<1>7. /\ Cerrado \notin Consolas
      /\ \/ fds[fd] = c
         \/ fds[fd] = Cerrado /\ consola[c] = "muerta" /\ haciaKernel[c] = <<>>
  BY <1>3, <1>4, <1>5, EjecucionAssumption DEF Conexiones, Conectados, Conectado
<1>8. CASE /\ HayDatos(fd)
           /\ IF i.parametro1 = "TECLADO" /\ Operacion(Flujo(fd)) = "OKI_TECLADO"
              THEN /\ Leido(fd, TrasPaquete(Flujo(fd)))
                   /\ PasarAReady(set_valor_registro(pcb, i.parametro2,
                                                     ValorString(Buffer(Flujo(fd)))))
              ELSE Leido(fd, TrasOperacion(Flujo(fd))) /\ PasarAReady(pcb)
  <2>1. fds[fd] = c /\ Flujo(fd) = k /\ k # <<>>
    BY <1>7, <1>8 DEF HayDatos, Flujo
  <2>2. set_valor_registro(pcb, i.parametro2, ValorString(Buffer(k)))
           = set_valor_en_registro(pcb, i.parametro2, Valor(Buffer(k)))
    BY DEF set_valor_registro, Valor
  <2>3. Contestado(c, pcb, i, k)
    BY <1>8, <2>1, <2>2 DEF Leido, Contestado
  <2> QED BY <1>2, <1>4, <1>5, <1>6, <2>3
<1>9. CASE RecvFalla(fd) /\ PasarAReady(pcb) /\ haciaKernel' = haciaKernel
  <2>1. consola[c] = "muerta" /\ k = <<>>
    BY <1>5, <1>6, <1>7, <1>9 DEF RecvFalla, Terminada, EnDialogo
  <2>2. haciaKernel = [haciaKernel EXCEPT ![c] = haciaKernel[c]]
    BY <1>5, SegunTrato
  <2>3. haciaKernel' = [haciaKernel EXCEPT ![c] = <<>>]
    BY <1>9, <2>1, <2>2
  <2>4. Contestado(c, pcb, i, k)
    BY <1>9, <2>1, <2>3 DEF Contestado
  <2> QED BY <1>2, <1>4, <1>5, <1>6, <2>4
<1> QED BY <1>2, <1>8, <1>9

\* What the user typed is in the register.
LEMMA RefTomar ==
    ASSUME InvE, InvM, InvD, InvE', ProgramasNormales, NEW q \in Pids, Contestar(q),
           NEW c, c = consolaDe[q], NEW pcb, pcb = pcbs[q],
           NEW i, i = obtener_ultima_instruccion(pcb), NEW k, k = haciaKernel[c], k # <<>>,
           NEW t, t = i.parametro1, t = "TECLADO"
    PROVE  Refina
<1>1. /\ hilo[q] = "contestar" /\ hilo' = [hilo EXCEPT ![q] = "ninguno"]
      /\ falta' = [falta EXCEPT ![q] = FALSE]
      /\ UNCHANGED <<consola, haciaConsola, pid_actual, cola_new, cola_dispositivo, cola_exit,
                     cpu, memoria, tlb, consolaDe, pantalla>>
  BY LoQueContesta
<1>a. q \in 1..pid_actual /\ c \in Consolas /\ BuenPcb(pcb, q) /\ Contestado(c, pcb, i, k)
  BY LoQueContesta
<1>b. c \in Consolas /\ q \in 1..pid_actual /\ BuenPcb(pcb, q)
  BY <1>a
<1>c. hilo[q] = "contestar" /\ consola' = consola /\ pantalla' = pantalla
  BY <1>1
<1>2. LoDicho(c, pcb, falta[q])
  BY <1>b, <1>c DEF InvD, Bien
<1>3. falta[q] /\ \E v \in Teclas : k = ValorConCodigo(v, "OKI_TECLADO")
  BY <1>2 DEF LoDicho
<1>4. PICK v \in Teclas : k = ValorConCodigo(v, "OKI_TECLADO")
  BY <1>3
<1>5. v \in Int /\ ConSigno(v) = v
  BY NumeroEntero, EjecucionAssumption
<1>6. Operacion(k) = "OKI_TECLADO" /\ Valor(Buffer(k)) = v /\ TrasPaquete(k) = <<>>
  BY <1>4, <1>5, ValorSolo, ValorLeido
<1>7. PICK nuevo : nuevo = set_valor_en_registro(pcb, i.parametro2, v)
  OBVIOUS
<1>8. haciaKernel' = [haciaKernel EXCEPT ![c] = <<>>] /\ PasarAReady(nuevo)
  BY <1>a, <1>6, <1>7 DEF Contestado
<1>9. BuenPcb(nuevo, q) /\ Mira(nuevo, pcb)
      /\ nuevo.registros = [pcb.registros EXCEPT ![i.parametro2] = SinSigno(v)]
  <2>1. BuenPcb(nuevo, q) /\ Quieto(nuevo, pcb)
    BY <1>b, <1>5, <1>7, Asigna
  <2>2. DeMemoria(nuevo, pcb)
    BY <1>b, <1>7, AsignaDeMemoria
  <2>3. nuevo.registros = [pcb.registros EXCEPT ![i.parametro2] = SinSigno(v)]
    <3>1. set_valor_en_registro(pcb, i.parametro2, v).registros
             = [pcb.registros EXCEPT ![i.parametro2] = SinSigno(v)]
      <4>1. BuenPcb(pcb, q)
        BY <1>b
      <4> QED BY ONLY <4>1, Asignado, ZenonT(60)
    <3> QED BY <1>7, <3>1
  <2> QED BY <2>1, <2>2, <2>3 DEF Quieto, DeMemoria, Mira
<1>10. /\ InvD' /\ Pasado(c) /\ c \in Consolas /\ MemQuieta(c)
       /\ PcbDe(q) = pcb /\ ProcesoDe(c) = ProcesoEs(q)
       /\ ProcesoDe(c)' = [estado |-> "corre", programa |-> Traduccion(pcb.instrucciones),
                           pc |-> pcb.program_counter + 1, registros |-> nuevo.registros]
  <2>1. BuenPcb(nuevo, q) /\ Mira(nuevo, pcb)
    BY <1>9
  <2>2. /\ hilo[q] = "contestar" /\ hilo' = [hilo EXCEPT ![q] = "ninguno"]
        /\ falta' = [falta EXCEPT ![q] = FALSE]
    BY <1>1
  <2>3. UNCHANGED <<consola, haciaConsola, pid_actual, cola_new, cola_dispositivo, cola_exit,
                    cpu, memoria, tlb, consolaDe, pantalla>>
    BY <1>1
  <2> QED BY <1>8, <2>1, <2>2, <2>3, AlSerContestado
<1>11. PICK L, n, R : L = Traduccion(pcb.instrucciones) /\ n = pcb.program_counter /\ R = pcb.registros
  OBVIOUS
<1>12. EnMarcha(c, L, n, R) /\ L[n] = [op |-> t, r |-> i.parametro2]
  <2>1. /\ ProcesoEs(q) = [estado |-> "corre", programa |-> L, pc |-> n, registros |-> R]
        /\ L[n] = [op |-> t, r |-> i.parametro2]
    BY <1>b, <1>3, <1>10, <1>11, EnSuInstruccion
  <2> QED BY <1>10, <2>1 DEF EnMarcha
<1>13. L[n].op = "TECLADO" /\ L[n].r = i.parametro2
  BY <1>12
<1>14. EnMarcha(c, L, n + 1, [R EXCEPT ![L[n].r] = v % Modulo])'
  <2>1. nuevo.registros = [R EXCEPT ![L[n].r] = v % Modulo]
    BY <1>9, <1>11, <1>13 DEF SinSigno
  <2> QED BY <1>10, <1>11, <2>1 DEF EnMarcha
<1>15. TecleadoDe(c) = <<v>> /\ TecleadoDe(c)' = <<>>
  <2>1. TecleadoDe(c) = <<v>>
    BY <1>4, <1>5, <1>6, ValorSolo DEF TecleadoDe
  <2>0. c \in Consolas
    BY <1>b
  <2>2. haciaKernel'[c] = <<>>
    BY ONLY InvE, <2>0, <1>8, SusVariables
  <2>3. TecleadoDe(c)' = <<>>
    BY <2>2 DEF TecleadoDe
  <2> QED BY <2>1, <2>3
<1>16. pantalla' = pantalla /\ (consola'[c] # "muerta") = (consola[c] # "muerta")
  BY <1>c
<1>17. Maq!Next
  BY <1>10, <1>12, <1>13, <1>14, <1>15, <1>16, MaqToma
<1> QED BY <1>10, <1>17 DEF Refina

\* What was printed, or what a user who left did not see.
LEMMA RefSeguir ==
    ASSUME InvE, InvM, InvD, InvE', ProgramasNormales, NEW q \in Pids, Contestar(q),
           NEW c, c = consolaDe[q], NEW pcb, pcb = pcbs[q],
           NEW i, i = obtener_ultima_instruccion(pcb), NEW k, k = haciaKernel[c],
           NEW t, t = i.parametro1, t # "TECLADO" \/ k = <<>>
    PROVE  Refina
<1>1. /\ hilo[q] = "contestar" /\ hilo' = [hilo EXCEPT ![q] = "ninguno"]
      /\ falta' = [falta EXCEPT ![q] = FALSE]
      /\ UNCHANGED <<consola, haciaConsola, pid_actual, cola_new, cola_dispositivo, cola_exit,
                     cpu, memoria, tlb, consolaDe, pantalla>>
      /\ q \in 1..pid_actual /\ c \in Consolas /\ BuenPcb(pcb, q) /\ EnDialogo(c, t)
      /\ Contestado(c, pcb, i, k)
  BY LoQueContesta
<1>a. /\ PasarAReady(pcb)
      /\ k # <<>> => haciaKernel' = [haciaKernel EXCEPT ![c] = TrasOperacion(k)]
      /\ k = <<>> => consola[c] = "muerta" /\ haciaKernel' = [haciaKernel EXCEPT ![c] = <<>>]
  BY <1>1 DEF Contestado
<1>b. c \in Consolas /\ q \in 1..pid_actual /\ BuenPcb(pcb, q)
  BY <1>1
<1>2. LoDicho(c, pcb, falta[q])
  BY <1>1 DEF InvD, Bien
<1>3. k # <<>> => k = Codigo("OKI_PANTALLA") /\ ~falta[q]
  BY <1>1, <1>2 DEF LoDicho, EnDialogo, Respuesta
<1>4. haciaKernel' = [haciaKernel EXCEPT ![c] = <<>>] /\ TecleadoDe(c) = <<>>
  <2>1. k # <<>> => TrasOperacion(k) = <<>> /\ Operacion(k) = "OKI_PANTALLA"
    BY <1>3, CodigoSolo
  <2> QED BY <1>a, <2>1 DEF TecleadoDe
<1>5. TecleadoDe(c)' = <<>>
  <2>0. c \in Consolas
    BY <1>b
  <2>00. haciaKernel' = [haciaKernel EXCEPT ![c] = <<>>]
    BY <1>4
  <2>1. haciaKernel'[c] = <<>>
    BY ONLY InvE, <2>0, <2>00, SusVariables
  <2> QED BY <2>1 DEF TecleadoDe
<1>6. PICK L, n, R : L = Traduccion(pcb.instrucciones) /\ n = pcb.program_counter /\ R = pcb.registros
  OBVIOUS
<1>7. /\ InvD' /\ Pasado(c) /\ c \in Consolas /\ MemQuieta(c) /\ ~Acabado(q)
      /\ PcbDe(q) = pcb /\ ProcesoDe(c) = ProcesoEs(q) /\ EnMarcha(c, L, n + 1, R)'
      /\ q \notin Elems(cola_new)
  <2>1. Mira(pcb, pcb)
    BY DEF Mira
  <2>2. /\ InvD' /\ Pasado(c) /\ c \in Consolas /\ MemQuieta(c) /\ ~Acabado(q)
        /\ PcbDe(q) = pcb /\ ProcesoDe(c) = ProcesoEs(q) /\ q \notin Elems(cola_new)
        /\ ProcesoDe(c)' = [estado |-> "corre", programa |-> Traduccion(pcb.instrucciones),
                            pc |-> pcb.program_counter + 1, registros |-> pcb.registros]
    <3>1. PasarAReady(pcb) /\ haciaKernel' = [haciaKernel EXCEPT ![c] = <<>>]
      BY <1>a, <1>4
    <3>2. /\ hilo[q] = "contestar" /\ hilo' = [hilo EXCEPT ![q] = "ninguno"]
          /\ falta' = [falta EXCEPT ![q] = FALSE]
      BY <1>1
    <3>3. UNCHANGED <<consola, haciaConsola, pid_actual, cola_new, cola_dispositivo, cola_exit,
                      cpu, memoria, tlb, consolaDe, pantalla>>
      BY <1>1
    <3> QED BY <1>b, <2>1, <3>1, <3>2, <3>3, AlSerContestado
  <2> QED BY <1>6, <2>2 DEF EnMarcha
<1>8. DichoQuieto(c)
  BY <1>1, <1>4, <1>5 DEF DichoQuieto
<1>9. CASE falta[q]
  <2>1. /\ ProcesoEs(q) = [estado |-> "corre", programa |-> L, pc |-> n, registros |-> R]
        /\ L[n] = [op |-> t, r |-> i.parametro2] /\ t \in {"TECLADO", "PANTALLA"}
    BY <1>b, <1>6, <1>7, <1>9, EnSuInstruccion
  <2>2. EnMarcha(c, L, n, R) /\ L[n].op \in {"PANTALLA", "TECLADO"}
    BY <1>7, <2>1 DEF EnMarcha
  <2>3. consola[c] = "muerta"
    BY <1>a, <1>3, <1>9
  <2>4. Maq!Next
    BY <1>4, <1>7, <1>8, <2>2, <2>3, MaqIgnora
  <2> QED BY <1>7, <2>4 DEF Refina
<1>10. CASE ~falta[q]
  <2>1. ProcesoEs(q) = [estado |-> "corre", programa |-> L, pc |-> n + 1, registros |-> R]
    BY <1>6, <1>7, <1>10 DEF ProcesoEs
  <2>2. ProcesoDe(c)' = ProcesoDe(c)
    BY <1>7, <2>1 DEF EnMarcha
  <2>3. MaqVars' = MaqVars
    BY <1>7, <1>8, <2>2, MaqQuieta
  <2> QED BY <1>7, <2>3 DEF Refina
<1> QED BY <1>9, <1>10

\* Contestar.
LEMMA RefContestar ==
    ASSUME InvE, InvM, InvD, InvE', ProgramasNormales, NEW q \in Pids, Contestar(q) PROVE Refina
<1>1. PICK c, pcb : c = consolaDe[q] /\ pcb = pcbs[q]
  OBVIOUS
<1>2. PICK i, k : i = obtener_ultima_instruccion(pcb) /\ k = haciaKernel[c]
  OBVIOUS
<1>3. PICK t : t = i.parametro1
  OBVIOUS
<1>4. CASE t = "TECLADO" /\ k # <<>>
  BY <1>1, <1>2, <1>3, <1>4, RefTomar
<1>5. CASE t # "TECLADO" \/ k = <<>>
  BY <1>1, <1>2, <1>3, <1>5, RefSeguir
<1> QED BY <1>4, <1>5

-----------------------------------------------------------------------------
(* The connections *)

\* A step that only moves sockets.
NadaCambia ==
    /\ KernelIgual
    /\ UNCHANGED <<pid_actual, consolaDe, memoria, tlb, hilo, falta, pantalla>>
    /\ UNCHANGED <<consola, haciaKernel, haciaConsola>>
LEMMA RefNada ==
    ASSUME InvE, InvM, InvD, InvE', ProgramasNormales, NadaCambia PROVE Refina
<1>1. /\ KernelIgual
      /\ UNCHANGED <<pid_actual, consolaDe, memoria, tlb, hilo, falta, pantalla>>
  BY DEF NadaCambia
<1>2. UNCHANGED <<consola, haciaKernel, haciaConsola>>
  BY DEF NadaCambia
<1>3. ASSUME NEW c \in Consolas PROVE Refina
  <2>1. LosDemas(c) /\ TecleadoDe(c)' = TecleadoDe(c)
        /\ (consola'[c] # "muerta") = (consola[c] # "muerta")
    BY <1>1, <1>2 DEF LosDemas, TecleadoDe
  <2>2. CASE \A p \in 1..pid_actual : consolaDe[p] # c
    BY <1>1, <1>3, <2>1, <2>2, NadieQuieto
  <2>3. CASE ~\A p \in 1..pid_actual : consolaDe[p] # c
    <3>1. PICK q \in 1..pid_actual : consolaDe[q] = c
      BY <2>3
    <3>2. hilo[q] = "contestar" => LoDicho(c, pcbs[q], falta[q])'
      <4>1. hilo[q] = "contestar" => LoDicho(c, pcbs[q], falta[q])
        BY <3>1 DEF InvD, Bien
      <4>2. pcbs' = pcbs /\ falta' = falta
        BY <1>1 DEF KernelIgual
      <4> QED BY <1>2, <4>1, <4>2 DEF LoDicho
    <3> QED BY <1>1, <2>1, <3>1, <3>2, SinNovedad
  <2> QED BY <2>2, <2>3
<1>4. CASE Consolas = {}
  <2>1. 1..pid_actual = {} /\ pid_actual' = pid_actual
    <3>1. \A p \in 1..pid_actual : consolaDe[p] \in Consolas
      BY PidsAlcanzan DEF InvE
    <3> QED BY <1>1, <1>4, <3>1
  <2>2. InvDPorProceso
    BY InvDEs
  <2>3. InvDPorProceso'
    <3>1. \A p \in 1..pid_actual' : FALSE
      BY <2>1
    <3>2. Datos(memoria') /\ TlbUna(tlb') /\ falta' \in [Pids -> BOOLEAN]
          /\ \A p \in Pids : p > pid_actual' => ~falta'[p]
      BY <1>1, <2>2 DEF InvDPorProceso
    <3> QED BY <3>1, <3>2 DEF InvDPorProceso
  <2>4. InvD'
    BY <2>3, InvDLuego
  <2>5. LosProcesos' = LosProcesos
    BY <1>4 DEF LosProcesos
  <2>6. LasMemorias' = LasMemorias
    BY <1>4 DEF LasMemorias
  <2>7. LoTecleado' = LoTecleado
    BY <1>4 DEF LoTecleado
  <2>8. LosPresentes' = LosPresentes
    BY <1>4 DEF LosPresentes
  <2> QED BY <1>1, <2>4, <2>5, <2>6, <2>7, <2>8 DEF Refina, MaqVars
<1> QED BY <1>3, <1>4

\* A step of a console before it has a process.
LEMMA RefConectar ==
    ASSUME InvE, InvM, InvD, InvE', ProgramasNormales, NEW c \in Consolas, Conectar(c) PROVE Refina
<1>1. /\ consola[c] = "sin iniciar" /\ consola' = [consola EXCEPT ![c] = "conectada"]
      /\ haciaKernel' = haciaKernel /\ haciaConsola' = haciaConsola /\ KernelIgual
      /\ UNCHANGED <<pid_actual, consolaDe, memoria, tlb, hilo, falta, pantalla>>
  BY DEF Conectar, deKernel, colas, historia, KernelIgual
<1>2. \A p \in 1..pid_actual : consolaDe[p] # c
  BY <1>1, SinNadie, ProcesosDe DEF InvE
<1>3. consola'[c] = "conectada" /\ \A d \in Consolas \ {c} : consola'[d] = consola[d]
  BY <1>1, SusVariables
<1>4. LosDemas(c) /\ TecleadoDe(c)' = TecleadoDe(c)
      /\ (consola'[c] # "muerta") = (consola[c] # "muerta")
  BY <1>1, <1>3 DEF LosDemas, TecleadoDe
<1> QED BY <1>1, <1>2, <1>4, NadieQuieto

LEMMA RefEnviar ==
    ASSUME InvE, InvM, InvD, InvE', ProgramasNormales, NEW c \in Consolas, EnviarPrograma(c)
    PROVE  Refina
<1>1. /\ consola[c] = "conectada" /\ haciaConsola' = haciaConsola /\ KernelIgual
      /\ UNCHANGED <<pid_actual, consolaDe, memoria, tlb, hilo, falta, pantalla>>
  BY DEF EnviarPrograma, deKernel, colas, historia, KernelIgual
<1>2. c \notin Elems(consolaDe) /\ SinProceso(c) /\ haciaKernel[c] = <<>>
  BY <1>1, SinNadie DEF SinProceso, InvE
<1>3. \A p \in 1..pid_actual : consolaDe[p] # c
  BY <1>2, ProcesosDe DEF InvE
<1>4. /\ \/ haciaKernel' = haciaKernel
         \/ \E k : AlKernel(c, k)
      /\ \/ consola' = [consola EXCEPT ![c] = "atiende"]
         \/ consola' = [consola EXCEPT ![c] = "fin"]
  BY DEF EnviarPrograma
<1>5. \E k : haciaKernel' = [haciaKernel EXCEPT ![c] = k]
  <2>1. haciaKernel = [haciaKernel EXCEPT ![c] = haciaKernel[c]]
    BY SegunTrato
  <2> QED BY <1>4, <2>1 DEF AlKernel
<1>6. \A d \in Consolas \ {c} : haciaKernel'[d] = haciaKernel[d]
  BY <1>5, SusVariables
<1>7. consola'[c] \in {"atiende", "fin"} /\ \A d \in Consolas \ {c} : consola'[d] = consola[d]
  BY <1>4, SusVariables
<1>8. c \notin Elems(consolaDe')
  BY <1>1, <1>2 DEF Elems
<1>9. TecleadoDe(c)' = TecleadoDe(c)
  <2>1. TecleadoDe(c) = <<>>
    BY <1>2 DEF TecleadoDe
  <2>2. PICK k : k = haciaKernel'[c]
    OBVIOUS
  <2>3. k # <<>> => Programa(c, k)
    <3>1. SinProceso(c)'
      BY <1>8 DEF InvE, Mensajes, Elems
    <3> QED BY <2>2, <3>1 DEF SinProceso
  <2>4. k # <<>> => Operacion(k) = "PROCESO"
    BY <2>3, ProgramaRecibido
  <2>5. TecleadoDe(c)' = <<>>
    BY <2>2, <2>4 DEF TecleadoDe
  <2> QED BY <2>1, <2>5
<1>10. LosDemas(c) /\ (consola'[c] # "muerta") = (consola[c] # "muerta")
  BY <1>1, <1>6, <1>7 DEF LosDemas
<1> QED BY <1>1, <1>3, <1>9, <1>10, NadieQuieto

\* AceptarConsola.
LEMMA RefAceptar ==
    ASSUME InvE, InvM, InvD, InvE', ProgramasNormales, AceptarConsola PROVE Refina
<1>1. NadaCambia
  BY DEF AceptarConsola, deConsolas, deKernel, colas, historia, KernelIgual, NadaCambia
<1> QED BY <1>1, RefNada

-----------------------------------------------------------------------------
(* A process is born *)

\* What the kernel receives is the program of a file of the console.
LEMMA ProgramaEs ==
    ASSUME NEW c \in Consolas, NEW k, Programa(c, k)
    PROVE  \E a \in Archivos(c) : SePuedeLeer(a) /\ deserializar_proceso(Buffer(k)) =
               [instrucciones |-> obtener_pseudocodigo(a), segmentos |-> Segmentos(c)]
<1>1. PICK a \in Archivos(c) : SePuedeLeer(a) /\ k = Paquete("PROCESO", empaquetar_proceso(
        [instrucciones |-> obtener_pseudocodigo(a), segmentos |-> Segmentos(c)]))
  BY DEF Programa
<1>2. PICK proceso : proceso = [instrucciones |-> obtener_pseudocodigo(a),
                                segmentos |-> Segmentos(c)]
  OBVIOUS
<1>3. EsPrograma(obtener_pseudocodigo(a))
  BY <1>1, ProgramaLeido
<1>4. EsLista(Segmentos(c)) /\ \A i \in DOMAIN Segmentos(c) : EsTexto(Segmentos(c)[i])
  BY ArchivosAssumption
<1>5. EsProceso(proceso)
  BY <1>2, <1>3, <1>4, ListaEsFlujo DEF EsProceso, EsPrograma, EsI
<1>6. EsFlujo(empaquetar_proceso(proceso))
      /\ deserializar_proceso(empaquetar_proceso(proceso)) = proceso
  BY <1>5, ProcesoEntero
<1>7. k = Paquete("PROCESO", empaquetar_proceso(proceso))
  BY <1>1, <1>2
<1>8. Buffer(k) = empaquetar_proceso(proceso)
  BY <1>6, <1>7, PaqueteSolo
<1> QED BY <1>1, <1>2, <1>6, <1>8

\* The PCB of a program begins at its first instruction.
Recien(n, pid, c, a) ==
    /\ BuenPcb(n, pid) /\ n.pid = pid /\ ProgramaDe(n, c) /\ ~Terminado(n)
    /\ n.instrucciones = obtener_pseudocodigo(a) /\ n.program_counter = 0
    /\ n.registros = Maq!Reset
    /\ EnRegla(n, c, TRUE, FALSE, FALSE, "ninguno", FALSE)
LEMMA AlCrearlo ==
    ASSUME NEW pid, NEW fd \in Descriptores, NEW c \in Consolas, NEW a \in Archivos(c), SePuedeLeer(a),
           NEW proceso, proceso.instrucciones = obtener_pseudocodigo(a),
           proceso.segmentos = Segmentos(c), NEW n, n = pcb_create(proceso, pid, fd)
    PROVE  Recien(n, pid, c, a)
<1>1. EsPrograma(obtener_pseudocodigo(a))
  BY ProgramaLeido
<1>2. BuenPcb(n, pid) /\ n.pid = pid
  BY <1>1, Creado
<1>3. /\ n.program_counter = 0 /\ n.instrucciones = obtener_pseudocodigo(a)
      /\ n.tamanio_segmentos = Segmentos(c) /\ n.page_fault = FALSE
      /\ n.segmentation_fault = FALSE /\ n.registros = [AX |-> 0, BX |-> 0, CX |-> 0, DX |-> 0]
  BY DEF pcb_create
<1>4. n.registros = Maq!Reset
  BY <1>3 DEF Maq!Reset
<1>5. Len(n.instrucciones) # 0
  <2>1. PICK L : L = n.instrucciones
    OBVIOUS
  <2>2. EsFlujo(L) /\ L # <<>>
    BY <1>1, <1>3, <2>1, ListaEsFlujo DEF EsPrograma
  <2>3. Len(L) # 0
    BY <2>2 DEF EsFlujo
  <2> QED BY <2>1, <2>3
<1>6. ~Terminado(n) /\ ProgramaDe(n, c)
  BY <1>3, <1>5 DEF Terminado, ProgramaDe
<1>7. EnRegla(n, c, TRUE, FALSE, FALSE, "ninguno", FALSE)
  BY <1>3, <1>4, <1>6 DEF EnRegla, FallaBien
<1> QED BY <1>2, <1>3, <1>4, <1>6, <1>7 DEF Recien

LEMMA Alcanzan == Tipos => 1..pid_actual \subseteq Pids
BY PidsAlcanzan
LEMMA AlcanzanLuego == (Tipos => 1..pid_actual \subseteq Pids)'
BY Alcanzan, PTL

\* The machine of the console does not begin until the process is admitted.
LEMMA AlNacerlo ==
    ASSUME InvE, InvM, InvD, InvE', ProgramasNormales, NEW c \in Consolas, c \notin Elems(consolaDe),
           NEW a \in Archivos(c), SePuedeLeer(a), NEW pid, pid = pid_actual + 1,
           NEW n, Recien(n, pid, c, a), Guardar(n), cola_new' = Append(cola_new, pid), pid_actual' = pid,
           consolaDe' = Append(consolaDe, c), haciaKernel' = [haciaKernel EXCEPT ![c] = <<>>],
           Operacion(haciaKernel[c]) = "PROCESO",
           UNCHANGED <<consola, haciaConsola, cola_exit, hilo, cpu, memoria, tlb, falta, pantalla>>
    PROVE  Refina
<1>0. /\ BuenPcb(n, pid) /\ n.pid = pid /\ ~Terminado(n)
      /\ n.instrucciones = obtener_pseudocodigo(a) /\ n.program_counter = 0
      /\ n.registros = Maq!Reset
      /\ EnRegla(n, c, TRUE, FALSE, FALSE, "ninguno", FALSE)
  BY DEF Recien
<1>1. /\ Tipos /\ Colas /\ EnUnLugar /\ pid_actual \in Nat /\ pid \in Nat /\ pid \notin 1..pid_actual
      /\ 1..pid_actual' = (1..pid_actual) \cup {pid} /\ DOMAIN pcbs \subseteq 1..pid_actual
  <2>1. Tipos /\ Colas /\ EnUnLugar /\ pid_actual \in Nat /\ DOMAIN pcbs \subseteq 1..pid_actual
    BY DEF InvE, Tipos
  <2> QED BY <2>1
<1>2. consolaDe \in Seq(Consolas) /\ Len(consolaDe) = pid_actual
  BY <1>1 DEF Tipos
<1>3. consolaDe'[pid] = c /\ \A p \in 1..pid_actual : consolaDe'[p] = consolaDe[p] /\ consolaDe[p] # c
  <2>1. consolaDe'[pid] = c /\ \A p \in 1..pid_actual : consolaDe'[p] = consolaDe[p]
    BY <1>1, <1>2
  <2>2. \A p \in 1..pid_actual : consolaDe[p] # c
    BY <1>1, ProcesosDe
  <2> QED BY <2>1, <2>2
<1>4. pid \in Pids
  <2>1. Tipos'
    BY DEF InvE
  <2> QED BY <1>1, <2>1, AlcanzanLuego
<1>5. /\ hilo[pid] = "ninguno" /\ falta[pid] = FALSE /\ ~EnCpuEsta(pid)
      /\ pid \notin Elems(cola_exit) /\ pid \notin DOMAIN pcbs
  <2>1. pid \notin DOMAIN pcbs
    BY <1>1
  <2>2. ~EnCpuEsta(pid)
    BY <1>1 DEF InvE, Pcbs, EnCpuBien, EnCpuEsta
  <2>3. pid \notin Elems(cola_exit) /\ pid \notin Bloqueados
    BY <1>1, <2>1 DEF EnUnLugar
  <2>4. hilo[pid] = "ninguno"
    BY <1>4, <2>3 DEF Bloqueados
  <2>5. falta[pid] = FALSE
    BY <1>1, <1>4 DEF InvD
  <2> QED BY <2>1, <2>2, <2>3, <2>4, <2>5
<1>6. /\ pcbs'[pid] = n /\ DOMAIN pcbs' = DOMAIN pcbs \cup {pid}
      /\ \A p \in DOMAIN pcbs \ {pid} : pcbs'[p] = pcbs[p]
  BY <1>0, <1>1, Guardado
<1>7. Elems(cola_new') = Elems(cola_new) \cup {pid}
  <2>1. cola_new \in Seq(Nat) /\ SinRepetir(cola_new) /\ pid \notin Elems(cola_new)
    BY <1>1 DEF Colas, EnUnLugar
  <2> QED BY <1>1, <2>1, PidAlFinal
<1>8. ASSUME NEW p \in 1..pid_actual PROVE Ajeno(p)
  <2>1. p # pid
    BY <1>1
  <2>2. (p \in DOMAIN pcbs' <=> p \in DOMAIN pcbs) /\ (p \in DOMAIN pcbs => pcbs'[p] = pcbs[p])
    BY <1>6, <2>1
  <2>3. (Vive(p)' <=> Vive(p)) /\ (Vive(p) => PcbDe(p)' = PcbDe(p)) /\ (Vuelve(p)' <=> Vuelve(p))
    BY <2>2 DEF Vive, PcbDe, EnCpuEsta, Vuelve
  <2>4. /\ ((p \in Elems(cola_new))' <=> p \in Elems(cola_new))
        /\ ((p \in Elems(cola_exit))' <=> p \in Elems(cola_exit))
    <3>1. Elems(cola_new)' = Elems(cola_new') /\ Elems(cola_exit)' = Elems(cola_exit)
      BY DEF Elems
    <3> QED BY <1>7, <2>1, <3>1
  <2>5. hilo[p] = "contestar" => pcbs'[p] = pcbs[p]
    <3>1. p \in Pids
      BY <1>1, PidsAlcanzan
    <3>2. hilo[p] = "contestar" => p \in DOMAIN pcbs
      BY <3>1, EnSuLugar
    <3> QED BY <2>2, <3>2
  <2> QED BY <2>3, <2>4, <2>5 DEF Ajeno
<1>9. \A d \in Consolas \ {c} : haciaKernel'[d] = haciaKernel[d]
  BY SusVariables
<1>10. Turno(c)
  <2>1. ASSUME NEW p \in 1..pid_actual', consolaDe'[p] # c
        PROVE  /\ p \in 1..pid_actual /\ Ajeno(p)
               /\ Cuerda(memoria, p) => Queda(memoria, memoria', p)
    <3>1. p \in 1..pid_actual
      BY <1>1, <1>3, <2>1
    <3>2. Cuerda(memoria, p) => Queda(memoria, memoria', p)
      BY DEF Queda, Mantiene
    <3> QED BY <1>8, <3>1, <3>2
  <2>2. pid_actual' \in Nat /\ 1..pid_actual \subseteq 1..pid_actual'
    BY <1>1
  <2> QED BY <1>3, <1>9, <2>1, <2>2 DEF Turno
<1>11. /\ PcbDe(pid)' = n /\ Vive(pid)' /\ Vuelve(pid)' = FALSE /\ ~(Admitido(pid)') /\ ~(Acabado(pid)')
       /\ (pid \in Elems(cola_new))' = TRUE /\ (pid \in Elems(cola_exit))' = FALSE
  <2>1. EnCpuEsta(pid)' = FALSE
    BY <1>5 DEF EnCpuEsta
  <2>2. PcbDe(pid)' = n /\ Vive(pid)' /\ Vuelve(pid)' = FALSE
    BY <1>6, <2>1 DEF PcbDe, Vive, Vuelve
  <2>3. (pid \in Elems(cola_new))' = TRUE
    BY <1>7 DEF Elems
  <2>4. (pid \in Elems(cola_exit))' = FALSE
    BY <1>5 DEF Elems
  <2>5. ~(Admitido(pid)')
    <3>1. pid \in Elems(cola_new)' 
      BY <2>3
    <3> QED BY <3>1 DEF Admitido, Elems
  <2>6. ~(Acabado(pid)')
    BY <1>0, <2>2 DEF Acabado, Terminado
  <2> QED BY <2>2, <2>3, <2>4, <2>5, <2>6
<1>12. Propio(pid)'
  <2>1. PICK h, f : h = hilo'[pid] /\ f = falta'[pid]
    OBVIOUS
  <2>2. h # "contestar" /\ EnRegla(n, c, TRUE, FALSE, FALSE, h, f)
    <3>1. h = "ninguno" /\ f = FALSE
      BY <1>5, <2>1
    <3> QED BY <1>0, <3>1
  <2>3. n = PcbDe(pid)' /\ c = consolaDe'[pid]
    BY <1>3, <1>11
  <2>4. Bien(pid)'
    BY <1>11, <2>1, <2>2, <2>3, BienCon
  <2> QED BY <1>11, <2>4 DEF Propio
<1>13. InvD' /\ Pasado(c)
  <2>1. Claveado(c) /\ Datos(memoria')
    BY TlbQuieta DEF InvD
  <2>2. /\ falta' \in [Pids -> BOOLEAN] /\ \A p \in Pids : p > pid_actual' => ~falta'[p]
    <3>1. \A p \in Pids : p \in Nat
      BY EjecucionAssumption, FS_CardinalityType DEF Pids
    <3> QED BY <1>1, <3>1 DEF InvD
  <2>3. pid \in 1..pid_actual' /\ consolaDe'[pid] = c
    BY <1>1, <1>3
  <2> QED BY <1>10, <1>12, <2>1, <2>2, <2>3, TrasSuPaso
<1>14. ProcesoDe(c) = [estado |-> "nada"] /\ MemoriaDe(c) = SinMemoria(c)
  BY <1>3, LaMaquinaEs DEF LaMaquina
<1>15. ProcesoDe(c)' = ProcesoEs(pid)' /\ MemoriaDe(c)' = MemoriaEs(pid, c)'
  <2>1. pid \in 1..pid_actual' /\ c = consolaDe'[pid]
    BY <1>1, <1>3
  <2> QED BY <2>1, MaquinaDespues
<1>16. MemQuieta(c)
  <2>1. MemoriaEs(pid, c)' = SinMemoria(c)
    BY <1>11 DEF MemoriaEs, SinMemoria
  <2> QED BY <1>14, <1>15, <2>1 DEF MemQuieta
<1>17. ProcesoDe(c)' = ProcesoDe(c)
  <2>1. ProcesoEs(pid)' = [estado |-> "nada"]
    BY <1>11, Zenon DEF ProcesoEs
  <2> QED BY <1>14, <1>15, <2>1
<1>18. DichoQuieto(c)
  <2>1. haciaKernel'[c] = <<>>
    BY SusVariables
  <2>2. TecleadoDe(c)' = TecleadoDe(c)
    BY <2>1 DEF TecleadoDe
  <2> QED BY <2>2 DEF DichoQuieto
<1>19. MaqVars' = MaqVars
  BY <1>13, <1>16, <1>17, <1>18, MaqQuieta
<1> QED BY <1>13, <1>19 DEF Refina

\* RecibirProceso.
LEMMA RefRecibir ==
    ASSUME InvE, InvM, InvD, InvE', ProgramasNormales, RecibirProceso PROVE Refina
<1>1. PICK fd : fd = aceptado
  OBVIOUS
<1>2. /\ aceptado # Ninguno
      /\ UNCHANGED <<consola, haciaConsola, cola_exit, hilo, cpu, memoria, tlb, falta, pantalla>>
      /\ \/ /\ HayDatos(fd)
            /\ Leido(fd, TrasPaquete(Flujo(fd)))
            /\ IF Operacion(Flujo(fd)) = "PROCESO"
               THEN /\ Guardar(pcb_create(deserializar_proceso(Buffer(Flujo(fd))),
                                          pid_actual + 1, fd))
                    /\ cola_new' = Append(cola_new, pid_actual + 1)
                    /\ pid_actual' = pid_actual + 1
                    /\ consolaDe' = Append(consolaDe, fds[fd])
               ELSE UNCHANGED <<pcbs, cola_new, pid_actual, consolaDe>>
         \/ UNCHANGED <<haciaKernel, pcbs, cola_new, pid_actual, consolaDe>>
  BY <1>1 DEF RecibirProceso, PuedeRecibir
<1>3. PICK c \in Consolas : c = fds[fd] /\ c \notin Elems(consolaDe)
  BY <1>1, <1>2 DEF InvE, Conexiones, AceptadoSinProceso
<1>4. fd \in Descriptores
  BY <1>1, <1>2 DEF InvE, Tipos
<1>5. CASE /\ HayDatos(fd)
           /\ Leido(fd, TrasPaquete(Flujo(fd)))
           /\ IF Operacion(Flujo(fd)) = "PROCESO"
              THEN /\ Guardar(pcb_create(deserializar_proceso(Buffer(Flujo(fd))),
                                         pid_actual + 1, fd))
                   /\ cola_new' = Append(cola_new, pid_actual + 1)
                   /\ pid_actual' = pid_actual + 1
                   /\ consolaDe' = Append(consolaDe, fds[fd])
              ELSE UNCHANGED <<pcbs, cola_new, pid_actual, consolaDe>>
  <2>1. PICK k : k = haciaKernel[c]
    OBVIOUS
  <2>2. Flujo(fd) = k /\ k # <<>>
    BY <1>3, <1>5, <2>1 DEF Flujo, HayDatos
  <2>3. Programa(c, k)
    BY <1>3, <2>1, <2>2, SegunTrato DEF SinProceso
  <2>4. PICK proceso : proceso = deserializar_proceso(Buffer(k))
    OBVIOUS
  <2>5. Operacion(k) = "PROCESO" /\ TrasPaquete(k) = <<>>
    BY <2>3, ProgramaRecibido
  <2>6. PICK a \in Archivos(c) : SePuedeLeer(a) /\ proceso =
            [instrucciones |-> obtener_pseudocodigo(a), segmentos |-> Segmentos(c)]
    BY <2>3, <2>4, ProgramaEs
  <2>7. PICK pid : pid = pid_actual + 1
    OBVIOUS
  <2>8. PICK n : n = pcb_create(proceso, pid, fd)
    OBVIOUS
  <2>9. proceso.instrucciones = obtener_pseudocodigo(a) /\ proceso.segmentos = Segmentos(c)
    BY <2>6
  <2>10. Recien(n, pid, c, a)
    <3>1. fd \in Descriptores /\ c \in Consolas /\ a \in Archivos(c) /\ SePuedeLeer(a)
      BY <1>4, <2>6
    <3> QED BY ONLY <2>8, <2>9, <3>1, AlCrearlo, Zenon
  <2>11. /\ Guardar(n) /\ cola_new' = Append(cola_new, pid) /\ pid_actual' = pid
         /\ consolaDe' = Append(consolaDe, c)
         /\ haciaKernel' = [haciaKernel EXCEPT ![c] = <<>>]
    BY <1>3, <1>5, <2>2, <2>4, <2>5, <2>7, <2>8 DEF Leido
  <2>12. Operacion(haciaKernel[c]) = "PROCESO"
    BY <2>1, <2>5
  <2>13. UNCHANGED <<consola, haciaConsola, cola_exit, hilo, cpu, memoria, tlb, falta, pantalla>>
    BY <1>2
  <2> QED BY <1>3, <2>6, <2>7, <2>10, <2>11, <2>12, <2>13, AlNacerlo
<1>6. CASE UNCHANGED <<haciaKernel, pcbs, cola_new, pid_actual, consolaDe>>
  <2>1. NadaCambia
    BY <1>2, <1>6 DEF NadaCambia, KernelIgual
  <2> QED BY <2>1, RefNada
<1> QED BY <1>2, <1>5, <1>6

-----------------------------------------------------------------------------
(* A process is admitted *)

\* The TLB has pages of processes that were admitted.
Llaves == \A k \in Claves(tlb) : k[1] \in (1..pid_actual) \ Elems(cola_new)

LEMMA EnReglaNuevo ==
    ASSUME NEW c, NEW pcb, ProgramaDe(pcb, c), NEW n, n.instrucciones = pcb.instrucciones,
           TablaDe(n.tabla_de_segmentos, Segmentos(c)),
           ~n.page_fault, ~n.segmentation_fault, NEW h, h # "pedir"
    PROVE  EnRegla(n, c, FALSE, FALSE, FALSE, h, FALSE)
BY DEF EnRegla, ProgramaDe, FallaBien

\* An address of the console of a process that is admitted is of one of its pages.
LEMMA PaginaNueva ==
    ASSUME ProgramasNormales, NEW c \in Consolas, NEW dir \in DireccionesDe(c), NEW pcb,
           NEW t, EsLista(t), pcb.tabla_de_segmentos = t, TablaDe(t, Segmentos(c)),
           NEW mem, NEW m, NEW q, NEW l, ConTablas(mem, m, t, q, l)
    PROVE  PaginaEn(pcb, ClaveA(dir)) \in PaginasDe(m, q) /\ dir % TamPagina \in Offsets
<1>1. PICK n : n = Len(Segmentos(c))
  OBVIOUS
<1>2. Len(t) = n /\ n \in Nat /\ DOMAIN t = 1..n
  BY <1>1, DeLista DEF TablaDe
<1>3. dir \in 0..(n * TamPagina * EntradasPorTabla - 1) /\ dir % AnchoInt = 0
  BY <1>1, DireccionPropia
<1>4. PICK k : k = ClaveA(dir)
  OBVIOUS
<1>5. k[1] + 1 \in 1..n /\ k[2] \in 0..(EntradasPorTabla - 1) /\ dir % TamPagina \in Offsets
  BY <1>2, <1>3, <1>4, DireccionDe
<1>6. PICK y : y = t[k[1] + 1].indice_tabla_paginas
  OBVIOUS
<1>7. y \in 0..(Len(m.tablas) - 1) /\ m.tablas[y + 1].pid = q
  BY <1>2, <1>5, <1>6 DEF ConTablas
<1>8. <<y, k[2]>> \in PaginasDe(m, q)
  BY <1>5, <1>7 DEF PaginasDe, PidDe
<1> QED BY <1>4, <1>5, <1>6, <1>8 DEF PaginaEn

\* CrearEstructuras: the machine of the console begins with that program, and on the words
\* that its pages find.
LEMMA RefCrear ==
    ASSUME InvE, InvM, InvD, InvE', ProgramasNormales, Llaves, CrearEstructuras PROVE Refina
<1>0. PICK q, pcb, L : q = Head(cola_new) /\ pcb = pcbs[q] /\ L = pcb.tamanio_segmentos
  OBVIOUS
<1>1. /\ cola_new # <<>> /\ cola_new' = Tail(cola_new)
      /\ cola_dispositivo' = cola_dispositivo /\ cola_exit' = cola_exit
      /\ hilo' = hilo /\ cpu' = cpu
      /\ haciaKernel' = haciaKernel /\ haciaConsola' = haciaConsola
      /\ UNCHANGED <<pid_actual, consolaDe, tlb, falta, pantalla, consola>>
  BY DEF CrearEstructuras, PuedeAdmitir, historia, deConsolas
<1>2. cola_new \in Seq(Nat) /\ SinRepetir(cola_new)
  BY NoSeMueve
<1>3. /\ q \in Elems(cola_new) /\ Elems(cola_new') = Elems(cola_new) \ {q}
      /\ SinRepetir(cola_new') /\ cola_new' \in Seq(Nat)
  BY <1>0, <1>1, <1>2, Cabeza
<1>4. /\ q \in DOMAIN pcbs /\ q \notin Elems(cola_ready) /\ q \notin Elems(cola_dispositivo)
      /\ q \notin Elems(cola_exit) /\ hilo[q] = "ninguno" /\ BuenPcb(pcb, q) /\ Vive(q)
      /\ ~EnCpuEsta(q) /\ q \in Nat /\ q \in 1..pid_actual /\ q \in Pids
  BY <1>0, <1>3, EnSuLugar
<1>5. PcbDe(q) = pcb /\ ~Admitido(q)
  BY <1>0, <1>3, <1>4, AdmitidoEs DEF PcbDe
<1>6. PICK t : Creacion(q, L, t)
  BY <1>0, LoQueCrea
<1>7. PICK listo : listo = [pcb EXCEPT !.tabla_de_segmentos = t]
  OBVIOUS
<1>8. PasarAReady(listo) /\ EsLista(L) /\ EsLista(t) /\ \A i \in DOMAIN t : EsSegmento(t[i])
  BY <1>0, <1>6, <1>7 DEF Creacion
<1>9. /\ BuenPcb(listo, q) /\ listo.tabla_de_segmentos = t /\ listo.registros = pcb.registros
      /\ listo.instrucciones = pcb.instrucciones /\ listo.program_counter = pcb.program_counter
  <2>1. BuenPcb(listo, q)
    BY <1>4, <1>7, <1>8, ConSegmentos
  <2>2. DOMAIN pcb = CamposPcb /\ pcb = [x \in CamposPcb |-> pcb[x]]
    BY <1>4 DEF BuenPcb
  <2> QED BY <1>7, <2>1, <2>2 DEF CamposPcb
<1>10. PICK n : /\ BuenPcb(n, q) /\ Mira(n, listo) /\ n.registros = listo.registros
                /\ n.socket_consola = listo.socket_consola
                /\ ~n.page_fault /\ ~n.segmentation_fault /\ Guardar(n)
                /\ cola_ready' \in Seq(Nat) /\ SinRepetir(cola_ready')
                /\ Elems(cola_ready') = (Elems(cola_ready) \ {q}) \cup {q}
  BY <1>4, <1>8, <1>9, NoSeMueve, ListoEs
<1>11. PICK lugar \in Sitios : lugar = "ready"
  BY DEF Sitios
<1>12. Ubicado(q, n, lugar)
  BY <1>1, <1>3, <1>4, <1>10, <1>11, NoSeMueve DEF Ubicado
<1>13. /\ \A p \in (1..pid_actual) \ {q} : Ajeno(p)
       /\ PcbDe(q)' = n /\ Vive(q)' /\ Vuelve(q)' = FALSE /\ Admitido(q)'
       /\ (q \in Elems(cola_new))' = FALSE
       /\ (q \in Elems(cola_exit))' = (lugar = "exit")
       /\ Acabado(q)' <=> Terminado(n)
  <2>1. /\ hilo'[q] \notin {"pedir", "contestar"} /\ pid_actual' = pid_actual /\ lugar # "exit"
        /\ \A p \in Pids \ {q} : falta'[p] = falta[p]
    BY <1>1, <1>4, <1>11
  <2> QED BY <1>4, <1>10, <1>12, <2>1, Movidas
<1>14. PICK c \in Consolas : c = consolaDe[q]
  BY <1>4, PidsAlcanzan DEF InvE
<1>15. PICK f, h : f = falta[q] /\ h = hilo[q]
  OBVIOUS
<1>16. EnRegla(pcb, c, TRUE, FALSE, FALSE, h, f) /\ f \in BOOLEAN
  <2>1. Vuelve(q) = FALSE /\ (q \in Elems(cola_new)) = TRUE /\ (q \in Elems(cola_exit)) = FALSE
    BY <1>3, <1>4 DEF Vuelve
  <2> QED BY <1>4, <1>5, <1>14, <1>15, <2>1, EnReglaDe
<1>17. /\ f = FALSE /\ h = "ninguno" /\ ProgramaDe(pcb, c) /\ L = Segmentos(c)
       /\ ~pcb.segmentation_fault /\ pcb.program_counter = 0 /\ pcb.registros = Maq!Reset
  BY <1>0, <1>4, <1>15, <1>16 DEF EnRegla
<1>18. /\ Datos(memoria') /\ Aparte(memoria, memoria', q) /\ Cuerda(memoria', q)
       /\ TablaDe(t, L)
       /\ \A x \in PaginasDe(memoria', q), d \in Offsets : Palabra(memoria', x, d) \in Int
  <2>1. EsMemoria(memoria) /\ BuenaMemoria(memoria) /\ Datos(memoria)
    BY NoSeMueve DEF InvM, InvD
  <2>2. /\ EsLista(L) /\ ConTablas(memoria, memoria', t, q, Len(L))
        /\ TablasNuevas(memoria, memoria', t, L)
        /\ \A k \in DOMAIN memoria.tablas : memoria.tablas[k].pid # q
    BY <1>6 DEF Creacion
  <2> QED BY <2>1, <2>2, Creada
<1>19. EnRegla(n, c, FALSE, FALSE, FALSE, h, f)
  <2>1. n.tabla_de_segmentos = t /\ n.instrucciones = pcb.instrucciones
    BY <1>9, <1>10 DEF Mira
  <2> QED BY <1>10, <1>17, <1>18, <2>1, EnReglaNuevo
<1>20. Bien(q)'
  <2>1. /\ (q \in Elems(cola_new))' = FALSE /\ (q \in Elems(cola_exit))' = FALSE
        /\ c = consolaDe'[q] /\ h = hilo'[q] /\ f = falta'[q] /\ h # "contestar"
    BY <1>1, <1>11, <1>13, <1>14, <1>15, <1>17
  <2>2. Vive(q)' /\ n = PcbDe(q)' /\ Vuelve(q)' = FALSE
    BY <1>13
  <2> QED BY <1>18, <1>19, <2>1, <2>2, BienCon
<1>21. Propio(q)'
  <2>1. \A k \in Claves(tlb) : k[1] # q
    BY <1>3 DEF Llaves
  <2>2. \A k \in Claves(tlb)' : k[1] # q
    BY <1>1, <2>1
  <2> QED BY <1>20, <2>2 DEF Propio
<1>22. Turno(c)
  <2>1. /\ \A p \in (1..pid_actual) \ {q} : Ajeno(p)
        /\ UNCHANGED <<pid_actual, consolaDe>>
    BY <1>1, <1>13
  <2> QED BY <1>1, <1>4, <1>14, <1>18, <2>1, SuTurno
<1>23. InvD' /\ Pasado(c)
  <2>1. Claveado(c)
    BY <1>1, TlbQuieta
  <2>2. falta' \in [Pids -> BOOLEAN] /\ \A p \in Pids : p > pid_actual' => ~falta'[p]
    BY <1>1 DEF InvD
  <2>3. q \in 1..pid_actual' /\ consolaDe'[q] = c
    BY <1>1, <1>4, <1>14
  <2> QED BY <1>18, <1>21, <1>22, <2>1, <2>2, <2>3, TrasSuPaso
<1>24. ProcesoDe(c) = [estado |-> "nada"]
  <2>1. ProcesoDe(c) = ProcesoEs(q)
    BY <1>4, <1>14, MaquinaDe
  <2> QED BY <1>3, <2>1 DEF ProcesoEs
<1>25. ProcesoDe(c)' = ProcesoEs(q)' /\ MemoriaDe(c)' = MemoriaEs(q, c)'
  BY <1>1, <1>4, <1>14, MaquinaDespues
<1>26. PICK a \in Archivos(c) : SePuedeLeer(a) /\ pcb.instrucciones = obtener_pseudocodigo(a)
  BY <1>17 DEF ProgramaDe
<1>27. /\ n.instrucciones = obtener_pseudocodigo(a) /\ n.program_counter = 0
       /\ n.registros = Maq!Reset /\ n.tabla_de_segmentos = t
  BY <1>9, <1>10, <1>17, <1>26 DEF Mira
<1>28. ~(Acabado(q)')
  <2>1. EsPrograma(obtener_pseudocodigo(a))
    BY <1>26, ProgramaLeido
  <2>2. Len(n.instrucciones) # 0
    BY <1>27, <2>1, ListaEsFlujo DEF EsPrograma, EsFlujo
  <2> QED BY <1>10, <1>13, <1>27, <2>2 DEF Terminado
<1>29. PICK M : M = Traduccion(obtener_pseudocodigo(a))
  OBVIOUS
<1>30. M \in ProgramasDe(c)
  BY <1>26, <1>29 DEF ProgramasDe
<1>31. EnMarcha(c, M, 1, Maq!Reset)'
  <2>1. ~((q \in Elems(cola_new))') /\ falta'[q] = FALSE /\ PcbDe(q)' = n
    BY <1>1, <1>13, <1>15, <1>17
  <2>2. ProcesoEs(q)' = [estado |-> "corre", programa |-> M, pc |-> 1, registros |-> Maq!Reset]
    BY <1>27, <1>28, <1>29, <2>1 DEF ProcesoEs
  <2> QED BY <1>25, <2>2 DEF EnMarcha, Maq!Reset
<1>32. MemoriaDe(c)' \in [DireccionesDe(c) -> 0..(Modulo - 1)]
  <2>1. ASSUME NEW dir \in DireccionesDe(c)
        PROVE  SinSigno(PalabraA(memoria', n, dir)) \in 0..(Modulo - 1)
    <3>1. PaginaEn(n, ClaveA(dir)) \in PaginasDe(memoria', q) /\ dir % TamPagina \in Offsets
      <4>1. EsLista(t) /\ ConTablas(memoria, memoria', t, q, Len(L))
        BY <1>6 DEF Creacion
      <4>2. TablaDe(t, Segmentos(c)) /\ n.tabla_de_segmentos = t
        BY <1>17, <1>18, <1>27
      <4> QED BY ONLY <1>14, <4>1, <4>2, PaginaNueva, ProgramasNormales, dir \in DireccionesDe(c)
    <3>2. PalabraA(memoria', n, dir) \in Int
      BY <1>18, <3>1 DEF PalabraA
    <3> QED BY <3>2, Signos
  <2>2. MemoriaEs(q, c)' = [dir \in DireccionesDe(c) |-> SinSigno(PalabraA(memoria', n, dir))]
    BY <1>13, <1>28 DEF MemoriaEs
  <2> QED BY <1>25, <2>1, <2>2
<1>33. DichoQuieto(c)
  BY <1>1 DEF DichoQuieto, TecleadoDe
<1>34. Maq!Next
  BY <1>23, <1>24, <1>30, <1>31, <1>32, <1>33, MaqNace
<1> QED BY <1>23, <1>34 DEF Refina

-----------------------------------------------------------------------------
(* The CPU runs an instruction *)

\* The process of the CPU, at an instruction.
EnMano(q, pcb, c) ==
    /\ q \in 1..pid_actual /\ q \in Pids /\ c \in Consolas /\ c = consolaDe[q]
    /\ cpu # Libre /\ q = cpu.pcb.pid /\ pcb = cpu.pcb /\ PcbDe(q) = pcb
    /\ BuenPcb(pcb, q) /\ PcbConMemoria(pcb, q, memoria)
    /\ pcb.program_counter \in Nat /\ pcb.program_counter + 1 \in DOMAIN pcb.instrucciones
    /\ Vive(q) /\ Admitido(q) /\ ~Acabado(q) /\ ~falta[q] /\ hilo[q] = "ninguno"
    /\ q \notin Elems(cola_new) /\ q \notin Elems(cola_exit)
    /\ ProgramaDe(pcb, c) /\ TablaDe(pcb.tabla_de_segmentos, Segmentos(c))
    /\ ~pcb.page_fault /\ ~pcb.segmentation_fault
    /\ EsMemoria(memoria) /\ BuenaMemoria(memoria) /\ Datos(memoria) /\ Cuerda(memoria, q)
    /\ BuenaTlb(tlb) /\ TlbUna(tlb)
    /\ \A k \in Claves(tlb) : k[1] = q => EnTlb(pcb, memoria, k[2], tlb.marco[k])
LEMMA EnManoEs ==
    ASSUME InvE, InvM, InvD, ProgramasNormales, cpu.estado = "ejecuta", NEW q, q = cpu.pcb.pid,
           NEW pcb, pcb = cpu.pcb, NEW c, c = consolaDe[q]
    PROVE  EnMano(q, pcb, c)
<1>1. cpu # Libre
  BY DEF Libre
<1>2. /\ BuenPcb(pcb, q) /\ Vive(q) /\ EnCpuEsta(q) /\ q \in 1..pid_actual /\ q \in Pids
      /\ q \notin Elems(cola_new) /\ q \notin Elems(cola_exit) /\ hilo[q] = "ninguno"
  BY <1>1, EnSuLugar
<1>3. Admitido(q) /\ PcbDe(q) = pcb /\ c \in Consolas
  BY <1>2, AdmitidoEs, PidsAlcanzan DEF PcbDe, InvE
<1>4. /\ PcbConMemoria(pcb, q, memoria) /\ BuenaMemoria(memoria) /\ BuenaTlb(tlb)
      /\ EsMemoria(memoria)
  BY <1>2, <1>3, NoSeMueve DEF InvM
<1>5. PICK f : f = falta[q]
  OBVIOUS
<1>6. EnRegla(pcb, c, FALSE, FALSE, FALSE, "ninguno", f) /\ f \in BOOLEAN
  <2>1. Vuelve(q) = FALSE /\ (q \in Elems(cola_new)) = FALSE /\ (q \in Elems(cola_exit)) = FALSE
    BY <1>2 DEF Vuelve
  <2> QED BY <1>2, <1>3, <1>5, <2>1, EnReglaDe
<1>7. /\ ~f /\ ProgramaDe(pcb, c) /\ TablaDe(pcb.tabla_de_segmentos, Segmentos(c))
      /\ ~pcb.page_fault /\ ~pcb.segmentation_fault
  BY <1>6 DEF EnRegla
<1>8. pcb.program_counter < Len(pcb.instrucciones)
  BY <1>1 DEF InvE, Pcbs, EnCpuBien
<1>9. pcb.program_counter \in Nat /\ pcb.program_counter + 1 \in DOMAIN pcb.instrucciones
      /\ Len(pcb.instrucciones) \in Nat
  BY <1>2, <1>8, DeLista DEF BuenPcb, EsPrograma
<1>10. ~Acabado(q)
  BY <1>2, <1>3, <1>7, <1>8, <1>9 DEF Acabado
<1>11. Cuerda(memoria, q) /\ Datos(memoria) /\ TlbUna(tlb)
  BY <1>2, CuerdaDe DEF InvD, TlbBien
<1>12. \A k \in Claves(tlb) : k[1] = q => EnTlb(pcb, memoria, k[2], tlb.marco[k])
  BY <1>2, <1>3, <1>10, Propios DEF Propio
<1> QED BY <1>1, <1>2, <1>3, <1>4, <1>5, <1>7, <1>9, <1>10, <1>11, <1>12 DEF EnMano

\* The words of a process.
LaMemoria(mem, pcb, c) == [dir \in DireccionesDe(c) |-> SinSigno(PalabraA(mem, pcb, dir))]

\* A step of the CPU leaves PCB n, whose instruction has not had its effect yet when f.
Corrido(c, pcb, n, f) ==
    /\ InvD' /\ Pasado(c) /\ DichoQuieto(c)
    /\ EnMarcha(c, Traduccion(pcb.instrucciones), pcb.program_counter + 1, pcb.registros)
    /\ Terminado(n) /\ ~f => ProcesoDe(c)' = [estado |-> "fin"]
    /\ ~Terminado(n) =>
          ProcesoDe(c)' = [estado |-> "corre", programa |-> Traduccion(n.instrucciones),
                           pc |-> n.program_counter + (IF f THEN 0 ELSE 1),
                           registros |-> n.registros]
    /\ MemoriaDe(c) = LaMemoria(memoria, pcb, c)
    /\ Terminado(n) => MemoriaDe(c)' = SinMemoria(c)
    /\ ~Terminado(n) => MemoriaDe(c)' = LaMemoria(memoria', n, c)
LEMMA AlCorrer ==
    ASSUME InvE, InvM, InvD, InvE', ProgramasNormales, NEW q, NEW pcb, NEW c, EnMano(q, pcb, c),
           UNCHANGED <<deConsolas, conexiones, deKernel, consolaDe, pantalla>>,
           NEW n, n.pid = q, NEW e \in {"ejecuta", "devuelve"}, cpu' = [estado |-> e, pcb |-> n],
           NEW f \in BOOLEAN, falta' = [falta EXCEPT ![q] = f],
           EnRegla(n, c, FALSE, FALSE, e = "devuelve", "ninguno", f),
           Datos(memoria'), memoria' = memoria \/ Aparte(memoria, memoria', q), Cuerda(memoria', q),
           TlbUna(tlb'),
           \A k \in Claves(tlb') :
              IF k[1] = q THEN Terminado(n) \/ EnTlb(n, memoria', k[2], tlb'.marco[k])
              ELSE k \in Claves(tlb) /\ tlb'.marco[k] = tlb.marco[k]
    PROVE  Corrido(c, pcb, n, f)
<1>1. /\ pid_actual' = pid_actual /\ pcbs' = pcbs /\ cola_new' = cola_new
      /\ cola_exit' = cola_exit /\ hilo' = hilo /\ consolaDe' = consolaDe
      /\ consola' = consola /\ haciaKernel' = haciaKernel /\ haciaConsola' = haciaConsola
      /\ pantalla' = pantalla
  BY DEF deKernel, colas, deConsolas
<1>2. cpu' # Libre /\ cpu'.pcb.pid = q /\ cpu'.pcb = n /\ cpu'.estado = e
  BY DEF Libre
<1>3. /\ q \in 1..pid_actual /\ q \in Pids /\ c \in Consolas /\ c = consolaDe[q]
      /\ cpu # Libre /\ q = cpu.pcb.pid /\ PcbDe(q) = pcb /\ Vive(q) /\ Admitido(q)
      /\ ~Acabado(q) /\ ~falta[q] /\ hilo[q] = "ninguno"
      /\ q \notin Elems(cola_new) /\ q \notin Elems(cola_exit)
  BY DEF EnMano
<1>4. \A p : (EnCpuEsta(p)' <=> p = q) /\ (EnCpuEsta(p) <=> p = q)
  BY <1>2, <1>3 DEF EnCpuEsta
<1>5. /\ \A p : Vive(p)' <=> Vive(p)
      /\ \A p : p # q => PcbDe(p)' = PcbDe(p) /\ (Vuelve(p)' <=> Vuelve(p))
      /\ PcbDe(q)' = n /\ (Vuelve(q)' <=> e = "devuelve")
  <2>1. \A p : Vive(p)' <=> Vive(p)
    BY <1>1, <1>4 DEF Vive
  <2>2. \A p : p # q => PcbDe(p)' = PcbDe(p) /\ (Vuelve(p)' <=> Vuelve(p))
    BY <1>1, <1>4 DEF PcbDe, Vuelve
  <2>3. PcbDe(q)' = n /\ (Vuelve(q)' <=> e = "devuelve")
    BY <1>2, <1>4 DEF PcbDe, Vuelve
  <2> QED BY <2>1, <2>2, <2>3
<1>6. /\ \A p : (p \in Elems(cola_new))' <=> p \in Elems(cola_new)
      /\ \A p : (p \in Elems(cola_exit))' <=> p \in Elems(cola_exit)
      /\ \A p : Admitido(p)' <=> Admitido(p)
  BY <1>1, <1>5 DEF Elems, Admitido
<1>7. falta \in [Pids -> BOOLEAN] /\ \A p \in Pids : p > pid_actual => ~falta[p]
  BY DEF InvD
<1>8. /\ falta' \in [Pids -> BOOLEAN] /\ falta'[q] = f
      /\ \A p \in Pids \ {q} : falta'[p] = falta[p]
  BY <1>3, <1>7
<1>9. ASSUME NEW p \in (1..pid_actual) \ {q} PROVE Ajeno(p)
  <2>1. p \in Pids
    BY PidsAlcanzan DEF InvE
  <2> QED BY <1>1, <1>5, <1>6, <1>8, <2>1 DEF Ajeno
<1>10. Turno(c)
  <2>1. /\ UNCHANGED <<pid_actual, consolaDe>>
        /\ \A d \in Consolas \ {c} :
              /\ haciaKernel'[d] = haciaKernel[d] /\ haciaConsola'[d] = haciaConsola[d]
              /\ pantalla'[d] = pantalla[d]
              /\ (consola'[d] = "muerta" <=> consola[d] = "muerta")
              /\ (consola'[d] = "imprimio" <=> consola[d] = "imprimio")
    BY <1>1
  <2> QED BY <1>3, <1>9, <2>1, SuTurno
<1>11. PICK h : h = "ninguno"
  OBVIOUS
<1>12. PICK vuelve : vuelve = (e = "devuelve")
  OBVIOUS
<1>13. Bien(q)'
  <2>1. /\ (q \in Elems(cola_new))' = FALSE /\ (q \in Elems(cola_exit))' = FALSE
        /\ Vuelve(q)' = vuelve
    BY <1>3, <1>5, <1>6, <1>12 DEF Vuelve
  <2>2. /\ n = PcbDe(q)' /\ c = consolaDe'[q] /\ h = hilo'[q] /\ f = falta'[q]
        /\ Vive(q)' /\ h # "contestar"
    BY <1>1, <1>3, <1>5, <1>8, <1>11
  <2>3. EnRegla(n, c, FALSE, FALSE, vuelve, h, f)
    BY <1>11, <1>12, Zenon
  <2> QED BY <2>1, <2>2, <2>3, BienCon
<1>14. Acabado(q)' <=> Terminado(n)
  <2>1. Acabado(q)' <=> ~(Vive(q)') \/ PcbDe(q)'.segmentation_fault
                       \/ PcbDe(q)'.program_counter = Len(PcbDe(q)'.instrucciones)
    BY DEF Acabado
  <2> QED BY <1>3, <1>5, <2>1 DEF Terminado
<1>15. Propio(q)'
  <2>1. ASSUME ~Acabado(q)', NEW k \in Claves(tlb'), k[1] = q
        PROVE  EnTlb(PcbDe(q)', memoria', k[2], tlb'.marco[k])
    BY <1>5, <1>14, <2>1
  <2> QED BY <1>13, <2>1, Zenon DEF Propio
<1>16. Claveado(c)
  <2>1. TlbUna(tlb)'
    BY DEF TlbUna, Claves
  <2>2. consolaDe'[q] = c
    BY <1>1, <1>3
  <2> QED BY <2>1, <2>2 DEF Claveado
<1>17. InvD' /\ Pasado(c)
  <2>1. \A p \in Pids : p > pid_actual' => ~falta'[p]
    <3>1. pid_actual \in Nat
      BY PidsAlcanzan DEF InvE, Tipos
    <3>2. ASSUME NEW p \in Pids, p > pid_actual PROVE ~falta'[p]
      <4>1. p # q
        BY <1>3, <3>1, <3>2
      <4> QED BY <1>7, <1>8, <3>2, <4>1
    <3> QED BY <1>1, <3>2
  <2>2. q \in 1..pid_actual' /\ consolaDe'[q] = c
    BY <1>1, <1>3
  <2> QED BY <1>3, <1>8, <1>10, <1>15, <1>16, <2>1, <2>2, TrasSuPaso
<1>18. DichoQuieto(c)
  BY <1>1 DEF DichoQuieto, TecleadoDe
<1>19. ProcesoDe(c) = ProcesoEs(q) /\ MemoriaDe(c) = MemoriaEs(q, c)
  BY <1>3, MaquinaDe
<1>20. ProcesoDe(c)' = ProcesoEs(q)' /\ MemoriaDe(c)' = MemoriaEs(q, c)'
  BY <1>1, <1>3, MaquinaDespues
<1>21. EnMarcha(c, Traduccion(pcb.instrucciones), pcb.program_counter + 1, pcb.registros)
  BY <1>3, <1>19 DEF ProcesoEs, EnMarcha
<1>22. /\ Terminado(n) /\ ~f => ProcesoEs(q)' = [estado |-> "fin"]
       /\ ~Terminado(n) =>
             ProcesoEs(q)' = [estado |-> "corre", programa |-> Traduccion(n.instrucciones),
                              pc |-> n.program_counter + (IF f THEN 0 ELSE 1),
                              registros |-> n.registros]
  <2>1. ~((q \in Elems(cola_new))')
    BY <1>3, <1>6
  <2> QED BY <1>5, <1>8, <1>14, <2>1 DEF ProcesoEs
<1>23. MemoriaEs(q, c) = LaMemoria(memoria, pcb, c)
  BY <1>3 DEF MemoriaEs, LaMemoria
<1>24. /\ Terminado(n) => MemoriaEs(q, c)' = SinMemoria(c)
       /\ ~Terminado(n) => MemoriaEs(q, c)' = LaMemoria(memoria', n, c)
  <2>1. Admitido(q)'
    BY <1>3, <1>6
  <2> QED BY <1>5, <1>14, <2>1 DEF MemoriaEs, LaMemoria, SinMemoria
<1> QED BY <1>17, <1>18, <1>19, <1>20, <1>21, <1>22, <1>23, <1>24 DEF Corrido

\* The instruction of Maquina an instruction is.
LEMMA Traducidas ==
    ASSUME NEW i
    PROVE  /\ i.operacion = "SET" =>
                 Traducir(i) = [op |-> "SET", r |-> i.parametro1, n |-> atoi(i.parametro2)]
           /\ i.operacion = "ADD" =>
                 Traducir(i) = [op |-> "ADD", r |-> i.parametro1, s |-> i.parametro2]
           /\ i.operacion = "MOV_IN" =>
                 Traducir(i) = [op |-> "MOV_IN", r |-> i.parametro1, dir |-> obtener_dir_logica(i)]
           /\ i.operacion = "MOV_OUT" =>
                 Traducir(i) = [op |-> "MOV_OUT", r |-> i.parametro2, dir |-> obtener_dir_logica(i)]
           /\ i.operacion = "IO" /\ ~EsDeConsola(i) => Traducir(i) = [op |-> "ESPERA"]
           /\ i.operacion = "EXIT" => Traducir(i) = [op |-> "EXIT"]
BY DEF Traducir, EsDeConsola, obtener_dir_logica

\* The instruction the CPU is at, in a program that respects what ProgramaNormal says.
Actual(i, k, pcb) ==
    /\ i = fetch(pcb) /\ k = pcb.program_counter + 1 /\ k \in 1..Len(pcb.instrucciones)
    /\ k \in DOMAIN pcb.instrucciones /\ i = pcb.instrucciones[k]
    /\ Traduccion(pcb.instrucciones)[k] = Traducir(i) /\ i.operacion \in DelLenguaje
    /\ i.operacion = "EXIT" <=> k = Len(pcb.instrucciones)
    /\ i.operacion = "ADD" =>
          i.parametro1 \in NombresRegistros /\ i.parametro2 \in NombresRegistros
    /\ i.operacion = "MOV_OUT" => i.parametro2 \in NombresRegistros
    /\ EsAcceso(i) => obtener_dir_logica(i) % AnchoInt = 0
LEMMA ActualEs ==
    ASSUME ProgramasNormales, NEW q, NEW pcb, NEW c, EnMano(q, pcb, c), NEW i, i = fetch(pcb),
           NEW k, k = pcb.program_counter + 1
    PROVE  Actual(i, k, pcb)
<1>1. /\ BuenPcb(pcb, q) /\ c \in Consolas /\ ProgramaDe(pcb, c) /\ k \in DOMAIN pcb.instrucciones
  BY DEF EnMano
<1>2. PICK L : L = pcb.instrucciones
  OBVIOUS
<1>3. /\ DOMAIN L = 1..Len(L) /\ Len(L) \in Nat
      /\ \A j \in DOMAIN L : L[j].operacion = "EXIT" => j = Len(L)
  BY <1>1, <1>2, DeLista DEF BuenPcb, EsPrograma
<1>4. PICK a \in Archivos(c) : SePuedeLeer(a) /\ L = obtener_pseudocodigo(a)
  BY <1>1, <1>2 DEF ProgramaDe
<1>5. ProgramaNormal(L)
  BY <1>1, <1>4 DEF ProgramasNormales
<1>6. i = L[k]
  BY <1>2 DEF fetch
<1>7. i.operacion \in DelLenguaje
  BY <1>1, <1>2, <1>4, <1>6, Conocidas
<1>8. Traduccion(L)[k] = Traducir(i)
  BY <1>1, <1>2, <1>6 DEF Traduccion
<1>9. i.operacion = "EXIT" <=> k = Len(L)
  BY <1>1, <1>2, <1>3, <1>5, <1>6 DEF ProgramaNormal
<1>10. /\ i.operacion = "ADD" =>
             i.parametro1 \in NombresRegistros /\ i.parametro2 \in NombresRegistros
       /\ i.operacion = "MOV_OUT" => i.parametro2 \in NombresRegistros
       /\ EsAcceso(i) => obtener_dir_logica(i) % AnchoInt = 0
  BY <1>1, <1>2, <1>5, <1>6 DEF ProgramaNormal
<1> QED BY <1>1, <1>2, <1>3, <1>6, <1>7, <1>8, <1>9, <1>10 DEF Actual

\* A turn that decode lets through: PCB n goes on, or comes back.
Prosigue(q, pcb, i, x, n, e) ==
    /\ cpu' = [estado |-> e, pcb |-> n] /\ e \in {"ejecuta", "devuelve"} /\ n.pid = q
    /\ i.operacion = "IO" => e = "devuelve"
    /\ n.instrucciones = pcb.instrucciones /\ n.program_counter = pcb.program_counter + 1
    /\ n.tabla_de_segmentos = pcb.tabla_de_segmentos /\ n.registros = x.pcb.registros
    /\ ~n.page_fault /\ ~n.segmentation_fault
    /\ memoria' = x.mem /\ tlb' = x.tlb /\ falta' = [falta EXCEPT ![q] = EsDeConsola(i)]
LEMMA LoQueSigue ==
    ASSUME NEW q, NEW pcb, NEW c, EnMano(q, pcb, c), EjecutarInstruccion, NEW i, i = fetch(pcb),
           NEW d, d = decode(pcb, i, memoria, tlb), ~d.error,
           NEW x, x = ejecutar_instruccion(pcb, i, memoria, d)
    PROVE  \E n, e : Prosigue(q, pcb, i, x, n, e)
<1>1. /\ BuenPcb(pcb, q) /\ PcbConMemoria(pcb, q, memoria) /\ pcb = cpu.pcb
      /\ EsMemoria(memoria) /\ BuenaMemoria(memoria) /\ BuenaTlb(tlb)
      /\ ~pcb.page_fault /\ ~pcb.segmentation_fault
  BY DEF EnMano
<1>2. PICK j \in DOMAIN pcb.instrucciones : i = pcb.instrucciones[j] /\ j = pcb.program_counter + 1
  BY DEF EnMano, fetch
<1>3. d.pcb = pcb /\ BuenaTlb(d.tlb) /\ (EsAcceso(i) => d.pagina \in LasPaginas(memoria))
  <2>1. d.pcb = pcb
    BY <1>1, Decodifica
  <2>2. BuenaTlb(d.tlb) /\ (~d.error /\ EsAcceso(i) => d.pagina \in LasPaginas(memoria))
    BY <1>1, <1>2, AlDecodificar
  <2> QED BY <2>1, <2>2
<1>4. BuenPcb(x.pcb, q) /\ Quieto(x.pcb, pcb)
  BY <1>1, Ejecuta
<1>5. DeMemoria(x.pcb, pcb)
  BY <1>1, <1>3, AlEjecutarMemoria
<1>6. PICK y : y = x.pcb
  OBVIOUS
<1>7. PICK s : s = [y EXCEPT !.program_counter = @ + 1]
  OBVIOUS
<1>8. /\ memoria' = x.mem /\ tlb' = x.tlb /\ falta' = [falta EXCEPT ![pcb.pid] = EsDeConsola(i)]
      /\ IF i.operacion = "IO" THEN cpu' = [estado |-> "devuelve", pcb |-> s]
         ELSE \/ cpu' = EnCpu(s)
              \/ cpu' = [estado |-> "devuelve", pcb |-> [s EXCEPT !.interrupcion = TRUE]]
  BY <1>1, <1>3, <1>6, <1>7 DEF EjecutarInstruccion
<1>9. PICK m : m = y.program_counter + 1
  OBVIOUS
<1>10. /\ BuenPcb(y, q) /\ y.program_counter = pcb.program_counter
       /\ y.instrucciones = pcb.instrucciones /\ y.tabla_de_segmentos = pcb.tabla_de_segmentos
       /\ ~y.page_fault /\ ~y.segmentation_fault /\ y.registros = x.pcb.registros
  BY <1>1, <1>4, <1>5, <1>6 DEF Quieto, Igual, DeMemoria
<1>11. /\ s.pid = q /\ s.instrucciones = pcb.instrucciones
       /\ s.program_counter = pcb.program_counter + 1
       /\ s.tabla_de_segmentos = pcb.tabla_de_segmentos /\ s.registros = x.pcb.registros
       /\ ~s.page_fault /\ ~s.segmentation_fault
  <2>1. s = [y EXCEPT !.program_counter = m]
    BY <1>7, <1>9
  <2>2. DOMAIN y = CamposPcb /\ y = [z \in CamposPcb |-> y[z]] /\ y.pid = q
    BY <1>10 DEF BuenPcb
  <2> QED BY <1>9, <1>10, <2>1, <2>2 DEF CamposPcb
<1>12. BuenPcb(s, q)
  <2>1. y.program_counter < Len(y.instrucciones)
    BY <1>1, <1>2, <1>10, DeLista DEF BuenPcb, EsPrograma
  <2> QED BY <1>7, <1>10, <2>1, Avanza
<1>13. PICK g : g = [s EXCEPT !.interrupcion = TRUE]
  OBVIOUS
<1>14. Trae(g, s) /\ g.pid = q
  <2>1. Trae(g, s)
    BY <1>12, <1>13, TraeIgual
  <2>2. BuenPcb(g, q)
    BY <1>12, <1>13, Interrumpido
  <2> QED BY <2>1, <2>2 DEF BuenPcb
<1>15. pcb.pid = q
  BY <1>1 DEF BuenPcb
<1>16. CASE cpu' = [estado |-> "devuelve", pcb |-> s]
  <2>1. Prosigue(q, pcb, i, x, s, "devuelve")
    BY <1>8, <1>11, <1>15, <1>16 DEF Prosigue
  <2> QED BY <2>1
<1>17. CASE i.operacion # "IO" /\ cpu' = EnCpu(s)
  <2>1. PICK e : e = IF s.program_counter < Len(s.instrucciones) THEN "ejecuta" ELSE "devuelve"
    OBVIOUS
  <2>2. cpu' = [estado |-> e, pcb |-> s] /\ e \in {"ejecuta", "devuelve"}
    BY <1>17, <2>1 DEF EnCpu
  <2>3. Prosigue(q, pcb, i, x, s, e)
    BY <1>8, <1>11, <1>15, <1>17, <2>2 DEF Prosigue
  <2> QED BY <2>3
<1>18. CASE i.operacion # "IO" /\ cpu' = [estado |-> "devuelve", pcb |-> g]
  <2>1. Prosigue(q, pcb, i, x, g, "devuelve")
    BY <1>8, <1>11, <1>14, <1>15, <1>18 DEF Prosigue, Trae, Mira
  <2> QED BY <2>1
<1> QED BY <1>8, <1>13, <1>16, <1>17, <1>18

\* What InvD says of PCB n.
LaRegla(c, pcb, i, n, e) ==
    /\ EnRegla(n, c, FALSE, FALSE, e = "devuelve", "ninguno", EsDeConsola(i))
    /\ Terminado(n) <=> pcb.program_counter + 1 = Len(pcb.instrucciones)
LEMMA EnReglaSigue ==
    ASSUME NEW q, NEW pcb, NEW c, EnMano(q, pcb, c), NEW i, NEW k, Actual(i, k, pcb), NEW x, NEW n,
           NEW e, Prosigue(q, pcb, i, x, n, e)
    PROVE  LaRegla(c, pcb, i, n, e)
<1> DEFINE f == EsDeConsola(i)
<1>0. i = fetch(pcb)
  BY DEF Actual
<1>1. /\ ProgramaDe(pcb, c) /\ TablaDe(pcb.tabla_de_segmentos, Segmentos(c))
      /\ pcb.program_counter \in Nat
  BY DEF EnMano
<1>2. /\ n.instrucciones = pcb.instrucciones /\ n.program_counter = pcb.program_counter + 1
      /\ n.tabla_de_segmentos = pcb.tabla_de_segmentos /\ ~n.page_fault /\ ~n.segmentation_fault
      /\ i.operacion = "IO" => e = "devuelve"
  BY DEF Prosigue
<1>3. ProgramaDe(n, c) /\ TablaDe(n.tabla_de_segmentos, Segmentos(c)) /\ FallaBien(n)
  BY <1>1, <1>2 DEF ProgramaDe, FallaBien
<1>4. obtener_ultima_instruccion(n) = i /\ n.program_counter >= 1
  BY <1>0, <1>1, <1>2 DEF obtener_ultima_instruccion, fetch
<1>5. EnEspera(n) <=> f
  BY <1>2, <1>4 DEF EnEspera, UltimaEsDeConsola
<1>6. f \in BOOLEAN /\ (f => i.operacion = "IO")
  BY DEF EsDeConsola, f
<1> QED BY <1>2, <1>3, <1>5, <1>6 DEF EnRegla, Terminado, LaRegla, f

\* The page of the address of an access, and whether it is in its segment.
Accesible(q, pcb, c, dir) ==
    LET k == ClaveA(dir)
        x == PaginaEn(pcb, k)
    IN
    /\ k = <<k[1], k[2]>> /\ k[1] + 1 \in DOMAIN pcb.tabla_de_segmentos
    /\ k[2] \in 0..(EntradasPorTabla - 1)
    /\ x \in PaginasDe(memoria, q) /\ x \in LasPaginas(memoria) /\ PidDe(memoria, x) = q
    /\ dir % TamPagina \in Offsets
    /\ dir \in DireccionesDe(c) <=>
          ~(dir % TamMax >= pcb.tabla_de_segmentos[ClaveA(dir)[1] + 1].tamanio_segmento)
LEMMA AccesoEs ==
    ASSUME ProgramasNormales, EntradasTlb \in {0, 1}, NEW q, NEW pcb, NEW c, EnMano(q, pcb, c),
           NEW i, NEW k, Actual(i, k, pcb), EsAcceso(i), NEW dir, dir = obtener_dir_logica(i),
           NEW d, d = decode(pcb, i, memoria, tlb)
    PROVE  Accesible(q, pcb, c, dir) /\ Decodificado(d, pcb, dir, memoria, tlb)
<1>1. /\ BuenPcb(pcb, q) /\ PcbConMemoria(pcb, q, memoria) /\ c \in Consolas
      /\ EsMemoria(memoria) /\ BuenaMemoria(memoria) /\ BuenaTlb(tlb) /\ TlbUna(tlb)
      /\ TablaDe(pcb.tabla_de_segmentos, Segmentos(c))
      /\ \A j \in Claves(tlb) : j[1] = q => EnTlb(pcb, memoria, j[2], tlb.marco[j])
  BY DEF EnMano
<1>2. /\ i = fetch(pcb) /\ k = pcb.program_counter + 1 /\ k \in DOMAIN pcb.instrucciones
      /\ i = pcb.instrucciones[k] /\ dir % AnchoInt = 0
  BY DEF Actual
<1>3. PICK ts, n : ts = pcb.tabla_de_segmentos /\ n = Len(ts)
  OBVIOUS
<1>4. n \in Nat /\ DOMAIN ts = 1..n
  BY <1>1, <1>3, DeLista DEF BuenPcb
<1>5. dir \in 0..(n * TamPagina * EntradasPorTabla - 1)
  BY <1>1, <1>2, <1>3 DEF PcbConMemoria, Direccionable
<1>6. PICK cl : cl = ClaveA(dir)
  OBVIOUS
<1>7. /\ cl = <<cl[1], cl[2]>> /\ cl[1] + 1 \in 1..n /\ cl[2] \in 0..(EntradasPorTabla - 1) /\ dir % TamPagina \in Offsets
      /\ dir % TamMax \in Nat
  BY <1>2, <1>4, <1>5, <1>6, DireccionDe
<1>8. PICK x : x = PaginaEn(pcb, cl)
  OBVIOUS
<1>9. x \in PaginasDe(memoria, q) /\ x \in LasPaginas(memoria) /\ PidDe(memoria, x) = q
  BY <1>1, <1>3, <1>4, <1>7, <1>8, PaginaPropia DEF PaginaEn
<1>10. Decodificado(d, pcb, dir, memoria, tlb)
  <2>1. ASSUME <<q, cl>> \in Claves(tlb)
        PROVE  /\ Entrada(memoria, x).presencia
               /\ Entrada(memoria, x).marco = tlb.marco[<<q, cl>>]
    <3>1. EnTlb(pcb, memoria, cl, tlb.marco[<<q, cl>>])
      BY <1>1, <2>1
    <3>2. DirProxima(pcb) = dir
      BY <1>2 DEF DirProxima
    <3> QED BY <1>6, <1>8, <3>1, <3>2 DEF EnTlb
  <2>2. <<q, ClaveA(dir)>> \in Claves(tlb) =>
               LET e == Entrada(memoria, PaginaEn(pcb, ClaveA(dir))) IN
               e.presencia /\ e.marco = tlb.marco[<<q, ClaveA(dir)>>]
    BY <1>6, <1>8, <2>1
  <2>3. PICK S : S = Segmentos(c)
    OBVIOUS
  <2>4. TablaDe(pcb.tabla_de_segmentos, S)
    BY <1>1, <2>3
  <2>5. Decodificado(decode(pcb, i, memoria, tlb), pcb, dir, memoria, tlb)
    BY <1>1, <1>2, <2>2, <2>4, AlDecodificarAcceso
  <2> QED BY <2>5
<1>11. dir \in DireccionesDe(c) <=> ~(dir % TamMax >= ts[cl[1] + 1].tamanio_segmento)
  <2>1. PICK S : S = Segmentos(c)
    OBVIOUS
  <2>2. Len(S) = n /\ ts[cl[1] + 1].tamanio_segmento = atoi(S[cl[1] + 1])
    BY <1>1, <1>3, <1>4, <1>7, <2>1 DEF TablaDe
  <2>3. DOMAIN S = 1..n /\ EsTexto(S[cl[1] + 1])
    BY <1>1, <1>7, <2>1, <2>2, DeLista, ArchivosAssumption
  <2>4. atoi(S[cl[1] + 1]) \in Int
    BY <2>3, NumeroTexto
  <2>5. dir \in DireccionesDe(c) <=> dir % TamMax < atoi(S[cl[1] + 1])
    BY <1>1, <1>2, <1>5, <1>6, <2>1, <2>2, DireccionPropia
  <2> QED BY <1>7, <2>2, <2>4, <2>5
<1> QED BY <1>3, <1>4, <1>6, <1>7, <1>8, <1>9, <1>10, <1>11 DEF Accesible

\* A PCB of the same segments, and the same memory.
LEMMA LaMemoriaIgual ==
    ASSUME NEW mem, NEW n, NEW pcb, NEW c, n.tabla_de_segmentos = pcb.tabla_de_segmentos
    PROVE  LaMemoria(mem, n, c) = LaMemoria(mem, pcb, c)
BY DEF LaMemoria, PalabraA, PaginaEn

\* Any memory will do for a process that ended.
LEMMA SinMemoriaEs ==
    ASSUME NEW c PROVE SinMemoria(c) \in [DireccionesDe(c) -> 0..(Modulo - 1)]
BY ModuloAssumption DEF SinMemoria

\* decode sends the process back: past its segment, or for a page.
LEMMA RefError ==
    ASSUME InvE, InvM, InvD, InvE', ProgramasNormales, EntradasTlb \in {0, 1},
           NEW q, NEW pcb, NEW c, EnMano(q, pcb, c), EjecutarInstruccion,
           NEW i, NEW k, Actual(i, k, pcb), EsAcceso(i),
           NEW d, d = decode(pcb, i, memoria, tlb), d.error
    PROVE  Refina
<1>1. PICK dir : dir = obtener_dir_logica(i)
  OBVIOUS
<1>2. Accesible(q, pcb, c, dir) /\ Decodificado(d, pcb, dir, memoria, tlb)
  BY <1>1, AccesoEs
<1>3. PICK n : n = d.pcb
  OBVIOUS
<1>4. /\ pcb = cpu.pcb /\ BuenPcb(pcb, q) /\ ~falta[q] /\ Datos(memoria) /\ Cuerda(memoria, q)
      /\ ProgramaDe(pcb, c) /\ TablaDe(pcb.tabla_de_segmentos, Segmentos(c))
      /\ ~pcb.page_fault /\ ~pcb.segmentation_fault /\ c \in Consolas /\ TlbUna(tlb)
      /\ \A j \in Claves(tlb) : j[1] = q => EnTlb(pcb, memoria, j[2], tlb.marco[j])
  BY DEF EnMano
<1>5. /\ cpu' = [estado |-> "devuelve", pcb |-> n] /\ tlb' = d.tlb /\ memoria' = memoria
      /\ falta' = falta
      /\ UNCHANGED <<deConsolas, conexiones, deKernel, consolaDe, pantalla>>
  BY <1>3, <1>4 DEF EjecutarInstruccion, Actual
<1>6. /\ i = fetch(pcb) /\ k = pcb.program_counter + 1 /\ k \in 1..Len(pcb.instrucciones)
      /\ Traduccion(pcb.instrucciones)[k] = Traducir(i) /\ i.operacion # "EXIT"
      /\ pcb.program_counter < Len(pcb.instrucciones) /\ pcb.program_counter \in Nat
  <2>1. pcb.program_counter \in Nat /\ Len(pcb.instrucciones) \in Nat
    BY <1>4, DeLista DEF BuenPcb, EsPrograma
  <2> QED BY <2>1 DEF Actual, EsAcceso
<1>7. PICK x : x = PaginaEn(pcb, ClaveA(dir))
  OBVIOUS
<1>8. /\ tlb' = tlb
      /\ \/ n = [pcb EXCEPT !.segmentation_fault = TRUE] /\ dir \notin DireccionesDe(c)
         \/ n = [pcb EXCEPT !.page_fault = TRUE, !.pagina_fault = x]
  BY <1>2, <1>3, <1>5, <1>7 DEF Decodificado, Accesible
<1>9. /\ n.pid = q /\ Mira(n, pcb) /\ n.registros = pcb.registros
      /\ \/ /\ n.segmentation_fault /\ ~n.page_fault /\ dir \notin DireccionesDe(c)
         \/ ~n.segmentation_fault /\ n.page_fault /\ n.pagina_fault = x
  <2>1. DOMAIN pcb = CamposPcb /\ pcb = [z \in CamposPcb |-> pcb[z]] /\ pcb.pid = q
    BY <1>4 DEF BuenPcb
  <2>2. CASE n = [pcb EXCEPT !.segmentation_fault = TRUE] /\ dir \notin DireccionesDe(c)
    BY <1>4, <2>1, <2>2 DEF CamposPcb, Mira
  <2>3. CASE n = [pcb EXCEPT !.page_fault = TRUE, !.pagina_fault = x]
    BY <1>4, <2>1, <2>3 DEF CamposPcb, Mira
  <2> QED BY <1>8, <2>2, <2>3
<1>10. falta' = [falta EXCEPT ![q] = FALSE]
  BY <1>4, <1>5 DEF InvD
<1>11. EnRegla(n, c, FALSE, FALSE, TRUE, "ninguno", FALSE)
  <2>1. ProgramaDe(n, c) /\ TablaDe(n.tabla_de_segmentos, Segmentos(c))
    BY <1>4, <1>9 DEF ProgramaDe, Mira
  <2>2. fetch(n) = i /\ ProximaEsAcceso(n) /\ DirProxima(n) = dir /\ PaginaEn(n, ClaveA(dir)) = x
    BY <1>1, <1>6, <1>7, <1>9 DEF Mira, fetch, ProximaEsAcceso, DirProxima, PaginaEn
  <2>3. FallaBien(n)
    BY <1>9, <2>2 DEF FallaBien
  <2>4. ~EnEspera(n)
    BY <1>9 DEF EnEspera
  <2> QED BY <2>1, <2>3, <2>4 DEF EnRegla
<1>12. Corrido(c, pcb, n, FALSE)
  <2>1. PICK e : e = "devuelve"
    OBVIOUS
  <2>2. \A j \in Claves(tlb') :
           IF j[1] = q THEN Terminado(n) \/ EnTlb(n, memoria', j[2], tlb'.marco[j])
           ELSE j \in Claves(tlb) /\ tlb'.marco[j] = tlb.marco[j]
    BY <1>4, <1>5, <1>8, <1>9, EnTlbMira
  <2>3. EnRegla(n, c, FALSE, FALSE, e = "devuelve", "ninguno", FALSE)
    <3>1. (e = "devuelve") = TRUE
      BY <2>1
    <3> QED BY <1>11, <3>1, Zenon
  <2>4. cpu' = [estado |-> e, pcb |-> n] /\ e \in {"ejecuta", "devuelve"}
    BY <1>5, <2>1
  <2>5. TlbUna(tlb') /\ Datos(memoria') /\ Cuerda(memoria', q)
    BY <1>4, <1>5, <1>8
  <2>6. FALSE \in BOOLEAN
    OBVIOUS
  <2> QED BY ONLY InvE, InvM, InvD, InvE', ProgramasNormales, EnMano(q, pcb, c), <1>5, <1>9,
               <1>10, <2>2, <2>3, <2>4, <2>5, <2>6, AlCorrer
<1>13. PICK L, R : L = Traduccion(pcb.instrucciones) /\ R = pcb.registros
  OBVIOUS
<1>14. /\ InvD' /\ Pasado(c) /\ DichoQuieto(c) /\ EnMarcha(c, L, k, R)
       /\ Terminado(n) => /\ ProcesoDe(c)' = [estado |-> "fin"] /\ MemoriaDe(c)' = SinMemoria(c)
       /\ ~Terminado(n) =>
             /\ ProcesoDe(c)' = [estado |-> "corre", programa |-> Traduccion(n.instrucciones),
                                 pc |-> n.program_counter + 1, registros |-> n.registros]
             /\ MemoriaDe(c)' = LaMemoria(memoria', n, c)
       /\ MemoriaDe(c) = LaMemoria(memoria, pcb, c)
  BY <1>6, <1>12, <1>13 DEF Corrido
<1>15. CASE n.segmentation_fault
  <2>1. Terminado(n) /\ dir \notin DireccionesDe(c)
    BY <1>9, <1>15 DEF Terminado
  <2>2. L[k] = Traducir(i)
    BY <1>6, <1>13
  <2>3. L[k].op \in {"MOV_IN", "MOV_OUT"} /\ L[k].dir = dir
    <3>1. CASE i.operacion = "MOV_IN"
      BY <1>1, <2>2, <3>1, Traducidas
    <3>2. CASE i.operacion = "MOV_OUT"
      BY <1>1, <2>2, <3>2, Traducidas
    <3> QED BY <3>1, <3>2 DEF EsAcceso
  <2>4. MemoriaDe(c)' \in [DireccionesDe(c) -> 0..(Modulo - 1)]
    BY <1>14, <2>1, SinMemoriaEs
  <2>5. Maq!Next
    BY <1>4, <1>14, <2>1, <2>3, <2>4, MaqTermina
  <2> QED BY <1>14, <2>5 DEF Refina
<1>16. CASE ~n.segmentation_fault
  <2>1. ~Terminado(n)
    <3>1. Len(pcb.instrucciones) \in Nat
      BY <1>4, DeLista DEF BuenPcb, EsPrograma
    <3> QED BY <1>6, <1>9, <1>16, <3>1 DEF Terminado, Mira
  <2>2. ProcesoDe(c)' = ProcesoDe(c)
    BY <1>6, <1>9, <1>13, <1>14, <2>1 DEF EnMarcha, Mira
  <2>3. MemQuieta(c)
    BY <1>5, <1>9, <1>14, <2>1, LaMemoriaIgual DEF MemQuieta, Mira
  <2>4. MaqVars' = MaqVars
    BY <1>4, <1>14, <2>2, <2>3, MaqQuieta
  <2> QED BY <1>14, <2>4 DEF Refina
<1> QED BY <1>15, <1>16

\* A turn that leaves the words as they are, and the entries of the TLB or some of them.
LEMMA AlProseguir ==
    ASSUME InvE, InvM, InvD, InvE', ProgramasNormales, NEW q, NEW pcb, NEW c, EnMano(q, pcb, c),
           EjecutarInstruccion, NEW i, NEW k, Actual(i, k, pcb), NEW x, NEW n, NEW e,
           Prosigue(q, pcb, i, x, n, e), NEW f, f = EsDeConsola(i),
           Datos(memoria'), memoria' = memoria \/ Aparte(memoria, memoria', q), Cuerda(memoria', q),
           TlbUna(tlb'),
           \A j \in Claves(tlb') :
              IF j[1] = q THEN Terminado(n) \/ EnTlb(n, memoria', j[2], tlb'.marco[j])
              ELSE j \in Claves(tlb) /\ tlb'.marco[j] = tlb.marco[j]
    PROVE  Corrido(c, pcb, n, f) /\ f \in BOOLEAN
           /\ (Terminado(n) <=> i.operacion = "EXIT")
<1>1. i = fetch(pcb) /\ k = pcb.program_counter + 1
      /\ (i.operacion = "EXIT" <=> k = Len(pcb.instrucciones))
  BY DEF Actual
<1>2. /\ EnRegla(n, c, FALSE, FALSE, e = "devuelve", "ninguno", f) /\ f \in BOOLEAN
      /\ (Terminado(n) <=> pcb.program_counter + 1 = Len(pcb.instrucciones))
  <2>1. LaRegla(c, pcb, i, n, e)
    BY EnReglaSigue
  <2>2. f \in BOOLEAN
    BY DEF EsDeConsola
  <2> QED BY <2>1, <2>2, Zenon DEF LaRegla
<1>3. UNCHANGED <<deConsolas, conexiones, deKernel, consolaDe, pantalla>>
  BY DEF EjecutarInstruccion
<1>4. /\ n.pid = q /\ e \in {"ejecuta", "devuelve"} /\ cpu' = [estado |-> e, pcb |-> n]
      /\ falta' = [falta EXCEPT ![q] = f]
  BY DEF Prosigue
<1>5. Corrido(c, pcb, n, f)
  BY <1>2, <1>3, <1>4, AlCorrer
<1> QED BY <1>1, <1>2, <1>5

\* What Maquina sees of it.
Vista(c, k, pcb, n, f) ==
    /\ InvD' /\ Pasado(c) /\ DichoQuieto(c) /\ c \in Consolas
    /\ EnMarcha(c, Traduccion(pcb.instrucciones), k, pcb.registros)
    /\ Terminado(n) /\ ~f => ProcesoDe(c)' = [estado |-> "fin"]
    /\ ~Terminado(n) /\ ~f =>
          EnMarcha(c, Traduccion(pcb.instrucciones), k + 1, n.registros)'
    /\ ~Terminado(n) /\ f => EnMarcha(c, Traduccion(pcb.instrucciones), k, n.registros)'
    /\ Terminado(n) => MemoriaDe(c)' \in [DireccionesDe(c) -> 0..(Modulo - 1)]
    /\ MemoriaDe(c) = LaMemoria(memoria, pcb, c)
    /\ ~Terminado(n) => MemoriaDe(c)' = LaMemoria(memoria', pcb, c)
LEMMA SeVe ==
    ASSUME NEW q, NEW pcb, NEW c, EnMano(q, pcb, c), NEW i, NEW k, Actual(i, k, pcb), NEW x, NEW n,
           NEW e, Prosigue(q, pcb, i, x, n, e), NEW f \in BOOLEAN, Corrido(c, pcb, n, f)
    PROVE  Vista(c, k, pcb, n, f)
<1>1. PICK L, R : L = Traduccion(pcb.instrucciones) /\ R = pcb.registros
  OBVIOUS
<1>2. /\ n.instrucciones = pcb.instrucciones /\ n.program_counter = pcb.program_counter + 1
      /\ n.tabla_de_segmentos = pcb.tabla_de_segmentos
  BY DEF Prosigue
<1>3. c \in Consolas /\ pcb.program_counter \in Nat /\ k = pcb.program_counter + 1
  BY DEF EnMano, Actual
<1>4. /\ n.program_counter = k /\ n.program_counter + 0 = k /\ Traduccion(n.instrucciones) = L
  BY <1>1, <1>2, <1>3
<1>5. /\ InvD' /\ Pasado(c) /\ DichoQuieto(c) /\ EnMarcha(c, L, k, R)
      /\ Terminado(n) /\ ~f => ProcesoDe(c)' = [estado |-> "fin"]
      /\ MemoriaDe(c) = LaMemoria(memoria, pcb, c)
      /\ Terminado(n) => MemoriaDe(c)' = SinMemoria(c)
      /\ ~Terminado(n) => MemoriaDe(c)' = LaMemoria(memoria', n, c)
  BY <1>1, <1>3 DEF Corrido
<1>6. ~Terminado(n) =>
          ProcesoDe(c)' = [estado |-> "corre", programa |-> L,
                           pc |-> n.program_counter + (IF f THEN 0 ELSE 1),
                           registros |-> n.registros]
  BY <1>4 DEF Corrido
<1>7. /\ ~Terminado(n) /\ ~f => EnMarcha(c, L, k + 1, n.registros)'
      /\ ~Terminado(n) /\ f => EnMarcha(c, L, k, n.registros)'
  BY <1>4, <1>6 DEF EnMarcha
<1>8. LaMemoria(memoria', n, c) = LaMemoria(memoria', pcb, c)
  BY <1>2, LaMemoriaIgual
<1> QED BY <1>1, <1>3, <1>5, <1>7, <1>8, SinMemoriaEs DEF Vista

\* No access: the words stay, and the entries of the TLB, but at an EXIT.
LEMMA SinAcceso ==
    ASSUME InvE, InvM, InvD, InvE', ProgramasNormales, NEW q, NEW pcb, NEW c, EnMano(q, pcb, c),
           EjecutarInstruccion, NEW i, NEW k, Actual(i, k, pcb), ~EsAcceso(i),
           NEW x, x = ejecutar_instruccion(pcb, i, memoria, decode(pcb, i, memoria, tlb)),
           NEW n, NEW e, Prosigue(q, pcb, i, x, n, e), NEW f, f = EsDeConsola(i)
    PROVE  Vista(c, k, pcb, n, f) /\ memoria' = memoria /\ f \in BOOLEAN
           /\ (Terminado(n) <=> i.operacion = "EXIT")
<1>1. PICK d : d = decode(pcb, i, memoria, tlb)
  OBVIOUS
<1>2. d.tlb = tlb
  BY <1>1 DEF decode
<1>3. x.mem = memoria /\ x.tlb = IF i.operacion = "EXIT" THEN LimpiarProceso(tlb, pcb.pid) ELSE tlb
  BY <1>1, <1>2 DEF ejecutar_instruccion, EsAcceso
<1>4. /\ pcb.pid = q /\ Datos(memoria) /\ Cuerda(memoria, q) /\ TlbUna(tlb)
      /\ \A j \in Claves(tlb) : j[1] = q => EnTlb(pcb, memoria, j[2], tlb.marco[j])
      /\ pcb.program_counter \in Nat
  BY DEF EnMano, BuenPcb
<1>5. /\ memoria' = x.mem /\ tlb' = x.tlb /\ n.tabla_de_segmentos = pcb.tabla_de_segmentos
      /\ n.instrucciones = pcb.instrucciones /\ n.program_counter = pcb.program_counter + 1
      /\ ~n.segmentation_fault
  BY DEF Prosigue
<1>6. memoria' = memoria
  BY <1>3, <1>5
<1>7. /\ Claves(tlb') \subseteq Claves(tlb) /\ \A j \in Claves(tlb') : tlb'.marco[j] = tlb.marco[j]
      /\ i.operacion = "EXIT" => \A j \in Claves(tlb') : j[1] # q
      /\ i.operacion # "EXIT" => tlb' = tlb
  <2>1. CASE i.operacion = "EXIT"
    <3>1. tlb' = LimpiarProceso(tlb, q)
      BY <1>3, <1>4, <1>5, <2>1
    <3>2. tlb'.marco = [j \in Claves(tlb) \ {g \in Claves(tlb) : g[1] = q} |-> tlb.marco[j]]
      BY <3>1 DEF LimpiarProceso, Sacar
    <3> QED BY <2>1, <3>2 DEF Claves
  <2>2. CASE i.operacion # "EXIT"
    BY <1>3, <1>5, <2>2
  <2> QED BY <2>1, <2>2
<1>8. TlbUna(tlb')
  BY <1>4, <1>7 DEF TlbUna
<1>9. ~ProximaEsAcceso(pcb)
  BY DEF ProximaEsAcceso, Actual
<1>10. ASSUME NEW j \in Claves(tlb'), j[1] = q
       PROVE  EnTlb(n, memoria', j[2], tlb'.marco[j])
  <2>1. PICK z, m : z = j[2] /\ m = tlb.marco[j] /\ m = tlb'.marco[j]
    BY <1>7
  <2>2. EnTlb(pcb, memoria, z, m)
    BY <1>4, <1>7, <1>10, <2>1
  <2>3. PaginaEn(n, z) = PaginaEn(pcb, z)
    BY <1>5 DEF PaginaEn
  <2>4. EnTlb(n, memoria, z, m)
    BY <1>5, <1>9, <2>2, <2>3 DEF EnTlb
  <2> QED BY <1>6, <2>1, <2>4
<1>11. \A j \in Claves(tlb') :
              IF j[1] = q THEN Terminado(n) \/ EnTlb(n, memoria', j[2], tlb'.marco[j])
              ELSE j \in Claves(tlb) /\ tlb'.marco[j] = tlb.marco[j]
  BY <1>7, <1>10
<1>12. Datos(memoria') /\ Cuerda(memoria', q)
  BY <1>4, <1>6
<1>13. Corrido(c, pcb, n, f) /\ f \in BOOLEAN /\ (Terminado(n) <=> i.operacion = "EXIT")
  BY <1>6, <1>8, <1>11, <1>12, AlProseguir
<1>14. Vista(c, k, pcb, n, f)
  BY <1>13, SeVe
<1> QED BY <1>6, <1>13, <1>14

\* A turn of an instruction that is no access.
LEMMA RefSinAcceso ==
    ASSUME InvE, InvM, InvD, InvE', ProgramasNormales, NEW q, NEW pcb, NEW c, EnMano(q, pcb, c),
           EjecutarInstruccion, NEW i, NEW k, Actual(i, k, pcb), ~EsAcceso(i)
    PROVE  Refina
<1>1. PICK d : d = decode(pcb, i, memoria, tlb)
  OBVIOUS
<1>2. ~d.error
  BY <1>1 DEF decode
<1>3. PICK x : x = ejecutar_instruccion(pcb, i, memoria, d)
  OBVIOUS
<1>4. i = fetch(pcb)
  BY DEF Actual
<1>5. PICK n, e : Prosigue(q, pcb, i, x, n, e)
  BY <1>1, <1>2, <1>3, <1>4, LoQueSigue
<1>6. PICK f : f = EsDeConsola(i)
  OBVIOUS
<1>7. /\ Vista(c, k, pcb, n, f) /\ memoria' = memoria /\ f \in BOOLEAN
      /\ (Terminado(n) <=> i.operacion = "EXIT")
  BY <1>1, <1>3, <1>5, <1>6, SinAcceso
<1>8. PICK L, R : L = Traduccion(pcb.instrucciones) /\ R = pcb.registros
  OBVIOUS
<1>9. /\ InvD' /\ Pasado(c) /\ DichoQuieto(c) /\ c \in Consolas /\ EnMarcha(c, L, k, R)
      /\ Terminado(n) /\ ~f => ProcesoDe(c)' = [estado |-> "fin"]
      /\ Terminado(n) => MemoriaDe(c)' \in [DireccionesDe(c) -> 0..(Modulo - 1)]
      /\ ~Terminado(n) => MemQuieta(c)
  BY <1>7, <1>8 DEF Vista, MemQuieta
<1>10. /\ ~Terminado(n) /\ ~f => EnMarcha(c, L, k + 1, n.registros)'
       /\ ~Terminado(n) /\ f => EnMarcha(c, L, k, n.registros)'
  BY <1>7, <1>8 DEF Vista
<1>11. /\ BuenPcb(pcb, q) /\ n.registros = x.pcb.registros /\ L[k] = Traducir(i)
       /\ i.operacion \in {"SET", "ADD", "IO", "EXIT"}
       /\ f => i.operacion = "IO"
  BY <1>6, <1>8, <1>5 DEF EnMano, Prosigue, Actual, DelLenguaje, EsAcceso, EsDeConsola
<1>12. ASSUME i.operacion = "SET" PROVE Maq!Next
  <2>1. /\ L[k] = [op |-> "SET", r |-> i.parametro1, n |-> atoi(i.parametro2)]
        /\ ~f /\ ~Terminado(n)
    BY <1>7, <1>11, <1>12, Traducidas
  <2>2. x.pcb = set_valor_en_registro(pcb, i.parametro1, atoi(i.parametro2))
    BY <1>3, <1>12 DEF ejecutar_instruccion, set_valor_registro
  <2>3. PICK r, v : r = i.parametro1 /\ v = atoi(i.parametro2)
    OBVIOUS
  <2>4. set_valor_en_registro(pcb, r, v).registros = [pcb.registros EXCEPT ![r] = SinSigno(v)]
    <3>1. BuenPcb(pcb, q)
      BY <1>11
    <3> QED BY ONLY <3>1, Asignado, Zenon
  <2>5. n.registros = [R EXCEPT ![r] = v % Modulo]
    BY <1>8, <1>11, <2>2, <2>3, <2>4 DEF SinSigno
  <2>6. EnMarcha(c, L, k + 1, [R EXCEPT ![r] = v % Modulo])'
    BY <1>10, <2>1, <2>5
  <2>7. L[k].op = "SET" /\ EnMarcha(c, L, k + 1, [R EXCEPT ![L[k].r] = L[k].n % Modulo])'
    BY <2>1, <2>3, <2>6
  <2> QED BY <1>9, <2>1, <2>7, MaqCalcula
<1>13. ASSUME i.operacion = "ADD" PROVE Maq!Next
  <2>1. /\ L[k] = [op |-> "ADD", r |-> i.parametro1, s |-> i.parametro2]
        /\ ~f /\ ~Terminado(n)
    BY <1>7, <1>11, <1>13, Traducidas
  <2>2. x.pcb = ejecutar_add(pcb, i.parametro1, i.parametro2)
    BY <1>3, <1>13 DEF ejecutar_instruccion
  <2>3. PICK r \in NombresRegistros, s \in NombresRegistros : r = i.parametro1 /\ s = i.parametro2
    BY <1>13 DEF Actual
  <2>4. ejecutar_add(pcb, r, s).registros =
              [pcb.registros EXCEPT ![r] = SinSigno(pcb.registros[r] + pcb.registros[s])]
    <3>1. BuenPcb(pcb, q)
      BY <1>11
    <3>2. \A a \in NombresRegistros, b \in NombresRegistros :
             ejecutar_add(pcb, a, b).registros =
                [pcb.registros EXCEPT ![a] = SinSigno(pcb.registros[a] + pcb.registros[b])]
      BY ONLY <3>1, Sumado, Zenon
    <3> QED BY ONLY <2>3, <3>2, Zenon
  <2>5. n.registros = [R EXCEPT ![r] = (R[r] + R[s]) % Modulo]
    BY <1>8, <1>11, <2>2, <2>3, <2>4 DEF SinSigno
  <2>6. EnMarcha(c, L, k + 1, [R EXCEPT ![r] = (R[r] + R[s]) % Modulo])'
    BY <1>10, <2>1, <2>5
  <2>7. /\ L[k].op = "ADD"
        /\ EnMarcha(c, L, k + 1, [R EXCEPT ![L[k].r] = (R[L[k].r] + R[L[k].s]) % Modulo])'
    BY <2>1, <2>3, <2>6
  <2> QED BY <1>9, <2>1, <2>7, MaqCalcula
<1>14. ASSUME i.operacion = "IO" PROVE Maq!Next \/ MaqVars' = MaqVars
  <2>1. ~Terminado(n) /\ n.registros = R
    <3>1. x.pcb = pcb
      BY <1>3, <1>14 DEF ejecutar_instruccion
    <3> QED BY <1>7, <1>8, <1>11, <1>14, <3>1
  <2>2. CASE f
    <3>1. ProcesoDe(c)' = ProcesoDe(c)
      BY <1>9, <1>10, <2>1, <2>2 DEF EnMarcha
    <3> QED BY <1>9, <2>1, <3>1, MaqQuieta
  <2>3. CASE ~f
    <3>1. L[k].op = "ESPERA"
      BY <1>6, <1>11, <1>14, <2>3, Traducidas
    <3>2. EnMarcha(c, L, k + 1, R)'
      BY <1>10, <2>1, <2>3
    <3> QED BY <1>9, <2>1, <3>1, <3>2, MaqCalcula
  <2> QED BY <1>7, <2>2, <2>3
<1>15. ASSUME i.operacion = "EXIT" PROVE Maq!Next
  <2>1. L[k].op = "EXIT" /\ Terminado(n) /\ ~f
    BY <1>7, <1>11, <1>15, Traducidas
  <2> QED BY <1>9, <2>1, MaqTermina
<1> QED BY <1>9, <1>11, <1>12, <1>13, <1>14, <1>15 DEF Refina

\* A turn of an access whose page is in memory.
LEMMA ConAcceso ==
    ASSUME InvE, InvM, InvD, InvE', ProgramasNormales, NEW q, NEW pcb, NEW c, EnMano(q, pcb, c),
           EjecutarInstruccion, NEW i, NEW k, Actual(i, k, pcb), EsAcceso(i),
           NEW dir, NEW d, Accesible(q, pcb, c, dir), Decodificado(d, pcb, dir, memoria, tlb), ~d.error,
           NEW x, x.tlb = d.tlb, NEW n, NEW e, Prosigue(q, pcb, i, x, n, e),
           Datos(memoria'), memoria' = memoria \/ Aparte(memoria, memoria', q), Cuerda(memoria', q),
           NEW y, y = PaginaEn(pcb, ClaveA(dir)), Entrada(memoria', y).presencia,
           Entrada(memoria', y).marco = Entrada(memoria, y).marco
    PROVE  Vista(c, k, pcb, n, FALSE) /\ ~Terminado(n)
<1>1. PICK f : f = EsDeConsola(i)
  OBVIOUS
<1>2. f = FALSE /\ i.operacion # "EXIT"
  BY <1>1 DEF EsAcceso, EsDeConsola
<1>3. PICK cl, m : cl = ClaveA(dir) /\ m = Entrada(memoria, y).marco
  OBVIOUS
<1>4. pcb.pid = q
  BY DEF EnMano, BuenPcb
<1>5. tlb' = d.tlb /\ n.tabla_de_segmentos = pcb.tabla_de_segmentos
  BY DEF Prosigue
<1>6. TlbDe(tlb', <<q, cl>>, m)
  BY <1>3, <1>4, <1>5 DEF Decodificado
<1>7. TlbUna(tlb') /\ \A j \in Claves(tlb') : j = <<q, cl>> /\ tlb'.marco[j] = m
  BY <1>6 DEF TlbDe
<1>8. EnTlb(n, memoria', cl, m)
  <2>1. PaginaEn(n, cl) = y
    BY <1>3, <1>5 DEF PaginaEn
  <2>2. /\ cl = <<cl[1], cl[2]>> /\ cl[1] + 1 \in DOMAIN n.tabla_de_segmentos
        /\ cl[2] \in 0..(EntradasPorTabla - 1)
    BY <1>3, <1>5 DEF Accesible
  <2> QED BY <1>3, <2>1, <2>2 DEF EnTlb
<1>9. \A j \in Claves(tlb') :
              IF j[1] = q THEN Terminado(n) \/ EnTlb(n, memoria', j[2], tlb'.marco[j])
              ELSE j \in Claves(tlb) /\ tlb'.marco[j] = tlb.marco[j]
  BY <1>7, <1>8
<1>10. Corrido(c, pcb, n, f) /\ f \in BOOLEAN /\ (Terminado(n) <=> i.operacion = "EXIT")
  BY <1>1, <1>7, <1>9, AlProseguir
<1>11. Vista(c, k, pcb, n, f)
  BY <1>10, SeVe
<1> QED BY <1>2, <1>10, <1>11

\* MOV_IN.
LEMMA RefLeer ==
    ASSUME InvE, InvM, InvD, InvE', ProgramasNormales, NEW q, NEW pcb, NEW c, EnMano(q, pcb, c),
           EjecutarInstruccion, NEW i, NEW k, Actual(i, k, pcb), i.operacion = "MOV_IN",
           NEW dir, dir = obtener_dir_logica(i),
           NEW d, Accesible(q, pcb, c, dir), Decodificado(d, pcb, dir, memoria, tlb), ~d.error,
           NEW x, x = ejecutar_instruccion(pcb, i, memoria, d), NEW n, NEW e,
           Prosigue(q, pcb, i, x, n, e)
    PROVE  Refina
<1>1. PICK y, o, r : y = PaginaEn(pcb, ClaveA(dir)) /\ o = dir % TamPagina /\ r = i.parametro1
  OBVIOUS
<1>2. /\ BuenPcb(pcb, q) /\ Datos(memoria) /\ BuenaMemoria(memoria) /\ EsMemoria(memoria)
      /\ Cuerda(memoria, q) /\ c \in Consolas
  BY DEF EnMano
<1>3. /\ y \in LasPaginas(memoria) /\ Entrada(memoria, y).presencia /\ o \in Offsets
      /\ d.pagina = y /\ d.direccion_fisica = DirFisica(Entrada(memoria, y).marco, o)
      /\ dir \in DireccionesDe(c)
  BY <1>1 DEF Accesible, Decodificado
<1>4. x.mem = memoria /\ x.tlb = d.tlb /\ x.pcb = ejecutar_mov_in(pcb, r, memoria, d)
  BY <1>1 DEF ejecutar_instruccion
<1>5. memoria' = memoria /\ n.registros = x.pcb.registros
  BY <1>4 DEF Prosigue
<1>6. Vista(c, k, pcb, n, FALSE) /\ ~Terminado(n)
  <2>1. EsAcceso(i)
    BY DEF EsAcceso
  <2>2. /\ Datos(memoria') /\ Cuerda(memoria', q) /\ Entrada(memoria', y).presencia
        /\ Entrada(memoria', y).marco = Entrada(memoria, y).marco
        /\ memoria' = memoria \/ Aparte(memoria, memoria', q)
    BY <1>2, <1>3, <1>5
  <2> QED BY <1>1, <1>4, <2>1, <2>2, ConAcceso
<1>7. PICK mem, v : mem = memoria /\ v = SinSigno(Palabra(mem, y, o))
  OBVIOUS
<1>8. /\ ejecutar_mov_in(pcb, r, mem, d).registros =
             [pcb.registros EXCEPT ![r] = SinSigno(Palabra(mem, y, o))]
      /\ Palabra(mem, y, o) \in Int
  <2>1. /\ BuenPcb(pcb, q) /\ Datos(mem) /\ BuenaMemoria(mem) /\ EsMemoria(mem)
        /\ y \in LasPaginas(mem) /\ Entrada(mem, y).presencia /\ o \in Offsets
        /\ d.pagina = y /\ d.direccion_fisica = DirFisica(Entrada(mem, y).marco, o)
    BY <1>2, <1>3, <1>7
  <2>2. LoCargado(pcb, r, mem, d, y, o)
    BY ONLY <2>1, Cargado
  <2> QED BY <2>2 DEF LoCargado
<1>9. PICK L, R : L = Traduccion(pcb.instrucciones) /\ R = pcb.registros
  OBVIOUS
<1>10. v % Modulo = v
  BY <1>7, <1>8, Signos DEF SinSigno
<1>11. n.registros = [R EXCEPT ![r] = v % Modulo]
  BY <1>4, <1>5, <1>7, <1>8, <1>9, <1>10
<1>12. /\ InvD' /\ Pasado(c) /\ DichoQuieto(c) /\ EnMarcha(c, L, k, R)
       /\ EnMarcha(c, L, k + 1, n.registros)' /\ MemQuieta(c)
       /\ MemoriaDe(c) = LaMemoria(memoria, pcb, c)
  BY <1>5, <1>6, <1>9 DEF Vista, MemQuieta
<1>13. L[k].op = "MOV_IN" /\ L[k].r = r /\ L[k].dir = dir
  BY <1>1, <1>9, Traducidas DEF Actual
<1>14. v = MemoriaDe(c)[dir]
  BY <1>1, <1>3, <1>7, <1>12 DEF LaMemoria, PalabraA
<1>15. EnMarcha(c, L, k + 1, [R EXCEPT ![L[k].r] = v % Modulo])' /\ v = MemoriaDe(c)[L[k].dir]
  BY <1>11, <1>12, <1>13, <1>14
<1>16. Maq!Next
  BY <1>2, <1>3, <1>12, <1>13, <1>15, MaqAccede
<1> QED BY <1>12, <1>16 DEF Refina

\* The page and the offset of an address of the process of the CPU.
LEMMA EnPagina ==
    ASSUME ProgramasNormales, NEW q, NEW pcb, NEW c, EnMano(q, pcb, c), NEW dir \in DireccionesDe(c)
    PROVE  /\ PaginaEn(pcb, ClaveA(dir)) \in PaginasDe(memoria, q)
           /\ PaginaEn(pcb, ClaveA(dir)) \in LasPaginas(memoria)
           /\ PidDe(memoria, PaginaEn(pcb, ClaveA(dir))) = q /\ dir % TamPagina \in Offsets
<1>1. PICK n, t : n = Len(Segmentos(c)) /\ t = pcb.tabla_de_segmentos
  OBVIOUS
<1>2. /\ c \in Consolas /\ BuenPcb(pcb, q) /\ PcbConMemoria(pcb, q, memoria) /\ EsLista(t)
      /\ TablaDe(t, Segmentos(c))
  BY <1>1 DEF EnMano, BuenPcb
<1>3. Len(t) = n /\ n \in Nat /\ DOMAIN t = 1..n
  BY <1>1, <1>2, DeLista DEF TablaDe
<1>4. dir \in 0..(n * TamPagina * EntradasPorTabla - 1) /\ dir % AnchoInt = 0
  BY <1>1, <1>2, DireccionPropia
<1>5. PICK k : k = ClaveA(dir)
  OBVIOUS
<1>6. k[1] + 1 \in DOMAIN t /\ k[2] \in 0..(EntradasPorTabla - 1) /\ dir % TamPagina \in Offsets
  BY <1>3, <1>4, <1>5, DireccionDe
<1> QED BY <1>1, <1>2, <1>5, <1>6, PaginaPropia DEF PaginaEn

\* Addresses of its console are apart.
LEMMA Separadas ==
    ASSUME ProgramasNormales, NEW q, NEW pcb, NEW c, EnMano(q, pcb, c), NEW a \in DireccionesDe(c),
           NEW b \in DireccionesDe(c), PaginaEn(pcb, ClaveA(a)) = PaginaEn(pcb, ClaveA(b)),
           a % TamPagina = b % TamPagina
    PROVE  a = b
<1>1. PICK n, S : n = Len(S) /\ S = Segmentos(c)
  OBVIOUS
<1>2. c \in Consolas /\ EsLista(pcb.tabla_de_segmentos) /\ TablaDe(pcb.tabla_de_segmentos, S)
  BY <1>1 DEF EnMano, BuenPcb
<1>3. n \in Nat /\ DOMAIN pcb.tabla_de_segmentos = 1..n
  BY <1>1, <1>2, DeLista DEF TablaDe
<1>4. /\ a \in 0..(n * TamPagina * EntradasPorTabla - 1) /\ a % AnchoInt = 0
      /\ b \in 0..(n * TamPagina * EntradasPorTabla - 1) /\ b % AnchoInt = 0
  BY <1>1, <1>2, DireccionPropia
<1> QED BY <1>2, <1>3, <1>4, DireccionesDistintas

\* A word that is written is that of its address, and no other.
Escribio(pcb, c, mem, dir, w) ==
    LaMemoria(mem, pcb, c) = [LaMemoria(memoria, pcb, c) EXCEPT ![dir] = w]

LEMMA AlEscribir ==
    ASSUME ProgramasNormales, NEW q, NEW pcb, NEW c, EnMano(q, pcb, c), NEW dir \in DireccionesDe(c),
           NEW mem, NEW w \in 0..(Modulo - 1),
           EscritaEn(memoria, mem, PaginaEn(pcb, ClaveA(dir)), dir % TamPagina, ConSigno(w))
    PROVE  Escribio(pcb, c, mem, dir, w)
<1>1. PICK y, o : y = PaginaEn(pcb, ClaveA(dir)) /\ o = dir % TamPagina
  OBVIOUS
<1>2. SinSigno(PalabraA(mem, pcb, dir)) = w
  <2>1. PalabraA(mem, pcb, dir) = ConSigno(w)
    BY <1>1 DEF EscritaEn, PalabraA
  <2>2. w \in Int
    BY ModuloAssumption
  <2> QED BY <2>1, <2>2, Signos
<1>3. ASSUME NEW a \in DireccionesDe(c), a # dir
      PROVE  PalabraA(mem, pcb, a) = PalabraA(memoria, pcb, a)
  <2>1. PICK z, u : z = PaginaEn(pcb, ClaveA(a)) /\ u = a % TamPagina
    OBVIOUS
  <2>2. z \in LasPaginas(memoria) /\ z \in PaginasDe(memoria, q) /\ u \in Offsets
    BY <2>1, EnPagina
  <2>3. Entrada(memoria, z).presencia => Vigente(memoria, z)
    BY <2>2 DEF EnMano, Cuerda
  <2>4. <<z, u>> # <<y, o>>
    BY <1>1, <1>3, <2>1, Separadas
  <2>5. EscritaEn(memoria, mem, y, o, ConSigno(w))
    BY <1>1
  <2>6. Palabra(mem, z, u) = Palabra(memoria, z, u)
    BY <2>2, <2>3, <2>4, <2>5 DEF EscritaEn
  <2> QED BY <2>1, <2>6 DEF PalabraA
<1> QED BY <1>2, <1>3, Zenon DEF Escribio, LaMemoria

\* What a word that is written leaves, for the pages of its process.
LEMMA CuerdaEscrita ==
    ASSUME NEW q, Cuerda(memoria, q), NEW mem, NEW y \in LasPaginas(memoria), NEW o, NEW v,
           PidDe(memoria, y) = q, EscritaEn(memoria, mem, y, o, v)
    PROVE  /\ Cuerda(mem, q) /\ Datos(mem) /\ Aparte(memoria, mem, q)
           /\ Entrada(mem, y).presencia = Entrada(memoria, y).presencia
           /\ Entrada(mem, y).marco = Entrada(memoria, y).marco
<1>1. ASSUME NEW x \in PaginasDe(mem, q), Entrada(mem, x).presencia PROVE Vigente(mem, x)
  <2>1. x \in LasPaginas(mem) /\ PidDe(mem, x) = q
    BY DEF PaginasDe, LasPaginas
  <2>2. /\ x \in LasPaginas(memoria) /\ PidDe(memoria, x) = q /\ Entrada(memoria, x).presencia
        /\ Vigente(memoria, x) => Vigente(mem, x)
    BY <1>1, <2>1 DEF EscritaEn
  <2>3. x \in PaginasDe(memoria, q)
    BY <2>2 DEF PaginasDe, LasPaginas
  <2> QED BY <2>2, <2>3 DEF Cuerda
<1> QED BY <1>1 DEF EscritaEn, Cuerda

\* MOV_OUT.
LEMMA RefEscribir ==
    ASSUME InvE, InvM, InvD, InvE', ProgramasNormales, NEW q, NEW pcb, NEW c, EnMano(q, pcb, c),
           EjecutarInstruccion, NEW i, NEW k, Actual(i, k, pcb), i.operacion = "MOV_OUT",
           NEW dir, dir = obtener_dir_logica(i),
           NEW d, Accesible(q, pcb, c, dir), Decodificado(d, pcb, dir, memoria, tlb), ~d.error,
           NEW x, x = ejecutar_instruccion(pcb, i, memoria, d), NEW n, NEW e,
           Prosigue(q, pcb, i, x, n, e)
    PROVE  Refina
<1>1. PICK y, o, r, w : /\ y = PaginaEn(pcb, ClaveA(dir)) /\ o = dir % TamPagina
                        /\ r = i.parametro2 /\ w = pcb.registros[r]
  OBVIOUS
<1>2. /\ BuenPcb(pcb, q) /\ Datos(memoria) /\ BuenaMemoria(memoria) /\ EsMemoria(memoria)
      /\ Cuerda(memoria, q) /\ c \in Consolas
  BY DEF EnMano
<1>3. /\ y \in LasPaginas(memoria) /\ Entrada(memoria, y).presencia /\ o \in Offsets
      /\ d.pagina = y /\ d.direccion_fisica = DirFisica(Entrada(memoria, y).marco, o)
      /\ dir \in DireccionesDe(c) /\ y \in PaginasDe(memoria, q) /\ PidDe(memoria, y) = q
  BY <1>1 DEF Accesible, Decodificado
<1>4. r \in NombresRegistros /\ w \in 0..(Modulo - 1)
  BY <1>1, <1>2 DEF Actual, BuenPcb
<1>5. x.mem = ejecutar_mov_out(pcb, r, memoria, d) /\ x.tlb = d.tlb /\ x.pcb = pcb
  BY <1>1 DEF ejecutar_instruccion
<1>6. EscritaEn(memoria, memoria', y, o, ConSigno(w))
  <2>1. Vigente(memoria, y)
    BY <1>2, <1>3 DEF Cuerda
  <2>2. PICK mem : mem = memoria
    OBVIOUS
  <2>3. /\ BuenPcb(pcb, q) /\ Datos(mem) /\ BuenaMemoria(mem) /\ EsMemoria(mem)
        /\ y \in LasPaginas(mem) /\ Vigente(mem, y) /\ o \in Offsets /\ r \in NombresRegistros
        /\ d.pagina = y /\ d.direccion_fisica = DirFisica(Entrada(mem, y).marco, o)
    BY <1>2, <1>3, <1>4, <2>1, <2>2
  <2>4. EscritaEn(mem, ejecutar_mov_out(pcb, r, mem, d), y, o, ConSigno(pcb.registros[r]))
    BY ONLY <2>3, Escrito
  <2>5. memoria' = ejecutar_mov_out(pcb, r, memoria, d)
    BY <1>5 DEF Prosigue
  <2> QED BY <1>1, <2>2, <2>4, <2>5
<1>7. PICK mem : mem = memoria'
  OBVIOUS
<1>8. EscritaEn(memoria, mem, y, o, ConSigno(w))
  BY <1>6, <1>7
<1>9. /\ Cuerda(mem, q) /\ Datos(mem) /\ Aparte(memoria, mem, q)
      /\ Entrada(mem, y).presencia = Entrada(memoria, y).presencia
      /\ Entrada(mem, y).marco = Entrada(memoria, y).marco
  BY <1>2, <1>3, <1>8, CuerdaEscrita
<1>10. Vista(c, k, pcb, n, FALSE) /\ ~Terminado(n)
  <2>1. EsAcceso(i)
    BY DEF EsAcceso
  <2>2. /\ Datos(memoria') /\ Cuerda(memoria', q) /\ Entrada(memoria', y).presencia
        /\ Entrada(memoria', y).marco = Entrada(memoria, y).marco
        /\ memoria' = memoria \/ Aparte(memoria, memoria', q)
    BY <1>3, <1>7, <1>9
  <2> QED BY <1>1, <1>5, <2>1, <2>2, ConAcceso
<1>11. Escribio(pcb, c, mem, dir, w)
  BY <1>1, <1>3, <1>4, <1>8, AlEscribir
<1>12. PICK L, R : L = Traduccion(pcb.instrucciones) /\ R = pcb.registros
  OBVIOUS
<1>13. n.registros = R
  BY <1>5, <1>12 DEF Prosigue
<1>14. /\ InvD' /\ Pasado(c) /\ DichoQuieto(c) /\ EnMarcha(c, L, k, R)
       /\ EnMarcha(c, L, k + 1, R)' /\ MemoriaDe(c) = LaMemoria(memoria, pcb, c)
       /\ MemoriaDe(c)' = LaMemoria(mem, pcb, c)
  BY <1>7, <1>10, <1>12, <1>13 DEF Vista
<1>15. L[k].op = "MOV_OUT" /\ L[k].r = r /\ L[k].dir = dir
  BY <1>1, <1>12, Traducidas DEF Actual
<1>16. MemoriaDe(c)' = [MemoriaDe(c) EXCEPT ![L[k].dir] = R[L[k].r]]
  BY <1>1, <1>11, <1>12, <1>14, <1>15 DEF Escribio
<1>17. Maq!Next
  BY <1>2, <1>3, <1>14, <1>15, <1>16, MaqAccede
<1> QED BY <1>14, <1>17 DEF Refina

\* A turn of the CPU.
LEMMA RefEjecutar ==
    ASSUME InvE, InvM, InvD, InvE', ProgramasNormales, EntradasTlb \in {0, 1}, EjecutarInstruccion
    PROVE  Refina
<1>1. PICK q, pcb, c : q = cpu.pcb.pid /\ pcb = cpu.pcb /\ c = consolaDe[q]
  OBVIOUS
<1>2. EnMano(q, pcb, c)
  <2>1. cpu.estado = "ejecuta"
    BY DEF EjecutarInstruccion
  <2> QED BY <1>1, <2>1, EnManoEs
<1>3. PICK i, k : i = fetch(pcb) /\ k = pcb.program_counter + 1
  OBVIOUS
<1>4. Actual(i, k, pcb)
  BY <1>2, <1>3, ActualEs
<1>5. CASE ~EsAcceso(i)
  BY <1>2, <1>4, <1>5, RefSinAcceso
<1>6. CASE EsAcceso(i)
  <2>1. PICK dir, d : dir = obtener_dir_logica(i) /\ d = decode(pcb, i, memoria, tlb)
    OBVIOUS
  <2>2. Accesible(q, pcb, c, dir) /\ Decodificado(d, pcb, dir, memoria, tlb)
    BY <1>2, <1>4, <1>6, <2>1, AccesoEs
  <2>3. CASE d.error
    BY <1>2, <1>4, <1>6, <2>1, <2>3, RefError
  <2>4. CASE ~d.error
    <3>1. PICK x : x = ejecutar_instruccion(pcb, i, memoria, d)
      OBVIOUS
    <3>2. PICK n, e : Prosigue(q, pcb, i, x, n, e)
      BY <1>2, <1>3, <2>1, <2>4, <3>1, LoQueSigue
    <3>3. i.operacion = "MOV_IN" \/ i.operacion = "MOV_OUT"
      BY <1>6 DEF EsAcceso
    <3>4. CASE i.operacion = "MOV_IN"
      BY <1>2, <1>4, <2>1, <2>2, <2>4, <3>1, <3>2, <3>4, RefLeer
    <3>5. CASE i.operacion = "MOV_OUT"
      BY <1>2, <1>4, <2>1, <2>2, <2>4, <3>1, <3>2, <3>5, RefEscribir
    <3> QED BY <3>3, <3>4, <3>5
  <2> QED BY <2>3, <2>4
<1> QED BY <1>5, <1>6

\* The CPU only adds the page of its own process to the TLB.
LEMMA LlavesEjecutar ==
    ASSUME InvE, InvM, InvD, Llaves, ProgramasNormales, EntradasTlb \in {0, 1}, EjecutarInstruccion
    PROVE  Llaves'
<1>1. PICK q, pcb, c : q = cpu.pcb.pid /\ pcb = cpu.pcb /\ c = consolaDe[q]
  OBVIOUS
<1>2. EnMano(q, pcb, c)
  <2>1. cpu.estado = "ejecuta"
    BY DEF EjecutarInstruccion
  <2> QED BY <1>1, <2>1, EnManoEs
<1>3. PICK i, k : i = fetch(pcb) /\ k = pcb.program_counter + 1
  OBVIOUS
<1>4. Actual(i, k, pcb)
  BY <1>2, <1>3, ActualEs
<1>5. PICK d, dir : d = decode(pcb, i, memoria, tlb) /\ dir = obtener_dir_logica(i)
  OBVIOUS
<1>6. \A j \in Claves(d.tlb) : j \in Claves(tlb) \/ j[1] = q
  <2>1. CASE EsAcceso(i)
    <3>1. Decodificado(d, pcb, dir, memoria, tlb) /\ pcb.pid = q
      BY <1>2, <1>4, <1>5, <2>1, AccesoEs DEF EnMano, BuenPcb
    <3>2. PICK cl : cl = ClaveA(dir)
      OBVIOUS
    <3>3. d.tlb = tlb \/ \A j \in Claves(d.tlb) : j = <<q, cl>>
      BY <3>1, <3>2 DEF Decodificado, TlbDe
    <3> QED BY <3>3
  <2>2. CASE ~EsAcceso(i)
    BY <1>5, <2>2 DEF decode
  <2> QED BY <2>1, <2>2
<1>7. \A j \in Claves(tlb') : j \in Claves(d.tlb)
  <2>1. PICK x : x = ejecutar_instruccion(pcb, i, memoria, d)
    OBVIOUS
  <2>2. CASE d.error
    BY <1>1, <1>3, <1>5, <2>2 DEF EjecutarInstruccion
  <2>3. CASE ~d.error
    <3>1. PICK n, e : Prosigue(q, pcb, i, x, n, e)
      BY <1>2, <1>3, <1>5, <2>1, <2>3, LoQueSigue
    <3>2. tlb' = x.tlb
      BY <3>1 DEF Prosigue
    <3>3. x.tlb = d.tlb \/ x.tlb = LimpiarProceso(d.tlb, pcb.pid)
      BY <2>1 DEF ejecutar_instruccion
    <3>4. Claves(LimpiarProceso(d.tlb, pcb.pid)) \subseteq Claves(d.tlb)
      BY DEF LimpiarProceso, Sacar, Claves
    <3> QED BY <3>2, <3>3, <3>4
  <2> QED BY <2>2, <2>3
<1>8. q \in (1..pid_actual) \ Elems(cola_new)
  BY <1>2 DEF EnMano
<1>9. pid_actual' = pid_actual /\ cola_new' = cola_new
  BY DEF EjecutarInstruccion, deKernel, colas
<1>10. \A j \in Claves(tlb') : j[1] \in (1..pid_actual) \ Elems(cola_new)
  BY <1>6, <1>7, <1>8 DEF Llaves
<1>11. (1..pid_actual) \ Elems(cola_new) = ((1..pid_actual) \ Elems(cola_new))'
  BY <1>9 DEF Elems
<1>12. Claves(tlb') = Claves(tlb)'
  BY DEF Claves
<1> QED BY <1>10, <1>11, <1>12 DEF Llaves

\* And no other action touches it; a process enters NEW with a pid of its own, and leaves it once.
LEMMA LlavesPaso ==
    ASSUME InvE, InvM, InvD, Llaves, ProgramasNormales, EntradasTlb \in {0, 1}, [Next]_vars
    PROVE  Llaves'
<1>1. CASE EjecutarInstruccion
  BY <1>1, LlavesEjecutar
<1>2. CASE /\ tlb' = tlb
           /\ \/ pid_actual' = pid_actual /\ cola_new' = cola_new
              \/ /\ pid_actual' = pid_actual /\ cola_new # <<>> /\ cola_new' = Tail(cola_new)
              \/ pid_actual' = pid_actual + 1 /\ cola_new' = Append(cola_new, pid_actual + 1)
  <2>1. cola_new \in Seq(Nat) /\ SinRepetir(cola_new) /\ pid_actual \in Nat
    BY NoSeMueve DEF InvE, Tipos
  <2>2. Elems(cola_new)' = Elems(cola_new')
    BY DEF Elems
  <2>3. (1..pid_actual) \ Elems(cola_new) \subseteq (1..pid_actual') \ Elems(cola_new')
    <3>1. CASE pid_actual' = pid_actual /\ cola_new' = cola_new
      BY <3>1
    <3>2. CASE pid_actual' = pid_actual /\ cola_new # <<>> /\ cola_new' = Tail(cola_new)
      <4>1. Elems(Tail(cola_new)) \subseteq Elems(cola_new)
        BY <2>1, <3>2, Cabeza
      <4> QED BY <3>2, <4>1
    <3>3. CASE pid_actual' = pid_actual + 1 /\ cola_new' = Append(cola_new, pid_actual + 1)
      <4>1. Elems(Append(cola_new, pid_actual + 1)) = Elems(cola_new) \cup {pid_actual + 1}
        BY <2>1, AlFinalDeCola
      <4> QED BY <2>1, <3>3, <4>1
    <3> QED BY <1>2, <3>1, <3>2, <3>3
  <2>4. Claves(tlb)' = Claves(tlb)
    BY <1>2 DEF Claves
  <2> QED BY <2>2, <2>3, <2>4 DEF Llaves
<1>3. CASE RecibirProceso
  BY <1>2, <1>3 DEF RecibirProceso
<1>4. CASE CrearEstructuras
  BY <1>2, <1>4 DEF CrearEstructuras, PuedeAdmitir
<1>5. ASSUME NEW c \in Consolas, Conectar(c) \/ DeConsola(c) \/ Sigint(c) PROVE Llaves'
  <2>1. UNCHANGED <<tlb, pid_actual, cola_new>>
    BY <1>5 DEF Conectar, DeConsola, EnviarPrograma, Atender, ContestarPantalla, Sigint,
                deKernel, colas
  <2> QED BY <1>2, <2>1
<1>6. ASSUME NEW q \in Pids, Hilo(q) PROVE Llaves'
  <2>1. UNCHANGED <<tlb, pid_actual, cola_new>>
    BY <1>6 DEF Hilo, AtenderPageFault, Pedir, Contestar, colas
  <2> QED BY <1>2, <2>1
<1>7. CASE AceptarConsola \/ Despachar \/ Devolver \/ Rajar \/ FinDispositivo \/ UNCHANGED vars
  <2>1. UNCHANGED <<tlb, pid_actual, cola_new>>
    BY <1>7 DEF AceptarConsola, Despachar, Devolver, Rajar, FinDispositivo, deKernel, colas, vars
  <2> QED BY <1>2, <2>1
<1> QED BY <1>1, <1>3, <1>4, <1>5, <1>6, <1>7 DEF Next

\* There is no process at first, no page, and no entry in the TLB.
LEMMA AlEmpezarD == ASSUME Init PROVE InvD /\ Llaves
<1>1. pid_actual = 0 /\ memoria = MemoriaVacia /\ tlb = TlbVacia /\ falta = [p \in Pids |-> FALSE]
  BY Zenon DEF Init
<1>2. Claves(tlb) = {}
  BY <1>1 DEF TlbVacia, Claves
<1>3. 1..pid_actual = {}
  BY <1>1
<1>4. /\ memoria.tablas = <<>> /\ memoria.espacio = [d \in DirFisicas |-> 0]
  BY <1>1 DEF MemoriaVacia, DirFisicas
<1>5. LasPaginas(memoria) = {}
  <2>1. Len(memoria.tablas) = 0
    BY <1>4
  <2> QED BY <2>1 DEF LasPaginas
<1>6. Datos(memoria)
  BY <1>4, <1>5 DEF Datos, SinMezcla, CopiaFiel
<1>7. TlbBien
  BY <1>2 DEF TlbBien, TlbUna
<1> QED BY <1>1, <1>2, <1>3, <1>6, <1>7 DEF InvD, Llaves

\* The machine of each console starts without a process, and with any memory.
LEMMA MaqAlEmpezar == ASSUME Init PROVE Maq!Init
<1>1. /\ pid_actual = 0 /\ consolaDe = <<>> /\ consola = [c \in Consolas |-> "sin iniciar"]
      /\ haciaKernel = [c \in Consolas |-> <<>>] /\ pantalla = [c \in Consolas |-> <<>>]
  BY Zenon DEF Init
<1>2. ASSUME NEW c \in Consolas
      PROVE  /\ ProcesoDe(c) = [estado |-> "nada"] /\ TecleadoDe(c) = <<>>
             /\ MemoriaDe(c) \in [DireccionesDe(c) -> 0..(Modulo - 1)] /\ consola[c] # "muerta"
  <2>0. pid_actual = 0
    BY <1>1
  <2>1. \A p \in 1..pid_actual : consolaDe[p] # c
    BY ONLY <2>0
  <2>2. ProcesoDe(c) = [estado |-> "nada"] /\ MemoriaDe(c) = SinMemoria(c)
    BY <2>1, AlEmpezar, LaMaquinaEs DEF LaMaquina
  <2>3. TecleadoDe(c) = <<>>
    BY <1>1 DEF TecleadoDe
  <2> QED BY <1>1, <2>2, <2>3, SinMemoriaEs
<1>3. LosProcesos = [c \in Consolas |-> [estado |-> "nada"]]
  BY <1>2 DEF LosProcesos
<1>4. DOMAIN LasMemorias = Consolas
      /\ \A c \in Consolas : LasMemorias[c] \in [DireccionesDe(c) -> 0..(Modulo - 1)]
  BY <1>2 DEF LasMemorias
<1>5. LoTecleado = [c \in Consolas |-> <<>>] /\ LosPresentes = [c \in Consolas |-> TRUE]
  BY <1>2 DEF LoTecleado, LosPresentes
<1> QED BY <1>1, <1>3, <1>4, <1>5, Zenon
        DEF Maq!Init, Maq!Palabras, LosProcesos, LasMemorias, LoTecleado, LosPresentes

\* A step of the system is one of the machine of a console, or none.
LEMMA RefPaso ==
    ASSUME InvE, InvM, InvD, Llaves, InvE', ProgramasNormales, EntradasTlb \in {0, 1}, [Next]_vars
    PROVE  Refina
<1>1. CASE UNCHANGED vars
  <2>1. NadaCambia
    BY <1>1 DEF NadaCambia, KernelIgual, vars, deConsolas, conexiones, deKernel, colas, historia
  <2> QED BY <2>1, RefNada
<1>2. ASSUME NEW c \in Consolas, Conectar(c) \/ DeConsola(c) \/ Sigint(c) PROVE Refina
  <2>1. CASE Conectar(c)
    BY <2>1, RefConectar
  <2>2. CASE EnviarPrograma(c)
    BY <2>2, RefEnviar
  <2>3. CASE Atender(c)
    BY <2>3, RefAtender
  <2>4. CASE ContestarPantalla(c)
    BY <2>4, RefContestarPantalla
  <2>5. CASE Sigint(c)
    BY <2>5, RefMorir
  <2> QED BY <1>2, <2>1, <2>2, <2>3, <2>4, <2>5 DEF DeConsola
<1>3. CASE AceptarConsola
  BY <1>3, RefAceptar
<1>4. CASE RecibirProceso
  BY <1>4, RefRecibir
<1>5. CASE CrearEstructuras
  BY <1>5, RefCrear
<1>6. CASE Despachar
  BY <1>6, RefDespachar
<1>7. CASE EjecutarInstruccion
  BY <1>7, RefEjecutar
<1>8. CASE Devolver
  BY <1>8, RefDevolver
<1>9. CASE Rajar
  BY <1>9, RefRajar
<1>10. CASE FinDispositivo
  BY <1>10, RefDispositivo
<1>11. ASSUME NEW q \in Pids, Hilo(q) PROVE Refina
  <2>1. CASE AtenderPageFault(q)
    BY <2>1, RefPageFault
  <2>2. CASE Pedir(q)
    BY <2>2, RefPedir
  <2>3. CASE Contestar(q)
    BY <2>3, RefContestar
  <2> QED BY <1>11, <2>1, <2>2, <2>3 DEF Hilo
<1> QED BY <1>1, <1>2, <1>3, <1>4, <1>5, <1>6, <1>7, <1>8, <1>9, <1>10, <1>11 DEF Next

\* The pages, the TLB, the PCBs and the messages agree with the programs in every state.
THEOREM InvarianteDatos ==
    ASSUME ~Reuso, ProgramasNormales, EntradasTlb \in {0, 1}
    PROVE  Spec => [](InvD /\ Llaves)
<1>1. Init => InvE /\ InvM /\ InvD /\ Llaves
  BY AlEmpezar, AlEmpezarMemoria, AlEmpezarD
<1>2. (InvE /\ InvM /\ InvD /\ Llaves) /\ [Next]_vars => (InvE /\ InvM /\ InvD /\ Llaves)'
  <2> SUFFICES ASSUME InvE, InvM, InvD, Llaves, [Next]_vars PROVE InvE' /\ InvM' /\ InvD' /\ Llaves'
    OBVIOUS
  <2>1. InvE' /\ InvM'
    BY AlPaso, AlPasoMemoria
  <2>2. InvD'
    BY <2>1, RefPaso DEF Refina
  <2>3. Llaves'
    BY LlavesPaso
  <2> QED BY <2>1, <2>2, <2>3
<1> QED BY <1>1, <1>2, PTL DEF Spec

\* Each console sees a machine of its own: with programs that end in EXIT and use aligned
\* addresses of segments that their tables can map, and a TLB of one entry or none, no
\* preemption, page fault, replacement or other process changes what it computes, prints and
\* reads (the promise of the whole system; Maquina).
THEOREM MaquinaDeCadaUno ==
    ASSUME ~Reuso, ProgramasNormales, EntradasTlb \in {0, 1}
    PROVE  Spec => RefinaMaquina
<1>1. Init => Maq!Init
  BY MaqAlEmpezar
<1>2. (InvE /\ InvM) /\ (InvE /\ InvM)' /\ (InvD /\ Llaves) /\ [Next]_vars => [Maq!Next]_MaqVars
  BY RefPaso DEF Refina
<1>3. Spec => [](InvE /\ InvM)
  BY InvarianteMemoria
<1>4. Spec => [](InvD /\ Llaves)
  BY InvarianteDatos
<1> QED
  BY <1>1, <1>2, <1>3, <1>4, PTL
  DEF Spec, RefinaMaquina, Maq!Spec, Maq!vars, MaqVars, LosProcesos, LasMemorias, LoTecleado, LosPresentes

=============================================================================
