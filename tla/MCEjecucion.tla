---------------------------- MODULE MCEjecucion ----------------------------
(* The programs of two consoles for TLC.  With ints of 6 bits, 31 is the last *)
(* positive number.                                                          *)
EXTENDS EjecucionPropiedades

\* ADD goes past the last int; page 0 is written, replaced by page 1 and read again.
Paginas == <<<<"SET", "AX", "31">>, <<"ADD", "AX", "AX">>, <<"MOV_OUT", "4", "AX">>,
             <<"MOV_OUT", "8", "BX">>, <<"MOV_IN", "CX", "4">>, <<"I/O", "PANTALLA", "CX">>,
             <<"EXIT">>>>
\* What is read is kept in memory, and printed after a wait.
Eco == <<<<"I/O", "TECLADO", "AX">>, <<"MOV_OUT", "16", "AX">>, <<"I/O", "DISCO", "1">>,
         <<"MOV_IN", "BX", "16">>, <<"I/O", "PANTALLA", "BX">>, <<"EXIT">>>>
FueraDeSegmento == <<<<"MOV_OUT", "24", "AX">>, <<"EXIT">>>>
Desconocida == <<<<"HLT">>, <<"EXIT">>>>
SinParametro == <<<<"SET", "AX">>, <<"EXIT">>>>

LasTeclas == {-1}
ArchivosDe(c) == IF c = "c1" THEN {Paginas} ELSE {Eco, FueraDeSegmento, Desconocida, SinParametro}
SegmentosDe(c) == IF c = "c1" THEN <<"16">> ELSE <<"8", "8">>

\* The words of each page are others.
ResiduoDe(pagina, d) == (4 * pagina[1] + 2 * pagina[2] + d \div AnchoInt) % 32

\* What the refinement of Maquina asks of programs, segments and TLB.
ASSUME SonNormales == ProgramasNormales /\ EntradasTlb \in {0, 1}
=============================================================================
