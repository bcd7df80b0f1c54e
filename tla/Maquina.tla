------------------------------ MODULE Maquina ------------------------------
(***************************************************************************)
(* What the system promises to the user of each console: a machine of its   *)
(* own that runs the program once, in order, on four registers and a memory *)
(* of words, prints on the console and reads from it.  There are no pages,  *)
(* frames, PCBs, scheduler or messages here.                               *)
(*                                                                         *)
(* Registers and words are unsigned numbers below Modulo; what is printed   *)
(* and typed is signed.  A program starts on a memory with any words, and    *)
(* they do not matter after it ended.                                       *)
(***************************************************************************)
EXTENDS Integers, Sequences

CONSTANTS
    Usuarios,             \* one per console
    Programas(_),         \* the programs user u may start
    Direcciones(_),       \* the addresses of u's memory
    Modulo,
    Teclas,               \* what a user may type
    Mortales              \* the users who may close their console

VARIABLES
    proceso,
    memoria,
    tecleado,             \* typed and not taken yet
    pantalla,             \* everything printed
    presente

vars == <<proceso, memoria, tecleado, pantalla, presente>>

Palabras == 0..(Modulo - 1)
ConSigno(n) == IF n < Modulo \div 2 THEN n ELSE n - Modulo
Reset == [r \in {"AX", "BX", "CX", "DX"} |-> 0]

Init ==
    /\ proceso = [u \in Usuarios |-> [estado |-> "nada"]]
    /\ DOMAIN memoria = Usuarios
    /\ \A u \in Usuarios : memoria[u] \in [Direcciones(u) -> Palabras]
    /\ tecleado = [u \in Usuarios |-> <<>>]
    /\ pantalla = [u \in Usuarios |-> <<>>]
    /\ presente = [u \in Usuarios |-> TRUE]

Nacer(u) ==
    /\ proceso[u].estado = "nada"
    /\ \E programa \in Programas(u) :
          proceso' = [proceso EXCEPT ![u] =
              [estado |-> "corre", programa |-> programa, pc |-> 1, registros |-> Reset]]
    /\ memoria'[u] \in [Direcciones(u) -> Palabras]
    /\ memoria' = [memoria EXCEPT ![u] = memoria'[u]]
    /\ UNCHANGED <<tecleado, pantalla, presente>>

Instruccion(u) == proceso[u].programa[proceso[u].pc]
Toca(u, op) == proceso[u].estado = "corre" /\ Instruccion(u).op = op
Registro(u, r) == proceso[u].registros[r]

\* u goes on with the next instruction; Asignando, with n in register r.
Seguir(u) == proceso' = [proceso EXCEPT ![u].pc = @ + 1]
SeguirAsignando(u, r, n) ==
    proceso' = [proceso EXCEPT ![u].pc = @ + 1, ![u].registros[r] = n % Modulo]

Calcular(u) ==
    LET i == Instruccion(u) IN
    /\ \/ Toca(u, "SET") /\ SeguirAsignando(u, i.r, i.n)
       \/ Toca(u, "ADD") /\ SeguirAsignando(u, i.r, Registro(u, i.r) + Registro(u, i.s))
       \/ Toca(u, "ESPERA") /\ Seguir(u)
    /\ UNCHANGED <<memoria, tecleado, pantalla, presente>>

Acceder(u) ==
    LET i == Instruccion(u) IN
    /\ Toca(u, "MOV_IN") \/ Toca(u, "MOV_OUT")
    /\ i.dir \in Direcciones(u)
    /\ IF i.op = "MOV_IN"
       THEN SeguirAsignando(u, i.r, memoria[u][i.dir]) /\ UNCHANGED memoria
       ELSE Seguir(u) /\ memoria' = [memoria EXCEPT ![u][i.dir] = Registro(u, i.r)]
    /\ UNCHANGED <<tecleado, pantalla, presente>>

\* EXIT, or an access out of the memory.
Terminar(u) ==
    /\ \/ Toca(u, "EXIT")
       \/ /\ Toca(u, "MOV_IN") \/ Toca(u, "MOV_OUT")
          /\ Instruccion(u).dir \notin Direcciones(u)
    /\ proceso' = [proceso EXCEPT ![u] = [estado |-> "fin"]]
    /\ memoria'[u] \in [Direcciones(u) -> Palabras]
    /\ memoria' = [memoria EXCEPT ![u] = memoria'[u]]
    /\ UNCHANGED <<tecleado, pantalla, presente>>

Imprimir(u) ==
    /\ Toca(u, "PANTALLA") /\ presente[u]
    /\ pantalla' = [pantalla EXCEPT ![u] =
           Append(@, ConSigno(Registro(u, Instruccion(u).r)))]
    /\ Seguir(u)
    /\ UNCHANGED <<memoria, tecleado, presente>>

Teclear(u) ==
    /\ Toca(u, "TECLADO") /\ presente[u] /\ tecleado[u] = <<>>
    /\ \E n \in Teclas : tecleado' = [tecleado EXCEPT ![u] = <<n>>]
    /\ UNCHANGED <<proceso, memoria, pantalla, presente>>

Tomar(u) ==
    /\ Toca(u, "TECLADO") /\ tecleado[u] # <<>>
    /\ SeguirAsignando(u, Instruccion(u).r, tecleado[u][1])
    /\ tecleado' = [tecleado EXCEPT ![u] = <<>>]
    /\ UNCHANGED <<memoria, pantalla, presente>>

\* The user left: what is printed is lost and what is read changes nothing.
Ignorar(u) ==
    /\ Toca(u, "PANTALLA") \/ Toca(u, "TECLADO")
    /\ ~presente[u] /\ tecleado[u] = <<>>
    /\ Seguir(u)
    /\ UNCHANGED <<memoria, tecleado, pantalla, presente>>

Irse(u) ==
    /\ u \in Mortales /\ presente[u]
    /\ presente' = [presente EXCEPT ![u] = FALSE]
    /\ UNCHANGED <<proceso, memoria, tecleado, pantalla>>

Next == \E u \in Usuarios :
    \/ Nacer(u) \/ Calcular(u) \/ Acceder(u) \/ Terminar(u)
    \/ Imprimir(u) \/ Teclear(u) \/ Tomar(u) \/ Ignorar(u) \/ Irse(u)

Spec == Init /\ [][Next]_vars
=============================================================================
