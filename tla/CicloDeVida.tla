---------------------------- MODULE CicloDeVida ----------------------------
(***************************************************************************)
(* What the kernel promises about a process, whatever its threads do: the  *)
(* five-state life cycle, processes admitted in arrival order and never    *)
(* more than Grado at a time, one process executing.  EXIT is a finished   *)
(* process that still counts; FIN one whose PCB is gone.                   *)
(***************************************************************************)
EXTENDS Naturals, FiniteSets

CONSTANTS MaxPid, Grado

VARIABLE estado

Pids == 1..MaxPid
Activos == {p \in Pids : estado[p] \in {"READY", "EXEC", "BLOCK", "EXIT"}}

Cambiar(p, de, a) == estado[p] = de /\ estado' = [estado EXCEPT ![p] = a]

Init == estado = [p \in Pids |-> "FUERA"]

Llegar(p) ==
    /\ Cambiar(p, "FUERA", "NEW")
    /\ \A q \in 1..(p - 1) : estado[q] # "FUERA"

Admitir(p) ==
    /\ Cambiar(p, "NEW", "READY")
    /\ \A q \in 1..(p - 1) : estado[q] # "NEW"
    /\ Cardinality(Activos) < Grado

Elegir(p) ==
    /\ Cambiar(p, "READY", "EXEC")
    /\ \A q \in Pids : estado[q] # "EXEC"

Dejar(p)     == \E a \in {"READY", "BLOCK", "EXIT"} : Cambiar(p, "EXEC", a)
Despertar(p) == Cambiar(p, "BLOCK", "READY")
Terminar(p)  == Cambiar(p, "EXIT", "FIN")

Next == \E p \in Pids :
    Llegar(p) \/ Admitir(p) \/ Elegir(p) \/ Dejar(p) \/ Despertar(p) \/ Terminar(p)

Spec == Init /\ [][Next]_estado
=============================================================================
