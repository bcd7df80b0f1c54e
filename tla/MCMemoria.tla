----------------------------- MODULE MCMemoria -----------------------------
(* Processes are interchangeable: memory tells them apart only by their pid. *)
EXTENDS Memoria, TLC

Simetria == Permutations(Procesos)
=============================================================================
