-------------------------- MODULE MCPlanificacion --------------------------
(* Instances of Planificacion for TLC. *)
EXTENDS PlanificacionPropiedades

UnDispositivo == <<"DISCO">>
DosDispositivos == <<"DISCO", "IMPRESORA">>
=============================================================================
