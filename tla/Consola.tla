------------------------------ MODULE Consola ------------------------------
(***************************************************************************)
(* What a console makes of its program file (consola/src/consola_parser.c). *)
(* A file is a sequence of lines and a line a sequence of words: the two    *)
(* string_split.                                                           *)
(***************************************************************************)
EXTENDS Sequences, Naturals

\* string_to_cod_op: the words of cod_operacion are those of the language but for I/O.
Operaciones == {"SET", "ADD", "MOV_IN", "MOV_OUT", "I/O", "EXIT"}
string_to_cod_op(palabra) ==
    IF palabra = "I/O" THEN "IO" ELSE IF palabra \in Operaciones THEN palabra ELSE "UNKNOWN_OP"

\* instruccion_create: without both parameters, two empty texts.
instruccion_create(operacion, parametros) ==
    [operacion |-> operacion,
     parametro1 |-> IF Len(parametros) = 2 THEN parametros[1] ELSE "",
     parametro2 |-> IF Len(parametros) = 2 THEN parametros[2] ELSE ""]

EsExit(linea) == string_to_cod_op(linea[1]) = "EXIT"
ConParametros(linea) == IF EsExit(linea) THEN <<>> ELSE SubSeq(linea, 2, 3)

\* Nothing after an EXIT is looked at.
Leidas(archivo) ==
    {i \in DOMAIN archivo : \A j \in 1..(i - 1) : ~EsExit(archivo[j])}

\* obtener_pseudocodigo ends the console at an unknown operation; a missing parameter
\* ends it too (strdup of a null pointer).
SePuedeLeer(archivo) ==
    \A i \in Leidas(archivo) :
        /\ string_to_cod_op(archivo[i][1]) # "UNKNOWN_OP"
        /\ EsExit(archivo[i]) \/ Len(archivo[i]) >= 3
obtener_pseudocodigo(archivo) ==
    [i \in Leidas(archivo) |->
        instruccion_create(string_to_cod_op(archivo[i][1]), ConParametros(archivo[i]))]
=============================================================================
