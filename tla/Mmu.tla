-------------------------------- MODULE Mmu --------------------------------
(***************************************************************************)
(* The address arithmetic of cpu/src/mmu.c and of decode.  A logical        *)
(* address is a segment, a page of it and an offset in the page.            *)
(***************************************************************************)
EXTENDS Integers

\* tam_max_segmento in decode.
TamMaxSegmento(entradas, tamanio_pagina) == entradas * tamanio_pagina

obtener_desplazamiento_segmento(dir_logica, tam_max_segmento) == dir_logica % tam_max_segmento

obtener_desplazamiento_pagina(dir_logica, tam_max_segmento, tamanio_pagina) ==
    obtener_desplazamiento_segmento(dir_logica, tam_max_segmento) % tamanio_pagina

obtener_nro_pagina(dir_logica, tam_max_segmento, tamanio_pagina) ==
    obtener_desplazamiento_segmento(dir_logica, tam_max_segmento) \div tamanio_pagina

obtener_nro_segmento(dir_logica, tam_max_segmento) == dir_logica \div tam_max_segmento

\* direccion_fisica in decode.
DireccionFisica(marco, tamanio_pagina, desplazamiento) ==
    (marco * tamanio_pagina) + desplazamiento
=============================================================================
