\* A console accepted after another died gets its descriptor, which a PCB still has.
SPECIFICATION Spec
CONSTANTS
    Bits = 6
    TamPagina = 8
    EntradasPorTabla = 2
    CantMarcos = 2
    MarcosPorProceso = 1
    Residuo <- ResiduoDe
    EntradasTlb = 1
    ReemplazoTlb = "LRU"
    Consolas = {"c1", "c2"}
    Archivos <- ArchivosDe
    Segmentos <- SegmentosDe
    Grado = 2
    Teclas <- LasTeclas
    Interrumpibles = {"c2"}
    Reuso = TRUE
INVARIANTS
    ConsolaPropia
CHECK_DEADLOCK FALSE
