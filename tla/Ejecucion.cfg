\* Two consoles, the kernel, the CPU and the memory; no PCB's descriptor is given again.
SPECIFICATION Spec
CONSTANTS
    Bits = 6
    TamPagina = 8
    EntradasPorTabla = 2
    CantMarcos = 2
    MarcosPorProceso = 1
    Residuo <- ResiduoDe
    EntradasTlb = 1
    ReemplazoTlb = "LRU"
    Consolas = {"c1", "c2"}
    Archivos <- ArchivosDe
    Segmentos <- SegmentosDe
    Grado = 2
    Teclas <- LasTeclas
    Interrumpibles = {"c2"}
    Reuso = FALSE
INVARIANTS
    TypeOK PedidoYRespuesta IdaYVuelta GradoExacto SinFugas
PROPERTIES
    RefinaMaquina  
CHECK_DEADLOCK FALSE
