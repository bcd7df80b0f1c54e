SPECIFICATION Spec
CONSTANTS
    Segmentos = 1
    EntradasPorTabla = 2
    AlgoritmoReemplazo = "CLOCK"
    EntradasTlb = 1
    ReemplazoTlb = "FIFO"
    Procesos = {p1, p2, p3}
    Nadie = Nadie
    Grado = 2
    CantMarcos = 2
    CantSwap = 4
    MarcosPorProceso = 1
SYMMETRY Simetria
INVARIANTS
    TypeOK MarcosCoherentes SwapCoherente RecursosSuficientes SinFaltaRepetida AccesoAlMarcoPropio
CHECK_DEADLOCK FALSE
