SPECIFICATION Spec
CONSTANTS
    Segmentos = 2
    EntradasPorTabla = 2
    AlgoritmoReemplazo = "CLOCK"
    EntradasTlb = 2
    ReemplazoTlb = "LRU"
    Procesos = {p1}
    Nadie = Nadie
    Grado = 1
    CantMarcos = 2
    CantSwap = 4
    MarcosPorProceso = 2
SYMMETRY Simetria
INVARIANTS
    AccesoAlMarcoPropio
CHECK_DEADLOCK FALSE
