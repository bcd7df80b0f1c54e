SPECIFICATION Spec
CONSTANTS
    Segmentos = 2
    EntradasPorTabla = 2
    AlgoritmoReemplazo = "CLOCK-M"
    EntradasTlb = 1
    ReemplazoTlb = "LRU"
    Procesos = {p1}
    Nadie = Nadie
    Grado = 1
    CantMarcos = 4
    CantSwap = 4
    MarcosPorProceso = 2
SYMMETRY Simetria
INVARIANTS
    MarcosAcotados CopiaVigente TlbCoherente VictimaSalvoUltimas
CHECK_DEADLOCK FALSE
