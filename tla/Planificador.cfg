SPECIFICATION FairSpec
CONSTANTS
    p1 = p1
    p2 = p2
    Procesadores = {p1, p2}
    MaxPcbs = 2
    Guiones <- ConGuiones
    Quanta = {0, 1, 2}
    MaxRecargas = 1
CHECK_DEADLOCK FALSE
INVARIANTS TypeOK SemaforoExacto UnSoloLugar LineasEnOrden LineasSinSaltos SinHuerfanos
PROPERTIES FinCompleto TodosTerminan
