SPECIFICATION FairSpec
CONSTANTS
    t1 = t1
    t2 = t2
    p1 = p1
    p2 = p2
    SC = SC
    EC = EC
    Tablas = {t1}
    Criterios = {SC, EC}
    Procesadores = {p1, p2}
    Describe = describe
    Nada = Nada
    MaxFallas = 1
INVARIANTS MetadataExacta UsaSuCriterio PocasRepetidas
PROPERTIES AprendeTablas
