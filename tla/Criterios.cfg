SPECIFICATION FairSpec
CONSTANTS
    m1 = m1
    m2 = m2
    m3 = m3
    p1 = p1
    p2 = p2
    Memorias = {m1, m2}
    Original = m1
    Hilos = {p1, "gossiping"}
    Nada = Nada
    RepiteAdd = FALSE
    MaxAdds = 3
    MaxCaidas = 2
    MaxRoturas = 1
    MaxJournalsRotos = 1
CHECK_DEADLOCK FALSE
INVARIANTS ActivaEnCriterio JournalDelCriterio CriteriosActivos
PROPERTIES SemSeLibera
