SPECIFICATION FairSpec
CONSTANTS
    m1 = m1
    m2 = m2
    m3 = m3
    p1 = p1
    p2 = p2
    Memorias = {m1, m2}
    Original = m1
    Hilos = {p1}
    Nada = Nada
    RepiteAdd = FALSE
    MaxAdds = 2
    MaxCaidas = 1
    MaxRoturas = 0
    MaxJournalsRotos = 1
CHECK_DEADLOCK FALSE
PROPERTIES JournalLlega
