SPECIFICATION FairSpec
CONSTANTS
    a = a
    b = b
    c = c
    SinNumero = SinNumero
    Basura = Basura
    Inicial = b
    Mortales = {b}
    MaxVidas = 1
    Memorias = {a, b, c}
    Seeds <- ConSeeds
INVARIANTS TypeOK SinDuplicadas NumeroDeSuDireccion
PROPERTIES Converge RondaTermina
