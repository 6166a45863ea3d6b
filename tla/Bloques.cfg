SPECIFICATION Spec
CONSTANTS
    c1 = c1
    n1 = n1
    n2 = n2
    n3 = n3
    BLOCKS = 4
    BLOCK_SIZE = 2
    BitsPorByte = 2
    Nombres = {n1, n2, n3}
    Creadores = {c1}
    MaxParticiones = 2
    Largos = {1, 3}
    MaxGuardados = 2
    MaxCreates = 2
    MaxCaidas = 1
SYMMETRY Simetria
CHECK_DEADLOCK FALSE
INVARIANTS TypeOK Exclusivos SinFugas SeLeeLoGuardado
