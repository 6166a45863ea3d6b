SPECIFICATION SpecLista
CONSTANTS
    v1 = v1
    v2 = v2
    Claves = {0, 1}
    Valores = {v1, v2}
    Instantes = {1, 2}
    Nada = Nada
    MaxFilas = 5
CHECK_DEADLOCK FALSE
SYMMETRY Simetria
INVARIANTS ConservaUltimos
