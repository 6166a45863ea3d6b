SPECIFICATION Spec
CONSTANTS
    t1 = t1
    v1 = v1
    v2 = v2
    c1 = c1
    c2 = c2
    Tablas = {t1}
    Clientes = {c1}
    Consola = c1
    Pedidos = {"INSERT", "SELECT", "DESCRIBE", "DROP", "CREATE"}
    Particiones = {2}
    Existentes = {t1}
    Claves = {0, 1}
    Valores = {v1, v2}
    Instantes = {1, 2}
    Nada = Nada
    MaxInserts = 3
    MaxTemporales = 2
    MaxCreates = 1
    MaxCaidas = 0
    MaxFallas = 0
SYMMETRY Simetria
INVARIANTS SinRestos SiempreVivo
PROPERTIES EsUltimoGana RespuestaUltima
VIEW SinSalida
