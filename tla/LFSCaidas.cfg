SPECIFICATION FairSpec
CONSTANTS
    t1 = t1
    v1 = v1
    v2 = v2
    c1 = c1
    c2 = c2
    Tablas = {t1}
    Clientes = {c1, c2}
    Consola = c2
    Pedidos = {"INSERT", "SELECT", "DESCRIBE", "DROP", "CREATE", "INVALIDO"}
    Particiones = {1}
    Existentes = {t1}
    Claves = {0}
    Valores = {v1}
    Instantes = {1, 2}
    Nada = Nada
    MaxInserts = 2
    MaxTemporales = 2
    MaxCreates = 1
    MaxCaidas = 1
    MaxFallas = 1
CHECK_DEADLOCK FALSE
PROPERTIES HiloPorTabla SoloSePierdeEnVentana MutexSeLibera
