SPECIFICATION Spec
CONSTANTS
    t1 = t1
    t2 = t2
    k1 = k1
    k2 = k2
    k3 = k3
    v1 = v1
    v2 = v2
    h1 = h1
    h2 = h2
    Tablas = {t1}
    Claves = {k1, k2}
    Clave0 = k1
    Valores = {v1, v2}
    Vacio = Vacio
    Basura = Basura
    Nada = Nada
    Hilos = {h1, h2}
    CantidadFrames = 1
    MaxReloj = 1
    MaxCanal = 2
    MaxCaidas = 0
SYMMETRY Simetria
PROPERTIES RespuestaDelPedido
