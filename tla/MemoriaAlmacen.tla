---------------------------- MODULE MemoriaAlmacen ----------------------------
(***************************************************************************)
(* What the page cache and LFS make together, seen from a SELECT: the      *)
(* refinement of Almacen by Memoria and the properties of the answers.     *)
(***************************************************************************)
EXTENDS Memoria, SequencesExt

\* LFS once it has served every request that is on the socket.
LfsAlDia == FoldLeft(Aplicar, lfs, canal)

PaginaSucia(t, k) == {p \in Sucias : p \in Halladas(t, k)}

\* The value a SELECT must find now.
Vigente(t, k) ==
    IF PaginaSucia(t, k) # {}
    THEN memoria[(CHOOSE p \in PaginaSucia(t, k) : TRUE).frame].value
    ELSE IF t \in DOMAIN LfsAlDia THEN LfsAlDia[t][k] ELSE Nada

A == INSTANCE Almacen WITH
        existe  <- DOMAIN LfsAlDia,
        valores <- [t \in Tablas |-> [k \in Claves |-> Vigente(t, k)]],
        caido   <- caidas > 0

\* Until LFS dies, the cache is invisible: replacement, journal, page fills and
\* requests in flight never change what a SELECT would find; only an INSERT of
\* that key and a DROP of that table do.
EsAlmacen == A!Spec

\* Until LFS dies, a SELECT whose page is still there when it is read, after mutex
\* is released, is answered with the value the key has at that moment, even when
\* the value changed since the page was looked up.
RespuestaVigente ==
    [][\A h \in Hilos :
          caidas = 0 /\ Responder(h) /\ viva[h] =>
             salida'[h] = Fila(pedido[h].key,
                              Vigente(pedido[h].tabla, pedido[h].key))]_vars

\* The key of a dirty page still has a dirty page.
SigueSucia(p) ==
    \E q \in Sucias' : /\ q.segmento = p.segmento
                       /\ memoria'[q.frame].key = memoria[p.frame].key

\* A dirty page leaves the cache only with its INSERT, or the DROP of its table,
\* on the socket; the exception is a socket that is not open.
NadaSePierde ==
    [][\A p \in Sucias :
          \/ SigueSucia(p)
          \/ InsertDe(p) \in ToSet(canal')
          \/ [tipo |-> "DROP", tabla |-> p.segmento] \in ToSet(canal')
          \/ enlace' # "abierto"]_vars

\* A thread never keeps the mutex for ever: LFS answers, or the socket breaks.
MutexSeLibera == []<>(mutex = Nada)

\* memoria.h:53 says that ejecutar_select "devuelve la pagina para devolver la
\* info": the answer to a SELECT is made of the row of the key it asked for.
RespuestaDelPedido ==
    [][\A h \in Hilos : Responder(h) => salida'[h].key = pedido[h].key]_vars
=============================================================================
