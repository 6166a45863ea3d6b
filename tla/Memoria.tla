------------------------------- MODULE Memoria -------------------------------
(***************************************************************************)
(* The page cache of one MEMORIA process (src/MEMORIA/src/memoria.c and    *)
(* commons/commons.c) and its single socket to the file system LFS.        *)
(*                                                                         *)
(* Every connection with a KERNEL, and the console, is a thread of Hilos.  *)
(* A thread runs ejecutar_select, ejecutar_insert, ejecutar_drop or        *)
(* journal under `mutex'.  The steps of the model are the intervals        *)
(* between two points where another process or thread can get in: the      *)
(* wait for the answer of LFS (with `mutex' held) and the read of the      *)
(* page after `mutex' is released, where the answer to the KERNEL is made. *)
(*                                                                         *)
(* LFS is a map that serves the requests of the socket in order; it may    *)
(* die and come back.  A segment without pages is not distinguished from a *)
(* missing segment, and the order of the pages of a segment is left out:   *)
(* where the code takes the first of several, any of them may be taken.    *)
(***************************************************************************)
EXTENDS Integers, FiniteSets, Sequences

CONSTANTS
    Tablas,          \* names of tables
    Claves,          \* keys (u_int16_t in the code)
    Clave0,          \* the key that memset leaves in an unused frame
    Valores,         \* values that fit in a frame
    Vacio,           \* the empty value of an unused frame
    Basura,          \* a value read from memory nobody initialised
    Nada,            \* no value, no reply, no request
    Hilos,           \* threads that serve requests: connections and console
    CantidadFrames,  \* cantidad_frames
    MaxReloj,        \* bound: instants of getCurrentTime()
    MaxCanal,        \* bound: messages the socket to LFS buffers
    MaxCaidas        \* bound: crashes of LFS

ASSUME FramesAssumption == CantidadFrames \in Nat \ {0}
ASSUME Clave0Assumption == Clave0 \in Claves
ASSUME NadaAssumption == Nada \notin Hilos

Frames == 0 .. CantidadFrames - 1
Datos  == Valores \cup {Vacio, Basura}

Filas   == [key : Claves, value : Datos]
Paginas == [segmento : Tablas, frame : Frames, modificado : BOOLEAN,
            ultimo_uso : Nat]

Mensajes == [tipo : {"INSERT"}, tabla : Tablas, key : Claves, value : Datos]
            \cup [tipo : {"SELECT"}, tabla : Tablas, key : Claves]
            \cup [tipo : {"DROP"}, tabla : Tablas]

VARIABLES
    paginas,         \* the pages of every segment of tabla_segmentos
    memoria,         \* contents of the contiguous memory, frame by frame
    bitmap_frames,   \* frames whose bit is set
    frames_ocupados,
    mutex,           \* thread that holds the mutex, or Nada
    pc,              \* where each thread is
    pedido,          \* the request each thread serves
    marco,           \* frame a thread reserved (waiting) or of its page
    viva,            \* the page a thread returned has not been freed
    salida,          \* row the last SELECT of a thread was answered with
    reloj,           \* getCurrentTime()
    lfs,             \* tables of LFS: name -> key -> value
    lfsVivo,
    enlace,          \* socketClienteLfs: "abierto", "muerto" or "nulo" (-1)
    canal,           \* requests on the socket, not served yet
    respuesta,       \* answers of LFS, not received yet
    caidas

cache  == <<paginas, memoria, bitmap_frames, frames_ocupados>>
hilos  == <<mutex, pc, pedido, marco, viva, salida>>
remoto == <<lfs, lfsVivo, enlace, canal, respuesta, caidas>>
vars   == <<cache, hilos, reloj, remoto>>

-----------------------------------------------------------------------------
(* Pages and frames *)

Marcos(P)   == {p.frame : p \in P}
Sucias      == {p \in paginas : p.modificado}
PaginasDe(t) == {p \in paginas : p.segmento = t}

\* Mutant: only dirty pages are looked at.
HalladasSucias(t, k) ==
    {p \in PaginasDe(t) : memoria[p.frame].key = k /\ p.modificado}

\* obtener_pagina_segmento: the key of a page is the one in its frame.
Halladas(t, k) == {p \in PaginasDe(t) : memoria[p.frame].key = k}

\* SPA_obtener_frame: the first clear bit, or cantidad_frames if there is none.
PrimerLibre ==
    CHOOSE f \in 0 .. CantidadFrames :
        /\ f \notin bitmap_frames
        /\ \A g \in 0 .. f - 1 : g \in bitmap_frames

\* Mutant: off by one.
HayLibreDeMas == frames_ocupados <= CantidadFrames

\* obtener_frame_libre: whether it looks for a clear bit.
HayLibre == frames_ocupados < CantidadFrames

\* Mutant: a dirty page may be replaced.
ReemplazablesSucias == {p \in paginas : p.ultimo_uso < reloj}

\* ejecutar_lru: the pages it may take as victim.
Reemplazables == {p \in paginas : ~p.modificado /\ p.ultimo_uso < reloj}
Victimas ==
    {p \in Reemplazables : \A q \in Reemplazables : p.ultimo_uso <= q.ultimo_uso}

\* The INSERT that journal sends to LFS for a page.
InsertDe(p) == [tipo |-> "INSERT", tabla |-> p.segmento,
                key |-> memoria[p.frame].key, value |-> memoria[p.frame].value]

\* journal: the requests it sends, the pages in any order.
Journals ==
    LET n == Cardinality(Sucias)
    IN  {[i \in 1 .. n |-> InsertDe(s[i])] :
            s \in {s \in [1 .. n -> Sucias] :
                      \A i, j \in 1 .. n : s[i] = s[j] => i = j}}

\* obtener_frame_libre, and the journal and new attempt of its callers when it
\* returns NULL: the frame obtained and the state it leaves.
Obtenciones ==
    IF HayLibre
    THEN {[frame |-> PrimerLibre, paginas |-> paginas,
           bitmap |-> bitmap_frames \cup {PrimerLibre},
           ocupados |-> frames_ocupados + 1, envia |-> <<>>]}
    ELSE IF Victimas # {}
    THEN {[frame |-> v.frame, paginas |-> paginas \ {v},
           bitmap |-> bitmap_frames, ocupados |-> frames_ocupados,
           envia |-> <<>>] : v \in Victimas}
    ELSE {[frame |-> 0, paginas |-> {}, bitmap |-> {0}, ocupados |-> 1,
           envia |-> s] : s \in Journals}

Fila(k, v) == [key |-> k, value |-> v]
Pagina(t, f, sucia) == [segmento |-> t, frame |-> f, modificado |-> sucia,
                        ultimo_uso |-> reloj]

\* Pages whose frame is in F are freed: a thread that still has to read the one
\* it was given holds a dangling pointer from now on.
Liberar(F) ==
    viva' = [h \in Hilos |-> viva[h] /\ ~(pc[h] = "responder" /\ marco[h] \in F)]

-----------------------------------------------------------------------------
(* The socket to LFS *)

\* verificarSocketLFS followed by send: a dead descriptor swallows the messages
\* or fails, and either way they are lost.
Enviar(ms) ==
    LET abierto == enlace = "abierto" \/ (enlace = "nulo" /\ lfsVivo)
    IN  /\ Len(canal) + Len(ms) <= MaxCanal
        /\ enlace' = IF abierto /\ ms # <<>> THEN "abierto" ELSE enlace
        /\ canal' = IF abierto THEN canal \o ms ELSE canal

-----------------------------------------------------------------------------
Init ==
    /\ paginas = {}
    /\ memoria = [f \in Frames |-> Fila(Clave0, Vacio)]
    /\ bitmap_frames = {}
    /\ frames_ocupados = 0
    /\ mutex = Nada
    /\ pc = [h \in Hilos |-> "reposo"]
    /\ pedido = [h \in Hilos |-> Nada]
    /\ marco = [h \in Hilos |-> 0]
    /\ viva = [h \in Hilos |-> TRUE]
    /\ salida = [h \in Hilos |-> Nada]
    /\ reloj = 0
    /\ lfs = [t \in {} |-> [k \in Claves |-> Nada]]
    /\ lfsVivo = TRUE
    /\ enlace = "abierto"
    /\ canal = <<>>
    /\ respuesta = <<>>
    /\ caidas = 0

Ocioso(h) == pc[h] = "reposo" /\ mutex = Nada

\* SELECT of a key that has a page: only ultimo_uso changes; the page is
\* returned and read after mutex is released.
SelectAcierto(h, t, k) ==
    /\ Ocioso(h)
    /\ \E p \in Halladas(t, k) :
          /\ paginas' = (paginas \ {p}) \cup {[p EXCEPT !.ultimo_uso = reloj]}
          /\ marco' = [marco EXCEPT ![h] = p.frame]
    /\ pc' = [pc EXCEPT ![h] = "responder"]
    /\ pedido' = [pedido EXCEPT ![h] = [tabla |-> t, key |-> k]]
    /\ viva' = [viva EXCEPT ![h] = TRUE]
    /\ salida' = [salida EXCEPT ![h] = Nada]
    /\ UNCHANGED <<memoria, bitmap_frames, frames_ocupados, mutex, reloj, remoto>>

\* SELECT of a key that has no page: a frame is reserved first (by LRU or after
\* a journal if none is free), then LFS is asked, with mutex held.
SelectFallo(h, t, k) ==
    /\ Ocioso(h)
    /\ Halladas(t, k) = {}
    /\ \E o \in Obtenciones :
          /\ paginas' = o.paginas
          /\ bitmap_frames' = o.bitmap
          /\ frames_ocupados' = o.ocupados
          /\ marco' = [marco EXCEPT ![h] = o.frame]
          /\ Liberar(Marcos(paginas \ o.paginas))
          /\ Enviar(Append(o.envia, [tipo |-> "SELECT", tabla |-> t, key |-> k]))
    /\ mutex' = h
    /\ pc' = [pc EXCEPT ![h] = "espera_select"]
    /\ pedido' = [pedido EXCEPT ![h] = [tabla |-> t, key |-> k]]
    /\ salida' = [salida EXCEPT ![h] = Nada]
    /\ UNCHANGED <<memoria, reloj, lfs, lfsVivo, respuesta, caidas>>

\* crear_pagina and escribir_en_frame at the end of a SELECT that missed.
PaginaNueva(h) ==
    /\ paginas' = paginas \cup {Pagina(pedido[h].tabla, marco[h], FALSE)}
    /\ mutex' = Nada
    /\ pc' = [pc EXCEPT ![h] = "responder"]
    /\ viva' = [viva EXCEPT ![h] = TRUE]
    /\ UNCHANGED <<bitmap_frames, frames_ocupados, pedido, marco, salida>>

\* Mutant: the counter is not decremented.
SelectErrorSinContador(h) ==
    /\ bitmap_frames' = bitmap_frames \ {marco[h]}
    /\ mutex' = Nada
    /\ pc' = [pc EXCEPT ![h] = "reposo"]
    /\ pedido' = [pedido EXCEPT ![h] = Nada]
    /\ marco' = [marco EXCEPT ![h] = 0]
    /\ UNCHANGED <<frames_ocupados, paginas, memoria, viva, salida>>

\* The SELECT failed: the reserved frame is released and EJECUCIONERROR sent.
SelectError(h) ==
    /\ bitmap_frames' = bitmap_frames \ {marco[h]}
    /\ frames_ocupados' = frames_ocupados - 1
    /\ mutex' = Nada
    /\ pc' = [pc EXCEPT ![h] = "reposo"]
    /\ pedido' = [pedido EXCEPT ![h] = Nada]
    /\ marco' = [marco EXCEPT ![h] = 0]
    /\ UNCHANGED <<paginas, memoria, viva, salida>>

RecibirSelectOk(h) ==
    /\ pc[h] = "espera_select"
    /\ respuesta # <<>>
    /\ Head(respuesta) # Nada
    /\ memoria' = [memoria EXCEPT
                      ![marco[h]] = Fila(pedido[h].key, Head(respuesta))]
    /\ PaginaNueva(h)
    /\ respuesta' = Tail(respuesta)
    /\ UNCHANGED <<reloj, lfs, lfsVivo, enlace, canal, caidas>>

\* Mutant: the memory insists until LFS has the table.
RecibirSelectErrorInsiste(h) ==
    /\ pc[h] = "espera_select"
    /\ respuesta # <<>>
    /\ Head(respuesta) = Nada
    /\ canal' = Append(canal, [tipo |-> "SELECT", tabla |-> pedido[h].tabla,
                              key |-> pedido[h].key])
    /\ respuesta' = Tail(respuesta)
    /\ UNCHANGED <<cache, hilos, reloj, lfs, lfsVivo, enlace, caidas>>

RecibirSelectError(h) ==
    /\ pc[h] = "espera_select"
    /\ respuesta # <<>>
    /\ Head(respuesta) = Nada
    /\ SelectError(h)
    /\ respuesta' = Tail(respuesta)
    /\ UNCHANGED <<reloj, lfs, lfsVivo, enlace, canal, caidas>>

\* send or recv returned -1: socketClienteLfs becomes -1.
SelectSinLfs(h) ==
    /\ pc[h] = "espera_select"
    /\ respuesta = <<>>
    /\ enlace # "abierto"
    /\ SelectError(h)
    /\ enlace' \in {"nulo", enlace}
    /\ UNCHANGED <<reloj, lfs, lfsVivo, canal, respuesta, caidas>>

\* recv returned 0, because LFS closed the connection: paqueteLFS is never
\* written.  If its tipo_mensaje is not EJECUCIONERROR by chance, a page is made
\* of what the buffer holds; a value that does not fit is not even written.
SelectBasura(h) ==
    /\ pc[h] = "espera_select"
    /\ respuesta = <<>>
    /\ enlace = "muerto"
    /\ \/ memoria' = [memoria EXCEPT ![marco[h]] = Fila(pedido[h].key, Basura)]
       \/ memoria' = memoria
    /\ PaginaNueva(h)
    /\ UNCHANGED <<reloj, remoto>>

\* The end of SELECT in atender_kernel and in the console, with mutex not held:
\* the answer carries the value and, in its timestamp, the key of the frame.
\* If the page was freed meanwhile its frame pointer may be that of any frame.
\* The row is copied in one step: half of one row and half of another is left out.
Responder(h) ==
    /\ pc[h] = "responder"
    /\ \E f \in IF viva[h] THEN {marco[h]} ELSE Frames :
          salida' = [salida EXCEPT ![h] = memoria[f]]
    /\ pc' = [pc EXCEPT ![h] = "reposo"]
    /\ pedido' = [pedido EXCEPT ![h] = Nada]
    /\ marco' = [marco EXCEPT ![h] = 0]
    /\ viva' = [viva EXCEPT ![h] = TRUE]
    /\ UNCHANGED <<cache, mutex, reloj, remoto>>

\* Mutant: the page is not marked dirty.
InsertActualizaLimpia(h, t, k, v) ==
    /\ Ocioso(h)
    /\ \E p \in Halladas(t, k) :
          /\ paginas' = (paginas \ {p}) \cup {[p EXCEPT !.ultimo_uso = reloj]}
          /\ memoria' = [memoria EXCEPT ![p.frame] = Fila(k, v)]
    /\ UNCHANGED <<bitmap_frames, frames_ocupados, hilos, reloj, remoto>>

\* INSERT of a key that has a page: actualizar_pagina.
InsertActualiza(h, t, k, v) ==
    /\ Ocioso(h)
    /\ \E p \in Halladas(t, k) :
          /\ paginas' = (paginas \ {p})
                \cup {[p EXCEPT !.ultimo_uso = reloj, !.modificado = TRUE]}
          /\ memoria' = [memoria EXCEPT ![p.frame] = Fila(k, v)]
    /\ UNCHANGED <<bitmap_frames, frames_ocupados, hilos, reloj, remoto>>

\* INSERT of a key that has no page: a dirty page on a frame obtained as above.
InsertNueva(h, t, k, v) ==
    /\ Ocioso(h)
    /\ Halladas(t, k) = {}
    /\ \E o \in Obtenciones :
          /\ paginas' = o.paginas \cup {Pagina(t, o.frame, TRUE)}
          /\ memoria' = [memoria EXCEPT ![o.frame] = Fila(k, v)]
          /\ bitmap_frames' = o.bitmap
          /\ frames_ocupados' = o.ocupados
          /\ Liberar(Marcos(paginas \ o.paginas))
          /\ Enviar(o.envia)
    /\ UNCHANGED <<mutex, pc, pedido, marco, salida, reloj>>
    /\ UNCHANGED <<lfs, lfsVivo, respuesta, caidas>>

\* journal, from hilo_journal, from the KERNEL or from the console.
Journal ==
    /\ mutex = Nada
    /\ \E s \in Journals : Enviar(s)
    /\ paginas' = {}
    /\ bitmap_frames' = {}
    /\ frames_ocupados' = 0
    /\ Liberar(Marcos(paginas))
    /\ UNCHANGED <<memoria, mutex, pc, pedido, marco, salida, reloj>>
    /\ UNCHANGED <<lfs, lfsVivo, respuesta, caidas>>

\* ejecutar_drop: the pages of the table are freed, then LFS is told.
Drop(h, t) ==
    /\ Ocioso(h)
    /\ paginas' = paginas \ PaginasDe(t)
    /\ bitmap_frames' = bitmap_frames \ Marcos(PaginasDe(t))
    /\ frames_ocupados' = frames_ocupados - Cardinality(PaginasDe(t))
    /\ Liberar(Marcos(PaginasDe(t)))
    /\ Enviar(<<[tipo |-> "DROP", tabla |-> t]>>)
    /\ mutex' = h
    /\ pc' = [pc EXCEPT ![h] = "espera_drop"]
    /\ UNCHANGED <<memoria, pedido, marco, salida, reloj>>
    /\ UNCHANGED <<lfs, lfsVivo, respuesta, caidas>>

FinDrop(h) ==
    /\ pc[h] = "espera_drop"
    /\ \/ respuesta # <<>> /\ enlace' = enlace
       \/ respuesta = <<>> /\ enlace # "abierto" /\ enlace' \in {"nulo", enlace}
    /\ respuesta' = IF respuesta = <<>> THEN <<>> ELSE Tail(respuesta)
    /\ mutex' = Nada
    /\ pc' = [pc EXCEPT ![h] = "reposo"]
    /\ UNCHANGED <<cache, pedido, marco, viva, salida, reloj>>
    /\ UNCHANGED <<lfs, lfsVivo, canal, caidas>>

-----------------------------------------------------------------------------
(* The clock and LFS *)

Tic ==
    /\ reloj < MaxReloj
    /\ reloj' = reloj + 1
    /\ UNCHANGED <<cache, hilos, remoto>>

SinTabla(l, t) == [u \in DOMAIN l \ {t} |-> l[u]]

\* What one request of the socket does to the tables of LFS.
Aplicar(l, m) ==
    CASE m.tipo = "INSERT" /\ m.tabla \in DOMAIN l ->
            [l EXCEPT ![m.tabla][m.key] = m.value]
      [] m.tipo = "DROP" -> SinTabla(l, m.tabla)
      [] OTHER -> l

\* The thread of LFS that serves this socket takes the next request.  An INSERT
\* has no answer; Nada stands for EJECUCIONERROR.
LfsAtiende ==
    /\ lfsVivo
    /\ canal # <<>>
    /\ LET m == Head(canal)
           hay == m.tabla \in DOMAIN lfs
       IN  /\ lfs' = Aplicar(lfs, m)
           /\ respuesta' =
                 CASE m.tipo = "SELECT" ->
                        Append(respuesta, IF hay THEN lfs[m.tabla][m.key] ELSE Nada)
                   [] m.tipo = "DROP" ->
                        Append(respuesta, IF hay THEN Vacio ELSE Nada)
                   [] OTHER -> respuesta
    /\ canal' = Tail(canal)
    /\ UNCHANGED <<cache, hilos, reloj, lfsVivo, enlace, caidas>>

\* A CREATE: the memory forwards the one of the KERNEL on a socket of its own.
Create(t) ==
    /\ lfsVivo
    /\ t \notin DOMAIN lfs
    /\ lfs' = [u \in DOMAIN lfs \cup {t} |->
                  IF u = t THEN [k \in Claves |-> Nada] ELSE lfs[u]]
    /\ UNCHANGED <<cache, hilos, reloj, lfsVivo, enlace, canal, respuesta, caidas>>

CaidaLfs ==
    /\ lfsVivo
    /\ caidas < MaxCaidas
    /\ caidas' = caidas + 1
    /\ lfsVivo' = FALSE
    /\ canal' = <<>>
    /\ enlace' = IF enlace = "abierto" THEN "muerto" ELSE enlace
    /\ UNCHANGED <<cache, hilos, reloj, lfs, respuesta>>

ReinicioLfs ==
    /\ ~lfsVivo
    /\ lfsVivo' = TRUE
    /\ UNCHANGED <<cache, hilos, reloj, lfs, enlace, canal, respuesta, caidas>>

Pedir(h) ==
    \E t \in Tablas :
        \/ Drop(h, t)
        \/ \E k \in Claves :
              \/ SelectAcierto(h, t, k)
              \/ SelectFallo(h, t, k)
              \/ \E v \in Valores :
                    InsertActualiza(h, t, k, v) \/ InsertNueva(h, t, k, v)

Seguir(h) ==
    \/ RecibirSelectOk(h)
    \/ RecibirSelectError(h)
    \/ SelectSinLfs(h)
    \/ SelectBasura(h)
    \/ FinDrop(h)
    \/ Responder(h)

Next ==
    \/ \E h \in Hilos : Pedir(h) \/ Seguir(h)
    \/ Journal
    \/ Tic
    \/ LfsAtiende
    \/ \E t \in Tablas : Create(t)
    \/ CaidaLfs
    \/ ReinicioLfs

Spec == Init /\ [][Next]_vars

\* A thread that can go on goes on, and LFS serves its socket; nobody is forced
\* to make a request, to run a journal or to restart LFS.
FairSpec ==
    /\ Spec
    /\ \A h \in Hilos : WF_vars(Seguir(h))
    /\ WF_vars(LfsAtiende)

-----------------------------------------------------------------------------
(* Invariants *)

\* Some tables, with a value or none for every key.
EstadosLfs == UNION {[T -> [Claves -> Datos \cup {Nada}]] : T \in SUBSET Tablas}

TypeOK ==
    /\ paginas \in SUBSET Paginas
    /\ memoria \in [Frames -> Filas]
    /\ bitmap_frames \in SUBSET Frames
    /\ frames_ocupados \in Nat
    /\ mutex \in Hilos \cup {Nada}
    /\ pc \in [Hilos -> {"reposo", "espera_select", "espera_drop", "responder"}]
    /\ pedido \in [Hilos -> [tabla : Tablas, key : Claves] \cup {Nada}]
    /\ marco \in [Hilos -> Frames]
    /\ viva \in [Hilos -> BOOLEAN]
    /\ salida \in [Hilos -> Filas \cup {Nada}]
    /\ reloj \in Nat
    /\ canal \in Seq(Mensajes)
    /\ respuesta \in Seq(Datos \cup {Nada})
    /\ enlace \in {"abierto", "muerto", "nulo"}
    /\ lfsVivo \in BOOLEAN
    /\ lfs \in EstadosLfs
    /\ caidas \in Nat

\* The frame a SELECT keeps while it waits for LFS: it has no page yet.
Reservado ==
    {marco[h] : h \in {h \in Hilos : pc[h] = "espera_select"}}

\* No two pages share a frame, whatever the mix of first fit, LRU, journal and
\* drop that handed the frames out: an INSERT never writes over another page.
MarcoUnico == \A p, q \in paginas : p.frame = q.frame => p = q

\* The bitmap and the pages agree: a set bit is the frame of a page or the frame
\* a SELECT in progress reserved, and that one belongs to no page.
BitmapExacto ==
    /\ bitmap_frames = Marcos(paginas) \cup Reservado
    /\ Marcos(paginas) \cap Reservado = {}

\* frames_ocupados, which is kept apart from the bitmap, counts its set bits:
\* no frame leaks and SPA_obtener_frame never runs past the last one.
Contador == frames_ocupados = Cardinality(bitmap_frames)

Marcado == MarcoUnico /\ BitmapExacto /\ Contador

\* A segment holds at most one page of a key.
UnaPagina ==
    \A p, q \in paginas :
        p.segmento = q.segmento /\ memoria[p.frame].key = memoria[q.frame].key
        => p = q

\* Until LFS dies the page a SELECT finds is the only one of its key, the one the
\* last INSERT wrote, though it is made long after the search that missed it.
UnaPaginaPorClave == caidas = 0 => UnaPagina
=============================================================================
