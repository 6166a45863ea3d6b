----------------------------- MODULE MemoriaProofs -----------------------------
(***************************************************************************)
(* Proofs about the page cache, for any number of tables, keys, values,    *)
(* threads, frames and crashes of LFS.                                     *)
(***************************************************************************)
EXTENDS MemoriaAlmacen, ListasProofs, FunctionTheorems, FiniteSetTheorems

-----------------------------------------------------------------------------
(* Numbers and cardinalities *)

LEMMA MinimoNat ==
    ASSUME NEW T \in SUBSET Nat, T # {}
    PROVE  \E x \in T : \A y \in T : x <= y
<1>1. PICK x \in T : \A y \in T : ~ (<<y, x>> \in OpToRel(<, Nat))
  BY NatLessThanWellFounded, WFMin
<1>2. \A y \in T : y < x => <<y, x>> \in OpToRel(<, Nat)
  BY DEF OpToRel
<1>3. \A y \in T : y \in Nat /\ x \in Nat /\ ~(y < x)
  BY <1>1, <1>2, Zenon
<1>4. QED
  BY <1>3

LEMMA FramesFinito == IsFiniteSet(Frames) /\ Cardinality(Frames) = CantidadFrames
  BY FramesAssumption, FS_Interval DEF Frames

LEMMA SubconjuntoDeFrames ==
    ASSUME NEW B \in SUBSET Frames
    PROVE  IsFiniteSet(B) /\ Cardinality(B) \in Nat /\ Cardinality(B) <= CantidadFrames
  BY FramesFinito, FS_Subset, FS_CardinalityType

\* Pages on different frames are as many as their frames.
LEMMA TantasComoMarcos ==
    ASSUME NEW P \in SUBSET Paginas, \A p, q \in P : p.frame = q.frame => p = q
    PROVE  /\ Marcos(P) \in SUBSET Frames
           /\ IsFiniteSet(P)
           /\ Cardinality(P) = Cardinality(Marcos(P))
<1> DEFINE F == [p \in P |-> p.frame]
<1>1. Marcos(P) \in SUBSET Frames
  BY DEF Marcos, Paginas
<1>2. F \in [P -> Marcos(P)]
  BY DEF Marcos
<1>3. \A t \in Marcos(P) : \E p \in P : F[p] = t
  BY DEF Marcos
<1>4. F \in Injection(P, Marcos(P)) /\ F \in Bijection(P, Marcos(P))
  BY <1>2, <1>3, Fun_IsInj, Fun_IsBij
<1>5. IsFiniteSet(P)
  BY <1>1, <1>4, SubconjuntoDeFrames, FS_Injection
<1>6. ExistsBijection(P, Marcos(P))
  BY <1>4, Fun_ExistsBij
<1>7. QED
  BY <1>1, <1>5, <1>6, FS_Bijection

\* SPA_obtener_frame finds a clear bit when there is one.
LEMMA PrimerLibreEsLibre ==
    ASSUME bitmap_frames \in SUBSET Frames, Cardinality(bitmap_frames) < CantidadFrames
    PROVE  PrimerLibre \in Frames /\ PrimerLibre \notin bitmap_frames
<1> DEFINE Libres == Frames \ bitmap_frames
<1>1. Libres # {}
  <2>1. CASE Libres = {}
    <3>1. bitmap_frames = Frames
      BY <2>1
    <3>2. QED
      BY <3>1, FramesFinito, FramesAssumption
  <2>2. QED
    BY <2>1
<1>2. Libres \in SUBSET Nat
  BY FramesAssumption DEF Frames
<1>3. PICK x \in Libres : \A y \in Libres : x <= y
  BY <1>1, <1>2, MinimoNat
<1>4. /\ x \in 0 .. CantidadFrames /\ x \notin bitmap_frames
      /\ \A g \in 0 .. x - 1 : g \in bitmap_frames
  BY <1>2, <1>3, FramesAssumption DEF Frames
<1>5. /\ PrimerLibre \in 0 .. CantidadFrames
      /\ PrimerLibre \notin bitmap_frames
      /\ \A g \in 0 .. PrimerLibre - 1 : g \in bitmap_frames
  BY <1>4 DEF PrimerLibre
<1>6. PrimerLibre # CantidadFrames
  BY <1>3, <1>5, FramesAssumption DEF Frames
<1>7. QED
  BY <1>5, <1>6, FramesAssumption DEF Frames

-----------------------------------------------------------------------------
(* The inductive invariant: the invariants of the runs, who holds the mutex,   *)
(* and that a thread that waits for the answer to a SELECT knows what it asked *)
(* for.                                                                        *)

\* The mutex is held exactly by the thread that waits for LFS, however many
\* threads of the kernel, of the console and of the timer there are: only one
\* can have a frame reserved while another looks for one.
Exclusion ==
    \A h \in Hilos : pc[h] \in {"espera_select", "espera_drop"} <=> mutex = h

EnEspera ==
    \A h \in Hilos :
        pc[h] = "espera_select" => pedido[h] \in [tabla : Tablas, key : Claves]

Inv == TypeOK /\ Exclusion /\ Marcado /\ EnEspera

LEMMA MensajesDePaginas ==
    ASSUME TypeOK
    PROVE  /\ \A p \in paginas : InsertDe(p) \in Mensajes
           /\ \A t \in Tablas, k \in Claves :
                 [tipo |-> "SELECT", tabla |-> t, key |-> k] \in Mensajes
           /\ \A t \in Tablas : [tipo |-> "DROP", tabla |-> t] \in Mensajes
  BY DEF TypeOK, InsertDe, Mensajes, Paginas, Filas

LEMMA JournalsMensajes ==
    ASSUME TypeOK, MarcoUnico, NEW s \in Journals
    PROVE  s \in Seq(Mensajes)
<1> DEFINE n == Cardinality(Sucias)
<1>1. n \in Nat
  <2>1. IsFiniteSet(Sucias)
    BY TantasComoMarcos DEF TypeOK, MarcoUnico, Sucias
  <2>2. QED
    BY <2>1, FS_CardinalityType
<1>2. PICK z \in [1 .. n -> Sucias] : s = [i \in 1 .. n |-> InsertDe(z[i])]
  BY DEF Journals
<1>3. \A i \in 1 .. n : InsertDe(z[i]) \in Mensajes
  BY MensajesDePaginas DEF Sucias
<1>4. QED
  BY <1>1, <1>2, <1>3

LEMMA EnviarTipos ==
    ASSUME TypeOK, NEW ms \in Seq(Mensajes), Enviar(ms)
    PROVE  canal' \in Seq(Mensajes) /\ enlace' \in {"abierto", "muerto", "nulo"}
  BY DEF TypeOK, Enviar

LEMMA ReservadoVacio ==
    ASSUME Exclusion, mutex = Nada
    PROVE  Reservado = {}
  BY NadaAssumption DEF Exclusion, Reservado

\* A frame obtained by first fit, by LRU or after a journal has no page, and the
\* bitmap and the counter include it.
LEMMA ObtencionBuena ==
    ASSUME Inv, mutex = Nada, NEW o \in Obtenciones
    PROVE  /\ o.paginas \subseteq paginas
           /\ o.frame \in Frames
           /\ o.frame \notin Marcos(o.paginas)
           /\ o.bitmap \in SUBSET Frames
           /\ o.bitmap = Marcos(o.paginas) \cup {o.frame}
           /\ o.ocupados \in Nat
           /\ o.ocupados = Cardinality(o.bitmap)
           /\ o.envia \in Seq(Mensajes)
<1>1. /\ bitmap_frames \in SUBSET Frames
      /\ bitmap_frames = Marcos(paginas)
      /\ frames_ocupados = Cardinality(bitmap_frames)
      /\ IsFiniteSet(bitmap_frames)
      /\ frames_ocupados \in Nat
      /\ \A p, q \in paginas : p.frame = q.frame => p = q
      /\ \A p \in paginas : p.frame \in Frames
  BY ReservadoVacio, SubconjuntoDeFrames
  DEF Inv, TypeOK, Marcado, MarcoUnico, BitmapExacto, Contador, Paginas
<1>2. <<>> \in Seq(Mensajes)
  OBVIOUS
<1>3. CASE HayLibre
  <2>1. o = [frame |-> PrimerLibre, paginas |-> paginas,
             bitmap |-> bitmap_frames \cup {PrimerLibre},
             ocupados |-> frames_ocupados + 1, envia |-> <<>>]
    BY <1>3 DEF Obtenciones
  <2>2. PrimerLibre \in Frames /\ PrimerLibre \notin bitmap_frames
    BY <1>1, <1>3, PrimerLibreEsLibre DEF HayLibre
  <2>3. Cardinality(bitmap_frames \cup {PrimerLibre}) = frames_ocupados + 1
    BY <1>1, <2>2, FS_AddElement
  <2>4. QED
    BY <1>1, <1>2, <2>1, <2>2, <2>3
<1>4. CASE ~HayLibre /\ Victimas # {}
  <2>1. PICK v \in Victimas :
            o = [frame |-> v.frame, paginas |-> paginas \ {v},
                 bitmap |-> bitmap_frames, ocupados |-> frames_ocupados,
                 envia |-> <<>>]
    BY <1>4 DEF Obtenciones
  <2>2. v \in paginas
    BY DEF Victimas, Reemplazables
  <2>3. v.frame \in Frames /\ v.frame \notin Marcos(paginas \ {v})
    BY <1>1, <2>2 DEF Marcos
  <2>4. Marcos(paginas) = Marcos(paginas \ {v}) \cup {v.frame}
    BY <2>2 DEF Marcos
  <2>5. QED
    BY <1>1, <1>2, <2>1, <2>3, <2>4
<1>5. CASE ~HayLibre /\ Victimas = {}
  <2>1. PICK s \in Journals :
            o = [frame |-> 0, paginas |-> {}, bitmap |-> {0}, ocupados |-> 1,
                 envia |-> s]
    BY <1>5 DEF Obtenciones
  <2>2. 0 \in Frames /\ Marcos({}) = {} /\ Cardinality({0}) = 1
    BY FramesAssumption, FS_Singleton DEF Frames, Marcos
  <2>3. s \in Seq(Mensajes)
    BY JournalsMensajes DEF Inv, Marcado
  <2>4. QED
    BY <2>1, <2>2, <2>3
<1>6. QED
  BY <1>3, <1>4, <1>5

LEMMA InitInv == Init => Inv
<1> SUFFICES ASSUME Init PROVE Inv
  OBVIOUS
<1>1. 0 \in Frames
  BY FramesAssumption DEF Frames
<1>2. TypeOK
  <2>1. lfs \in EstadosLfs
    <3>1. lfs \in [{} -> [Claves -> Datos \cup {Nada}]]
      BY DEF Init
    <3>2. QED
      BY <3>1 DEF EstadosLfs
  <2>2. QED
    BY <1>1, <2>1, Clave0Assumption DEF Init, TypeOK, Filas, Fila, Datos
<1>3. Exclusion /\ EnEspera
  BY NadaAssumption DEF Init, Exclusion, EnEspera
<1>4. Marcado
  BY FS_EmptySet
  DEF Init, Marcado, MarcoUnico, BitmapExacto, Contador, Marcos, Reservado
<1>5. QED
  BY <1>2, <1>3, <1>4 DEF Inv

-----------------------------------------------------------------------------
(* The requests that do not find their page *)

\* A page taken from the cache and put back on the same frame, by SELECT and INSERT.
LEMMA RetocarPagina ==
    ASSUME Inv, NEW p \in paginas, NEW q \in Paginas, q.frame = p.frame,
           paginas' = (paginas \ {p}) \cup {q},
           UNCHANGED <<bitmap_frames, frames_ocupados>>, Reservado' = Reservado
    PROVE  paginas' \in SUBSET Paginas /\ Marcado'
<1>1. Marcos(paginas') = Marcos(paginas)
  BY DEF Marcos
<1>2. MarcoUnico'
  BY DEF Inv, Marcado, MarcoUnico
<1>3. BitmapExacto'
  BY <1>1 DEF Inv, Marcado, BitmapExacto
<1>4. Contador'
  BY DEF Inv, Marcado, Contador
<1>5. QED
  BY <1>2, <1>3, <1>4 DEF Inv, TypeOK, Marcado

LEMMA SelectAciertoInv ==
    ASSUME Inv, NEW h \in Hilos, NEW t \in Tablas, NEW k \in Claves, SelectAcierto(h, t, k)
    PROVE  Inv'
<1>1. PICK p \in Halladas(t, k) :
         /\ paginas' = (paginas \ {p}) \cup {[p EXCEPT !.ultimo_uso = reloj]}
         /\ marco' = [marco EXCEPT ![h] = p.frame]
  BY DEF SelectAcierto
<1>2. /\ p \in paginas /\ p.frame \in Frames
      /\ [p EXCEPT !.ultimo_uso = reloj] \in Paginas
      /\ [p EXCEPT !.ultimo_uso = reloj].frame = p.frame
  BY DEF Halladas, PaginasDe, Inv, TypeOK, Paginas
<1>3. /\ pc[h] = "reposo" /\ mutex = Nada /\ mutex' = Nada
      /\ pc' = [pc EXCEPT ![h] = "responder"]
  BY DEF SelectAcierto, Ocioso
<1>4. Exclusion'
  BY <1>3, NadaAssumption DEF Inv, TypeOK, Exclusion
<1>5. Reservado' = Reservado
  BY <1>3, <1>4, ReservadoVacio DEF Inv, Exclusion, Reservado
<1>6. Marcado' /\ paginas' \in SUBSET Paginas
  BY <1>1, <1>2, <1>5, RetocarPagina DEF SelectAcierto
<1>7. TypeOK'
  BY <1>1, <1>2, <1>6 DEF Inv, TypeOK, SelectAcierto, remoto
<1>8. EnEspera'
  BY <1>3, <1>4, NadaAssumption DEF Exclusion, EnEspera
<1>9. QED
  BY <1>4, <1>6, <1>7, <1>8 DEF Inv

LEMMA SelectFalloInv ==
    ASSUME Inv, NEW h \in Hilos, NEW t \in Tablas, NEW k \in Claves, SelectFallo(h, t, k)
    PROVE  Inv'
<1>1. PICK o \in Obtenciones :
         /\ paginas' = o.paginas
         /\ bitmap_frames' = o.bitmap
         /\ frames_ocupados' = o.ocupados
         /\ marco' = [marco EXCEPT ![h] = o.frame]
         /\ Liberar(Marcos(paginas \ o.paginas))
         /\ Enviar(Append(o.envia, [tipo |-> "SELECT", tabla |-> t, key |-> k]))
  BY DEF SelectFallo
<1>2. /\ pc[h] = "reposo" /\ mutex = Nada /\ mutex' = h
      /\ pc' = [pc EXCEPT ![h] = "espera_select"]
      /\ pedido' = [pedido EXCEPT ![h] = [tabla |-> t, key |-> k]]
  BY DEF SelectFallo, Ocioso
<1>3. /\ o.paginas \subseteq paginas
      /\ o.frame \in Frames /\ o.frame \notin Marcos(o.paginas)
      /\ o.bitmap \in SUBSET Frames /\ o.bitmap = Marcos(o.paginas) \cup {o.frame}
      /\ o.ocupados \in Nat /\ o.ocupados = Cardinality(o.bitmap)
      /\ o.envia \in Seq(Mensajes)
  BY <1>2, ObtencionBuena
<1>4. Exclusion'
  BY <1>2, NadaAssumption DEF Inv, TypeOK, Exclusion
<1>5. marco' \in [Hilos -> Frames]
  BY <1>1, <1>3 DEF Inv, TypeOK
<1>6. Reservado' = {o.frame}
  <2>1. \A g \in Hilos : pc'[g] = "espera_select" <=> g = h
    BY <1>2, <1>4 DEF Exclusion, Inv, TypeOK
  <2>2. marco'[h] = o.frame
    BY <1>1 DEF Inv, TypeOK
  <2>3. QED
    BY <2>1, <2>2 DEF Reservado
<1>7. Marcado'
  BY <1>1, <1>3, <1>6 DEF Inv, Marcado, MarcoUnico, BitmapExacto, Contador
<1>8. TypeOK'
  <2>1. Append(o.envia, [tipo |-> "SELECT", tabla |-> t, key |-> k]) \in Seq(Mensajes)
    BY <1>3, MensajesDePaginas DEF Inv
  <2>2. canal' \in Seq(Mensajes) /\ enlace' \in {"abierto", "muerto", "nulo"}
    BY <1>1, <2>1, EnviarTipos DEF Inv
  <2>3. viva' \in [Hilos -> BOOLEAN]
    BY <1>1, Zenon DEF Liberar
  <2>4. /\ pc' \in [Hilos -> {"reposo", "espera_select", "espera_drop", "responder"}]
        /\ pedido' \in [Hilos -> [tabla : Tablas, key : Claves] \cup {Nada}]
        /\ paginas' \in SUBSET Paginas
    BY <1>1, <1>2, <1>3 DEF Inv, TypeOK
  <2>5. QED
    BY <1>1, <1>2, <1>3, <1>5, <2>2, <2>3, <2>4 DEF Inv, TypeOK, SelectFallo
<1>9. EnEspera'
  BY <1>2, <1>4 DEF Inv, TypeOK, Exclusion, EnEspera
<1>10. QED
  BY <1>4, <1>7, <1>8, <1>9 DEF Inv

LEMMA InsertActualizaInv ==
    ASSUME Inv, NEW h \in Hilos, NEW t \in Tablas, NEW k \in Claves, NEW v \in Valores,
           InsertActualiza(h, t, k, v)
    PROVE  Inv'
<1>1. PICK p \in Halladas(t, k) :
         /\ paginas' = (paginas \ {p})
               \cup {[p EXCEPT !.ultimo_uso = reloj, !.modificado = TRUE]}
         /\ memoria' = [memoria EXCEPT ![p.frame] = Fila(k, v)]
  BY DEF InsertActualiza
<1>2. /\ p \in paginas /\ p.frame \in Frames
      /\ [p EXCEPT !.ultimo_uso = reloj, !.modificado = TRUE] \in Paginas
      /\ [p EXCEPT !.ultimo_uso = reloj, !.modificado = TRUE].frame = p.frame
  BY DEF Halladas, PaginasDe, Inv, TypeOK, Paginas
<1>3. Fila(k, v) \in Filas
  BY DEF Fila, Filas, Datos
<1>4. UNCHANGED <<mutex, pc, pedido, marco>>
  BY DEF InsertActualiza, hilos
<1>5. Exclusion' /\ EnEspera' /\ Reservado' = Reservado
  BY <1>4 DEF Inv, Exclusion, EnEspera, Reservado
<1>6. Marcado' /\ paginas' \in SUBSET Paginas
  BY <1>1, <1>2, <1>5, RetocarPagina DEF InsertActualiza
<1>7. TypeOK'
  BY <1>1, <1>2, <1>3, <1>6 DEF Inv, TypeOK, InsertActualiza, hilos, remoto
<1>8. QED
  BY <1>5, <1>6, <1>7 DEF Inv

LEMMA InsertNuevaInv ==
    ASSUME Inv, NEW h \in Hilos, NEW t \in Tablas, NEW k \in Claves, NEW v \in Valores,
           InsertNueva(h, t, k, v)
    PROVE  Inv'
<1>1. PICK o \in Obtenciones :
         /\ paginas' = o.paginas \cup {Pagina(t, o.frame, TRUE)}
         /\ memoria' = [memoria EXCEPT ![o.frame] = Fila(k, v)]
         /\ bitmap_frames' = o.bitmap
         /\ frames_ocupados' = o.ocupados
         /\ Liberar(Marcos(paginas \ o.paginas))
         /\ Enviar(o.envia)
  BY DEF InsertNueva
<1>2. /\ mutex = Nada
      /\ UNCHANGED <<mutex, pc, pedido, marco, salida, reloj>>
      /\ UNCHANGED <<lfs, lfsVivo, respuesta, caidas>>
  BY DEF InsertNueva, Ocioso
<1>3. /\ o.paginas \subseteq paginas
      /\ o.frame \in Frames /\ o.frame \notin Marcos(o.paginas)
      /\ o.bitmap \in SUBSET Frames /\ o.bitmap = Marcos(o.paginas) \cup {o.frame}
      /\ o.ocupados \in Nat /\ o.ocupados = Cardinality(o.bitmap)
      /\ o.envia \in Seq(Mensajes)
  BY <1>2, ObtencionBuena
<1>4. Exclusion' /\ EnEspera' /\ Reservado' = {}
  BY <1>2, ReservadoVacio DEF Inv, Exclusion, EnEspera, Reservado
<1>5. /\ Pagina(t, o.frame, TRUE) \in Paginas
      /\ Pagina(t, o.frame, TRUE).frame = o.frame
      /\ Fila(k, v) \in Filas
  BY <1>3 DEF Pagina, Paginas, Fila, Filas, Datos, Inv, TypeOK
<1>6. Marcado'
  <2>1. Marcos(paginas') = o.bitmap
    BY <1>1, <1>3, <1>5 DEF Marcos
  <2>2. MarcoUnico'
    BY <1>1, <1>3, <1>5 DEF Inv, Marcado, MarcoUnico, Marcos
  <2>3. QED
    BY <1>1, <1>3, <1>4, <2>1, <2>2 DEF Marcado, BitmapExacto, Contador
<1>7. TypeOK'
  <2>1. canal' \in Seq(Mensajes) /\ enlace' \in {"abierto", "muerto", "nulo"}
    BY <1>1, <1>3, EnviarTipos DEF Inv
  <2>2. viva' \in [Hilos -> BOOLEAN]
    BY <1>1, Zenon DEF Liberar
  <2>3. paginas' \in SUBSET Paginas /\ memoria' \in [Frames -> Filas]
    BY <1>1, <1>3, <1>5 DEF Inv, TypeOK
  <2>4. QED
    BY <1>1, <1>2, <1>3, <2>1, <2>2, <2>3 DEF Inv, TypeOK
<1>8. QED
  BY <1>4, <1>6, <1>7 DEF Inv

-----------------------------------------------------------------------------
(* The end of a SELECT that asked LFS *)

\* While a thread waits for a SELECT, its frame is the only one reserved.
LEMMA ReservadoPropio ==
    ASSUME Inv, NEW h \in Hilos, pc[h] = "espera_select"
    PROVE  /\ mutex = h
           /\ Reservado = {marco[h]}
           /\ marco[h] \in Frames /\ marco[h] \notin Marcos(paginas)
           /\ pedido[h] \in [tabla : Tablas, key : Claves]
  BY DEF Inv, TypeOK, Exclusion, Marcado, BitmapExacto, EnEspera, Reservado

\* Nobody waits once the thread that waited has released mutex.
LEMMA SueltaMutex ==
    ASSUME Inv, NEW h \in Hilos, mutex = h, mutex' = Nada,
           \/ pc' = [pc EXCEPT ![h] = "responder"]
           \/ pc' = [pc EXCEPT ![h] = "reposo"]
    PROVE  Exclusion' /\ EnEspera' /\ Reservado' = {}
<1>1. \A g \in Hilos : pc'[g] \notin {"espera_select", "espera_drop"}
  BY DEF Inv, TypeOK, Exclusion
<1>2. QED
  BY <1>1, NadaAssumption DEF Exclusion, EnEspera, Reservado

LEMMA PaginaNuevaInv ==
    ASSUME Inv, NEW h \in Hilos, pc[h] = "espera_select", PaginaNueva(h)
    PROVE  Exclusion' /\ EnEspera' /\ Marcado' /\ paginas' \in SUBSET Paginas
<1> DEFINE q == Pagina(pedido[h].tabla, marco[h], FALSE)
<1>1. /\ mutex = h /\ Reservado = {marco[h]}
      /\ marco[h] \in Frames /\ marco[h] \notin Marcos(paginas)
      /\ pedido[h] \in [tabla : Tablas, key : Claves]
  BY ReservadoPropio
<1>2. q \in Paginas /\ q.frame = marco[h] /\ paginas' = paginas \cup {q}
  BY <1>1 DEF PaginaNueva, Pagina, Paginas, Inv, TypeOK
<1>3. Exclusion' /\ EnEspera' /\ Reservado' = {}
  BY <1>1, SueltaMutex DEF PaginaNueva
<1>4. Marcos(paginas') = Marcos(paginas) \cup {marco[h]}
  BY <1>2 DEF Marcos
<1>5. MarcoUnico'
  BY <1>1, <1>2 DEF Inv, Marcado, MarcoUnico, Marcos
<1>6. BitmapExacto' /\ Contador'
  BY <1>1, <1>3, <1>4 DEF PaginaNueva, Inv, Marcado, BitmapExacto, Contador
<1>7. QED
  BY <1>2, <1>3, <1>5, <1>6 DEF Marcado, Inv, TypeOK

LEMMA RecibirSelectOkInv ==
    ASSUME Inv, NEW h \in Hilos, RecibirSelectOk(h)
    PROVE  Inv'
<1>1. Exclusion' /\ EnEspera' /\ Marcado' /\ paginas' \in SUBSET Paginas
  BY PaginaNuevaInv DEF RecibirSelectOk
<1>2. marco[h] \in Frames /\ pedido[h] \in [tabla : Tablas, key : Claves]
  BY ReservadoPropio DEF RecibirSelectOk
<1>3. /\ respuesta \in Seq(Datos \cup {Nada}) /\ respuesta # <<>>
      /\ Head(respuesta) # Nada
  BY DEF RecibirSelectOk, Inv, TypeOK
<1>4. Head(respuesta) \in Datos /\ Tail(respuesta) \in Seq(Datos \cup {Nada})
  BY <1>3
<1>5. Fila(pedido[h].key, Head(respuesta)) \in Filas
  BY <1>2, <1>4 DEF Fila, Filas
<1>6. memoria' \in [Frames -> Filas]
  BY <1>5 DEF RecibirSelectOk, Inv, TypeOK
<1>7. TypeOK'
  BY <1>1, <1>4, <1>6 DEF RecibirSelectOk, PaginaNueva, Inv, TypeOK
<1>8. QED
  BY <1>1, <1>7 DEF Inv

LEMMA SelectBasuraInv ==
    ASSUME Inv, NEW h \in Hilos, SelectBasura(h)
    PROVE  Inv'
<1>1. Exclusion' /\ EnEspera' /\ Marcado' /\ paginas' \in SUBSET Paginas
  BY PaginaNuevaInv DEF SelectBasura
<1>2. pedido[h] \in [tabla : Tablas, key : Claves]
  BY ReservadoPropio DEF SelectBasura
<1>3. Fila(pedido[h].key, Basura) \in Filas
  BY <1>2 DEF Fila, Filas, Datos
<1>4. memoria' \in [Frames -> Filas]
  BY <1>3 DEF SelectBasura, Inv, TypeOK
<1>5. TypeOK'
  BY <1>1, <1>4 DEF SelectBasura, PaginaNueva, remoto, Inv, TypeOK
<1>6. QED
  BY <1>1, <1>5 DEF Inv

LEMMA SelectErrorInv ==
    ASSUME Inv, NEW h \in Hilos, RecibirSelectError(h) \/ SelectSinLfs(h)
    PROVE  Inv'
<1>1. pc[h] = "espera_select" /\ SelectError(h)
  BY DEF RecibirSelectError, SelectSinLfs
<1>2. /\ mutex = h /\ Reservado = {marco[h]}
      /\ marco[h] \in Frames /\ marco[h] \notin Marcos(paginas)
  BY <1>1, ReservadoPropio
<1>3. Exclusion' /\ EnEspera' /\ Reservado' = {}
  BY <1>1, <1>2, SueltaMutex DEF SelectError
<1>4. /\ bitmap_frames \in SUBSET Frames
      /\ bitmap_frames = Marcos(paginas) \cup {marco[h]}
      /\ frames_ocupados = Cardinality(bitmap_frames)
      /\ IsFiniteSet(bitmap_frames)
      /\ bitmap_frames' = bitmap_frames \ {marco[h]}
      /\ frames_ocupados' = frames_ocupados - 1
      /\ paginas' = paginas
  BY <1>1, <1>2, SubconjuntoDeFrames
  DEF Inv, TypeOK, Marcado, BitmapExacto, Contador, SelectError
<1>5. frames_ocupados' = Cardinality(bitmap_frames')
  BY <1>4, FS_RemoveElement
<1>6. frames_ocupados' \in Nat /\ bitmap_frames' \in SUBSET Frames
  BY <1>4, <1>5, SubconjuntoDeFrames
<1>7. Marcado'
  BY <1>2, <1>3, <1>4, <1>5 DEF Inv, Marcado, MarcoUnico, BitmapExacto, Contador
<1>8. TypeOK'
  <2>1. /\ marco' \in [Hilos -> Frames]
        /\ pedido' \in [Hilos -> [tabla : Tablas, key : Claves] \cup {Nada}]
        /\ pc' \in [Hilos -> {"reposo", "espera_select", "espera_drop", "responder"}]
        /\ mutex' \in Hilos \cup {Nada}
        /\ UNCHANGED <<paginas, memoria, viva, salida>>
    BY <1>1, FramesAssumption DEF SelectError, Inv, TypeOK, Frames
  <2>2. CASE RecibirSelectError(h)
    <3>1. respuesta' \in Seq(Datos \cup {Nada})
      BY <2>2 DEF RecibirSelectError, Inv, TypeOK
    <3>2. QED
      BY <1>6, <2>1, <2>2, <3>1 DEF RecibirSelectError, Inv, TypeOK
  <2>3. CASE SelectSinLfs(h)
    BY <1>6, <2>1, <2>3 DEF SelectSinLfs, Inv, TypeOK
  <2>4. QED
    BY <2>2, <2>3
<1>9. QED
  BY <1>3, <1>7, <1>8 DEF Inv

LEMMA ResponderInv ==
    ASSUME Inv, NEW h \in Hilos, Responder(h)
    PROVE  Inv'
<1>1. PICK f \in IF viva[h] THEN {marco[h]} ELSE Frames :
         salida' = [salida EXCEPT ![h] = memoria[f]]
  BY DEF Responder
<1>2. f \in Frames
  BY <1>1 DEF Inv, TypeOK
<1>3. salida' \in [Hilos -> Filas \cup {Nada}]
  BY <1>1, <1>2 DEF Inv, TypeOK
<1>4. /\ pc[h] = "responder"
      /\ pc' = [pc EXCEPT ![h] = "reposo"]
      /\ pedido' = [pedido EXCEPT ![h] = Nada]
      /\ marco' = [marco EXCEPT ![h] = 0]
      /\ viva' = [viva EXCEPT ![h] = TRUE]
      /\ UNCHANGED <<cache, mutex, reloj, remoto>>
  BY DEF Responder
<1>5. Exclusion' /\ EnEspera' /\ Reservado' = Reservado
  BY <1>4 DEF Inv, TypeOK, Exclusion, EnEspera, Reservado
<1>6. Marcado'
  BY <1>4, <1>5 DEF cache, Inv, Marcado, MarcoUnico, BitmapExacto, Contador
<1>7. TypeOK'
  BY <1>3, <1>4, FramesAssumption DEF cache, remoto, Inv, TypeOK, Frames
<1>8. QED
  BY <1>5, <1>6, <1>7 DEF Inv

-----------------------------------------------------------------------------
(* Journal and DROP *)

LEMMA JournalInv ==
    ASSUME Inv, Journal
    PROVE  Inv'
<1>1. PICK s \in Journals : Enviar(s)
  BY DEF Journal
<1>2. /\ mutex = Nada
      /\ paginas' = {} /\ bitmap_frames' = {} /\ frames_ocupados' = 0
      /\ Liberar(Marcos(paginas))
      /\ UNCHANGED <<memoria, mutex, pc, pedido, marco, salida, reloj>>
      /\ UNCHANGED <<lfs, lfsVivo, respuesta, caidas>>
  BY DEF Journal
<1>3. Exclusion' /\ EnEspera' /\ Reservado' = {}
  BY <1>2, ReservadoVacio DEF Inv, Exclusion, EnEspera, Reservado
<1>4. Marcado'
  BY <1>2, <1>3, FS_EmptySet DEF Marcado, MarcoUnico, BitmapExacto, Contador, Marcos
<1>5. canal' \in Seq(Mensajes) /\ enlace' \in {"abierto", "muerto", "nulo"}
  BY <1>1, JournalsMensajes, EnviarTipos DEF Inv, Marcado
<1>6. viva' \in [Hilos -> BOOLEAN]
  BY <1>2, Zenon DEF Liberar
<1>7. TypeOK'
  BY <1>2, <1>5, <1>6 DEF Inv, TypeOK
<1>8. QED
  BY <1>3, <1>4, <1>7 DEF Inv

LEMMA DropInv ==
    ASSUME Inv, NEW h \in Hilos, NEW t \in Tablas, Drop(h, t)
    PROVE  Inv'
<1> DEFINE P == PaginasDe(t)
<1>1. /\ mutex = Nada /\ pc[h] = "reposo"
      /\ paginas' = paginas \ P
      /\ bitmap_frames' = bitmap_frames \ Marcos(P)
      /\ frames_ocupados' = frames_ocupados - Cardinality(P)
      /\ Liberar(Marcos(P))
      /\ Enviar(<<[tipo |-> "DROP", tabla |-> t]>>)
      /\ mutex' = h
      /\ pc' = [pc EXCEPT ![h] = "espera_drop"]
      /\ UNCHANGED <<memoria, pedido, marco, salida, reloj>>
      /\ UNCHANGED <<lfs, lfsVivo, respuesta, caidas>>
  BY DEF Drop, Ocioso
<1>2. /\ P \subseteq paginas
      /\ bitmap_frames = Marcos(paginas) /\ bitmap_frames \in SUBSET Frames
      /\ frames_ocupados = Cardinality(bitmap_frames)
      /\ \A p, q \in paginas : p.frame = q.frame => p = q
  BY <1>1, ReservadoVacio
  DEF PaginasDe, Inv, TypeOK, Marcado, MarcoUnico, BitmapExacto, Contador
<1>3. Cardinality(P) = Cardinality(Marcos(P))
  BY <1>2, TantasComoMarcos DEF Inv, TypeOK
<1>4. Marcos(paginas \ P) = bitmap_frames \ Marcos(P) /\ Marcos(P) \subseteq bitmap_frames
  BY <1>2 DEF Marcos
<1>5. frames_ocupados' = Cardinality(bitmap_frames')
  <2>1. IsFiniteSet(bitmap_frames) /\ bitmap_frames \cap Marcos(P) = Marcos(P)
    BY <1>2, <1>4, SubconjuntoDeFrames
  <2>2. Cardinality(bitmap_frames \ Marcos(P)) =
            Cardinality(bitmap_frames) - Cardinality(Marcos(P))
    BY <2>1, FS_Difference
  <2>3. QED
    BY <1>1, <1>2, <1>3, <2>2
<1>6. frames_ocupados' \in Nat /\ bitmap_frames' \in SUBSET Frames
  BY <1>1, <1>2, <1>5, SubconjuntoDeFrames
<1>7. Exclusion' /\ EnEspera' /\ Reservado' = {}
  <2>1. \A g \in Hilos : pc'[g] # "espera_select"
    BY <1>1, NadaAssumption DEF Inv, TypeOK, Exclusion
  <2>2. Exclusion'
    BY <1>1, NadaAssumption DEF Inv, TypeOK, Exclusion
  <2>3. QED
    BY <2>1, <2>2 DEF EnEspera, Reservado
<1>8. Marcado'
  BY <1>1, <1>2, <1>4, <1>5, <1>7 DEF Marcado, MarcoUnico, BitmapExacto, Contador
<1>9. TypeOK'
  <2>1. <<[tipo |-> "DROP", tabla |-> t]>> \in Seq(Mensajes)
    BY MensajesDePaginas DEF Inv
  <2>2. canal' \in Seq(Mensajes) /\ enlace' \in {"abierto", "muerto", "nulo"}
    BY <1>1, <2>1, EnviarTipos DEF Inv
  <2>3. viva' \in [Hilos -> BOOLEAN]
    BY <1>1, Zenon DEF Liberar
  <2>4. QED
    BY <1>1, <1>6, <2>2, <2>3 DEF Inv, TypeOK
<1>10. QED
  BY <1>7, <1>8, <1>9 DEF Inv

LEMMA FinDropInv ==
    ASSUME Inv, NEW h \in Hilos, FinDrop(h)
    PROVE  Inv'
<1>1. /\ mutex = h /\ mutex' = Nada
      /\ pc' = [pc EXCEPT ![h] = "reposo"]
      /\ UNCHANGED <<cache, pedido, marco, viva, salida, reloj>>
      /\ UNCHANGED <<lfs, lfsVivo, canal, caidas>>
  BY DEF FinDrop, Inv, Exclusion
<1>2. Exclusion' /\ EnEspera' /\ Reservado' = {}
  BY <1>1, SueltaMutex
<1>3. Reservado = {}
  BY <1>1 DEF FinDrop, Inv, Exclusion, Reservado
<1>4. Marcado'
  BY <1>1, <1>2, <1>3 DEF cache, Inv, Marcado, MarcoUnico, BitmapExacto, Contador
<1>5. /\ enlace' \in {"abierto", "muerto", "nulo"}
      /\ respuesta' \in Seq(Datos \cup {Nada})
  BY DEF FinDrop, Inv, TypeOK
<1>6. TypeOK'
  BY <1>1, <1>5 DEF cache, Inv, TypeOK
<1>7. QED
  BY <1>2, <1>4, <1>6 DEF Inv

-----------------------------------------------------------------------------
(* The clock and LFS *)

LEMMA CacheIntacta ==
    ASSUME Inv, UNCHANGED <<cache, hilos>>
    PROVE  Exclusion' /\ EnEspera' /\ Marcado'
  BY DEF cache, hilos, Inv, Exclusion, EnEspera, Marcado, MarcoUnico, BitmapExacto,
         Contador, Reservado

LEMMA EstadoLfs ==
    ASSUME NEW l
    PROVE  l \in EstadosLfs <=>
              /\ DOMAIN l \subseteq Tablas
              /\ l = [t \in DOMAIN l |-> l[t]]
              /\ \A t \in DOMAIN l : l[t] \in [Claves -> Datos \cup {Nada}]
<1>1. ASSUME l \in EstadosLfs
      PROVE  /\ DOMAIN l \subseteq Tablas
             /\ l = [t \in DOMAIN l |-> l[t]]
             /\ \A t \in DOMAIN l : l[t] \in [Claves -> Datos \cup {Nada}]
  <2>1. PICK T \in SUBSET Tablas : l \in [T -> [Claves -> Datos \cup {Nada}]]
    BY <1>1 DEF EstadosLfs
  <2>2. QED
    BY <2>1
<1>2. ASSUME DOMAIN l \subseteq Tablas, l = [t \in DOMAIN l |-> l[t]],
             \A t \in DOMAIN l : l[t] \in [Claves -> Datos \cup {Nada}]
      PROVE  l \in EstadosLfs
  <2>1. l \in [DOMAIN l -> [Claves -> Datos \cup {Nada}]]
    BY <1>2
  <2>2. QED
    BY <1>2, <2>1 DEF EstadosLfs
<1>3. QED
  BY <1>1, <1>2

LEMMA AplicarTipos ==
    ASSUME NEW l \in EstadosLfs, NEW m \in Mensajes
    PROVE  Aplicar(l, m) \in EstadosLfs
<1>1. PICK T \in SUBSET Tablas : l \in [T -> [Claves -> Datos \cup {Nada}]]
  BY DEF EstadosLfs
<1>2. CASE m.tipo = "INSERT" /\ m.tabla \in DOMAIN l
  <2>1. Aplicar(l, m) = [l EXCEPT ![m.tabla][m.key] = m.value]
    BY <1>2 DEF Aplicar
  <2>2. m.key \in Claves /\ m.value \in Datos
    BY <1>2 DEF Mensajes
  <2>3. Aplicar(l, m) \in [T -> [Claves -> Datos \cup {Nada}]]
    BY <1>1, <1>2, <2>1, <2>2
  <2>4. QED
    BY <2>3 DEF EstadosLfs
<1>3. CASE m.tipo = "DROP"
  <2>1. Aplicar(l, m) = SinTabla(l, m.tabla)
    BY <1>3 DEF Aplicar
  <2>2. SinTabla(l, m.tabla) \in [T \ {m.tabla} -> [Claves -> Datos \cup {Nada}]]
    BY <1>1 DEF SinTabla
  <2>3. QED
    BY <2>1, <2>2 DEF EstadosLfs
<1>4. CASE m.tipo # "DROP" /\ ~(m.tipo = "INSERT" /\ m.tabla \in DOMAIN l)
  BY <1>4 DEF Aplicar
<1>5. QED
  BY <1>2, <1>3, <1>4

LEMMA LfsAtiendeInv ==
    ASSUME Inv, LfsAtiende
    PROVE  Inv'
<1> DEFINE m == Head(canal)
           r == IF m.tabla \in DOMAIN lfs
                THEN IF m.tipo = "SELECT" THEN lfs[m.tabla][m.key] ELSE Vacio
                ELSE Nada
<1>1. /\ m \in Mensajes /\ canal' \in Seq(Mensajes)
      /\ UNCHANGED <<cache, hilos, reloj, lfsVivo, enlace, caidas>>
  BY DEF LfsAtiende, Inv, TypeOK
<1>2. lfs' = Aplicar(lfs, m)
  BY DEF LfsAtiende
<1>3. lfs' \in EstadosLfs
  BY <1>1, <1>2, AplicarTipos DEF Inv, TypeOK
<1>4. respuesta' \in Seq(Datos \cup {Nada})
  <2>1. respuesta' \in {respuesta, Append(respuesta, r)}
    BY DEF LfsAtiende
  <2>2. m.tipo = "SELECT" => m.key \in Claves
    BY <1>1 DEF Mensajes
  <2>3. m.tipo \in {"SELECT", "DROP"} => r \in Datos \cup {Nada}
    BY <2>2, EstadoLfs DEF Inv, TypeOK, Datos
  <2>4. respuesta' = respuesta \/ m.tipo \in {"SELECT", "DROP"}
    BY DEF LfsAtiende
  <2>5. respuesta \in Seq(Datos \cup {Nada})
    BY DEF Inv, TypeOK
  <2>6. CASE respuesta' = respuesta
    BY <2>5, <2>6
  <2>7. CASE respuesta' = Append(respuesta, r) /\ m.tipo \in {"SELECT", "DROP"}
    <3>1. r \in Datos \cup {Nada}
      BY <2>3, <2>7
    <3> HIDE DEF r
    <3>2. QED
      BY <2>5, <2>7, <3>1
  <2>8. QED
    BY <2>1, <2>4, <2>6, <2>7
<1>5. TypeOK'
  BY <1>1, <1>3, <1>4 DEF Inv, TypeOK, cache, hilos
<1>6. QED
  BY <1>1, <1>5, CacheIntacta DEF Inv

LEMMA EntornoInv ==
    ASSUME Inv,
           Tic \/ (\E t \in Tablas : Create(t)) \/ CaidaLfs \/ ReinicioLfs \/ UNCHANGED vars
    PROVE  Inv'
<1>1. UNCHANGED <<cache, hilos>>
  BY DEF Tic, Create, CaidaLfs, ReinicioLfs, vars
<1>2. TypeOK'
  <2>1. CASE \E t \in Tablas : Create(t)
    <3>1. PICK t \in Tablas : Create(t)
      BY <2>1
    <3>2. PICK T \in SUBSET Tablas : lfs \in [T -> [Claves -> Datos \cup {Nada}]]
      BY DEF Inv, TypeOK, EstadosLfs
    <3>3. lfs' \in EstadosLfs
      <4>1. lfs' \in [T \cup {t} -> [Claves -> Datos \cup {Nada}]]
        BY <3>1, <3>2 DEF Create
      <4>2. QED
        BY <4>1 DEF EstadosLfs
    <3>4. QED
      BY <3>1, <3>2, <3>3 DEF Create, Inv, TypeOK, cache, hilos
  <2>2. CASE Tic
    BY <2>2 DEF Tic, Inv, TypeOK, cache, hilos, remoto
  <2>3. CASE CaidaLfs
    <3>1. canal' \in Seq(Mensajes) /\ enlace' \in {"abierto", "muerto", "nulo"}
      BY <2>3 DEF CaidaLfs, Inv, TypeOK
    <3>2. lfsVivo' \in BOOLEAN /\ caidas' \in Nat
      <4>1. lfsVivo' = FALSE /\ caidas' = caidas + 1
        BY <2>3 DEF CaidaLfs
      <4>2. caidas \in Nat
        BY DEF Inv, TypeOK
      <4>3. caidas' \in Nat
        BY <4>1, <4>2
      <4>4. lfsVivo' \in BOOLEAN
        BY <4>1, Zenon
      <4>5. QED
        BY <4>3, <4>4
    <3>3. UNCHANGED <<cache, hilos, reloj, lfs, respuesta>>
      BY <2>3 DEF CaidaLfs
    <3>4. QED
      BY <3>1, <3>2, <3>3 DEF Inv, TypeOK, cache, hilos
  <2>4. CASE ReinicioLfs
    BY <2>4 DEF ReinicioLfs, Inv, TypeOK, cache, hilos
  <2>5. CASE UNCHANGED vars
    BY <2>5 DEF vars, Inv, TypeOK, cache, hilos, remoto
  <2>6. QED
    BY <2>1, <2>2, <2>3, <2>4, <2>5
<1>3. QED
  BY <1>1, <1>2, CacheIntacta DEF Inv

-----------------------------------------------------------------------------
(* The theorems *)

LEMMA InvInductivo == Inv /\ [Next]_vars => Inv'
<1> SUFFICES ASSUME Inv, [Next]_vars
             PROVE  Inv'
  OBVIOUS
<1>1. ASSUME NEW h \in Hilos, Pedir(h)
      PROVE  Inv'
  BY <1>1, SelectAciertoInv, SelectFalloInv, InsertActualizaInv, InsertNuevaInv, DropInv
  DEF Pedir
<1>2. ASSUME NEW h \in Hilos, Seguir(h)
      PROVE  Inv'
  BY <1>2, RecibirSelectOkInv, SelectErrorInv, SelectBasuraInv, FinDropInv, ResponderInv
  DEF Seguir
<1>3. QED
  BY <1>1, <1>2, JournalInv, LfsAtiendeInv, EntornoInv DEF Next

LEMMA InvSiempre == Spec => []Inv
  BY InitInv, InvInductivo, PTL DEF Spec

\* Every variable keeps its type; in particular every frame handed out exists.
THEOREM Tipos == Spec => []TypeOK
<1>1. Inv => TypeOK
  BY DEF Inv
<1>2. QED
  BY <1>1, InvSiempre, PTL

\* mutex is held exactly by the thread that waits for LFS, so at most one waits.
THEOREM UnSoloHiloEspera == Spec => []Exclusion
<1>1. Inv => Exclusion
  BY DEF Inv
<1>2. QED
  BY <1>1, InvSiempre, PTL

\* The allocation of frames is exact for every mix of first fit, LRU, journal,
\* DROP, failed SELECTs and crashes of LFS: no two pages share a frame, no frame
\* leaks, and the counter that decides whether one is free agrees with the bitmap.
THEOREM MarcadoExacto == Spec => []Marcado
<1>1. Inv => Marcado
  BY DEF Inv
<1>2. QED
  BY <1>1, InvSiempre, PTL

-----------------------------------------------------------------------------
(* One page per key.  Without crashes of LFS no page is made of a buffer that  *)
(* nobody wrote; with them it may hold a key that another page has.            *)

NoHallada ==
    \A h \in Hilos :
        pc[h] = "espera_select" => Halladas(pedido[h].tabla, pedido[h].key) = {}

InvClaves == caidas = 0 /\ enlace # "muerto" /\ UnaPagina /\ NoHallada

\* Fewer pages on frames that keep their keys.
LEMMA MenosPaginas ==
    ASSUME UnaPagina, paginas' \subseteq paginas, memoria' = memoria
    PROVE  UnaPagina'
  BY DEF UnaPagina

\* A page replaced by one of the same table on the same frame.
LEMMA OtraPaginaIgual ==
    ASSUME UnaPagina, NEW p \in paginas, NEW q,
           paginas' = (paginas \ {p}) \cup {q},
           q.segmento = p.segmento, q.frame = p.frame,
           \A a \in paginas : memoria'[a.frame].key = memoria[a.frame].key
    PROVE  UnaPagina'
<1> DEFINE Clave(a) == <<a.segmento, memoria'[a.frame].key>>
<1>1. \A a, b \in paginas : Clave(a) = Clave(b) => a = b
  BY DEF UnaPagina
<1>2. Clave(q) = Clave(p)
  OBVIOUS
<1>3. \A a, b \in paginas' : Clave(a) = Clave(b) => a = b
  BY <1>1, <1>2
<1>4. QED
  BY <1>3 DEF UnaPagina

\* One page more, for a key that had none, on a frame of its own.
LEMMA UnaPaginaMas ==
    ASSUME Inv, UnaPagina, NEW P \in SUBSET paginas, NEW q, NEW r,
           paginas' = P \cup {q}, memoria' = [memoria EXCEPT ![q.frame] = r],
           q.frame \in Frames, q.frame \notin Marcos(P), Halladas(q.segmento, r.key) = {}
    PROVE  UnaPagina'
<1>1. \A p \in P : p \in paginas /\ p.frame \in Frames /\ memoria'[p.frame] = memoria[p.frame]
  BY DEF Inv, TypeOK, Paginas, Marcos
<1>2. memoria'[q.frame] = r
  BY DEF Inv, TypeOK
<1>3. \A p \in P : ~(p.segmento = q.segmento /\ memoria'[p.frame].key = r.key)
  BY <1>1 DEF Halladas, PaginasDe
<1>4. QED
  BY <1>1, <1>2, <1>3 DEF UnaPagina

LEMMA ClavesInductivo ==
    ASSUME Inv, InvClaves, caidas' = 0, [Next]_vars
    PROVE  InvClaves'
<1>1. /\ MarcoUnico
      /\ \A p \in paginas : p \in Paginas /\ p.frame \in Frames /\ p.segmento \in Tablas
      /\ memoria \in [Frames -> Filas]
  BY DEF Inv, TypeOK, Marcado, Paginas
<1>2. ASSUME enlace' \in {"abierto", "nulo", enlace}, caidas' = caidas
      PROVE  caidas' = 0 /\ enlace' # "muerto"
  BY <1>2 DEF InvClaves
<1>3. ASSUME NEW h \in Hilos, NEW t \in Tablas, NEW k \in Claves, SelectAcierto(h, t, k)
      PROVE  InvClaves'
  <2>1. PICK p \in Halladas(t, k) :
           paginas' = (paginas \ {p}) \cup {[p EXCEPT !.ultimo_uso = reloj]}
    BY <1>3 DEF SelectAcierto
  <2>2. /\ mutex' = Nada /\ UNCHANGED <<memoria, enlace, caidas>>
    BY <1>3 DEF SelectAcierto, Ocioso, remoto
  <2>3. p \in paginas /\ [p EXCEPT !.ultimo_uso = reloj].frame = p.frame
            /\ [p EXCEPT !.ultimo_uso = reloj].segmento = p.segmento
    BY <1>1 DEF Halladas, PaginasDe, Paginas
  <2>4. UnaPagina'
    BY <1>1, <2>1, <2>2, <2>3, OtraPaginaIgual DEF InvClaves
  <2>5. NoHallada'
    BY <1>3, <2>2, SelectAciertoInv, NadaAssumption DEF Inv, Exclusion, NoHallada
  <2>6. QED
    BY <1>2, <2>2, <2>4, <2>5 DEF InvClaves
<1>4. ASSUME NEW h \in Hilos, NEW t \in Tablas, NEW k \in Claves, SelectFallo(h, t, k)
      PROVE  InvClaves'
  <2>1. PICK o \in Obtenciones :
           /\ paginas' = o.paginas
           /\ Enviar(Append(o.envia, [tipo |-> "SELECT", tabla |-> t, key |-> k]))
    BY <1>4 DEF SelectFallo
  <2>2. /\ Halladas(t, k) = {} /\ mutex = Nada /\ mutex' = h
        /\ pedido' = [pedido EXCEPT ![h] = [tabla |-> t, key |-> k]]
        /\ UNCHANGED <<memoria, caidas>>
    BY <1>4 DEF SelectFallo, Ocioso
  <2>3. paginas' \subseteq paginas
    BY <2>1, <2>2, ObtencionBuena
  <2>4. UnaPagina'
    BY <2>2, <2>3, MenosPaginas DEF InvClaves
  <2>5. \A g \in Hilos : pc'[g] = "espera_select" => g = h
    BY <1>4, <2>2, SelectFalloInv DEF Inv, Exclusion
  <2>6. pedido'[h] = [tabla |-> t, key |-> k]
    BY <2>2 DEF Inv, TypeOK
  <2>7. NoHallada'
    BY <2>2, <2>3, <2>5, <2>6 DEF NoHallada, Halladas, PaginasDe
  <2>8. QED
    BY <1>2, <2>1, <2>2, <2>4, <2>7 DEF InvClaves, Enviar
<1>5. ASSUME NEW h \in Hilos, NEW t \in Tablas, NEW k \in Claves, NEW v \in Valores,
             InsertActualiza(h, t, k, v)
      PROVE  InvClaves'
  <2>1. PICK p \in Halladas(t, k) :
           /\ paginas' = (paginas \ {p})
                 \cup {[p EXCEPT !.ultimo_uso = reloj, !.modificado = TRUE]}
           /\ memoria' = [memoria EXCEPT ![p.frame] = Fila(k, v)]
    BY <1>5 DEF InsertActualiza
  <2>2. mutex' = Nada /\ UNCHANGED <<enlace, caidas>>
    BY <1>5 DEF InsertActualiza, Ocioso, hilos, remoto
  <2>3. /\ p \in paginas /\ memoria[p.frame].key = k
        /\ [p EXCEPT !.ultimo_uso = reloj, !.modificado = TRUE].frame = p.frame
        /\ [p EXCEPT !.ultimo_uso = reloj, !.modificado = TRUE].segmento = p.segmento
    BY <1>1 DEF Halladas, PaginasDe, Paginas
  <2>4. \A f \in Frames : memoria'[f].key = memoria[f].key
    BY <1>1, <2>1, <2>3 DEF Fila
  <2>5. UnaPagina'
    BY <1>1, <2>1, <2>3, <2>4, OtraPaginaIgual DEF InvClaves
  <2>6. NoHallada'
    BY <1>5, <2>2, InsertActualizaInv, NadaAssumption DEF Inv, Exclusion, NoHallada
  <2>7. QED
    BY <1>2, <2>2, <2>5, <2>6 DEF InvClaves
<1>6. ASSUME NEW h \in Hilos, NEW t \in Tablas, NEW k \in Claves, NEW v \in Valores,
             InsertNueva(h, t, k, v)
      PROVE  InvClaves'
  <2>1. PICK o \in Obtenciones :
           /\ paginas' = o.paginas \cup {Pagina(t, o.frame, TRUE)}
           /\ memoria' = [memoria EXCEPT ![o.frame] = Fila(k, v)]
           /\ Enviar(o.envia)
    BY <1>6 DEF InsertNueva
  <2>2. /\ Halladas(t, k) = {} /\ mutex = Nada /\ mutex' = Nada /\ UNCHANGED caidas
    BY <1>6 DEF InsertNueva, Ocioso
  <2>3. /\ o.paginas \subseteq paginas /\ o.frame \in Frames
        /\ o.frame \notin Marcos(o.paginas)
    BY <2>2, ObtencionBuena
  <2>4. /\ Pagina(t, o.frame, TRUE).frame = o.frame
        /\ Pagina(t, o.frame, TRUE).segmento = t
        /\ Fila(k, v).key = k
    BY DEF Pagina, Fila
  <2>5. UnaPagina'
    BY <2>1, <2>2, <2>3, <2>4, UnaPaginaMas DEF InvClaves
  <2>6. NoHallada'
    BY <1>6, <2>2, InsertNuevaInv, NadaAssumption DEF Inv, Exclusion, NoHallada
  <2>7. QED
    BY <1>2, <2>1, <2>2, <2>5, <2>6 DEF InvClaves, Enviar
<1>7. ASSUME NEW h \in Hilos, RecibirSelectOk(h)
      PROVE  InvClaves'
  <2>1. /\ marco[h] \in Frames /\ marco[h] \notin Marcos(paginas) /\ mutex = h
    BY <1>7, ReservadoPropio DEF RecibirSelectOk
  <2>2. /\ paginas' = paginas \cup {Pagina(pedido[h].tabla, marco[h], FALSE)}
        /\ memoria' = [memoria EXCEPT ![marco[h]] = Fila(pedido[h].key, Head(respuesta))]
        /\ mutex' = Nada /\ UNCHANGED <<enlace, caidas>>
        /\ Halladas(pedido[h].tabla, pedido[h].key) = {}
    BY <1>7 DEF RecibirSelectOk, PaginaNueva, InvClaves, NoHallada
  <2>3. /\ Pagina(pedido[h].tabla, marco[h], FALSE).frame = marco[h]
        /\ Pagina(pedido[h].tabla, marco[h], FALSE).segmento = pedido[h].tabla
        /\ Fila(pedido[h].key, Head(respuesta)).key = pedido[h].key
    BY DEF Pagina, Fila
  <2>4. UnaPagina'
    BY <2>1, <2>2, <2>3, UnaPaginaMas DEF InvClaves
  <2>5. NoHallada'
    BY <1>7, <2>2, RecibirSelectOkInv, NadaAssumption DEF Inv, Exclusion, NoHallada
  <2>6. QED
    BY <1>2, <2>2, <2>4, <2>5 DEF InvClaves
<1>8. ASSUME Journal \/ \E h \in Hilos, t \in Tablas : Drop(h, t)
      PROVE  InvClaves'
  <2>1. /\ paginas' \subseteq paginas /\ UNCHANGED <<memoria, caidas>>
        /\ \E ms : Enviar(ms)
    BY <1>8 DEF Journal, Drop
  <2>2. UnaPagina'
    BY <2>1, MenosPaginas DEF InvClaves
  <2>3. \A g \in Hilos : pc'[g] # "espera_select"
    BY <1>8, NadaAssumption DEF Journal, Drop, Ocioso, Inv, TypeOK, Exclusion
  <2>4. NoHallada'
    BY <2>3 DEF NoHallada
  <2>5. QED
    BY <1>2, <2>1, <2>2, <2>4 DEF InvClaves, Enviar
<1>9. ASSUME UNCHANGED <<paginas, memoria>>,
             \A g \in Hilos : pc'[g] = "espera_select" =>
                pc[g] = "espera_select" /\ pedido'[g] = pedido[g]
      PROVE  UnaPagina' /\ NoHallada'
  BY <1>9 DEF InvClaves, UnaPagina, NoHallada, Halladas, PaginasDe
<1>10. ASSUME NEW h \in Hilos,
              \/ RecibirSelectError(h) \/ SelectSinLfs(h) \/ FinDrop(h) \/ Responder(h)
       PROVE  InvClaves'
  <2>1. /\ UNCHANGED <<paginas, memoria, caidas>> /\ enlace' \in {"nulo", enlace}
        /\ pc' = [pc EXCEPT ![h] = "reposo"]
        /\ \A g \in Hilos : g # h => pedido'[g] = pedido[g]
    BY <1>10
    DEF RecibirSelectError, SelectSinLfs, FinDrop, Responder, SelectError, cache, remoto,
        Inv, TypeOK
  <2>2. QED
    BY <1>2, <1>9, <2>1 DEF InvClaves, Inv, TypeOK
<1>11. ASSUME NEW h \in Hilos, SelectBasura(h)
       PROVE  FALSE
  BY <1>11 DEF SelectBasura, InvClaves
<1>12. ASSUME \/ Tic \/ LfsAtiende \/ (\E t \in Tablas : Create(t)) \/ ReinicioLfs
              \/ UNCHANGED vars
       PROVE  InvClaves'
  <2>1. UNCHANGED <<cache, hilos, enlace, caidas>>
    BY <1>12 DEF Tic, LfsAtiende, Create, ReinicioLfs, vars, remoto
  <2>2. UnaPagina' /\ NoHallada'
    BY <1>9, <2>1 DEF cache, hilos
  <2>3. QED
    BY <2>1, <2>2 DEF InvClaves
<1>13. ASSUME CaidaLfs PROVE FALSE
  BY <1>13 DEF CaidaLfs, InvClaves
<1>14. QED
  BY <1>3, <1>4, <1>5, <1>6, <1>7, <1>8, <1>10, <1>11, <1>12, <1>13
  DEF Next, Pedir, Seguir

\* Falls of LFS are counted and never forgotten.
LEMMA CaidasCrecen ==
    ASSUME Inv, [Next]_vars, caidas' = 0
    PROVE  caidas = 0
<1>1. caidas \in Nat
  BY DEF Inv, TypeOK
<1>2. ASSUME NEW h \in Hilos, Pedir(h)
      PROVE  caidas' = caidas
  BY <1>2 DEF Pedir, SelectAcierto, SelectFallo, InsertActualiza, InsertNueva, Drop, remoto
<1>3. ASSUME NEW h \in Hilos, Seguir(h)
      PROVE  caidas' = caidas
  BY <1>3 DEF Seguir, RecibirSelectOk, RecibirSelectError, SelectSinLfs, SelectBasura,
     SelectError, PaginaNueva, FinDrop, Responder, remoto
<1>4. ASSUME \/ Journal \/ LfsAtiende \/ ReinicioLfs \/ Tic
             \/ (\E t \in Tablas : Create(t)) \/ UNCHANGED vars
      PROVE  caidas' = caidas
  BY <1>4 DEF Journal, LfsAtiende, ReinicioLfs, Tic, Create, remoto, vars
<1>5. CaidaLfs => caidas' = caidas + 1
  BY DEF CaidaLfs
<1>6. QED
  BY <1>1, <1>2, <1>3, <1>4, <1>5 DEF Next

\* Until LFS dies a segment never holds two pages of a key, though the page of a
\* SELECT that missed is made long after the search that missed it.
THEOREM UnaSolaPagina == Spec => []UnaPaginaPorClave
<1> DEFINE I == Inv /\ (caidas = 0 => InvClaves)
<1>1. Init => I
  <2>1. Init => InvClaves
    BY DEF Init, InvClaves, UnaPagina, NoHallada
  <2>2. QED
    BY <2>1, InitInv
<1>2. I /\ [Next]_vars => I'
  BY InvInductivo, ClavesInductivo, CaidasCrecen
<1>3. I => UnaPaginaPorClave
  BY DEF InvClaves, UnaPaginaPorClave
<1> HIDE DEF I
<1>4. QED
  BY <1>1, <1>2, <1>3, PTL DEF Spec

-----------------------------------------------------------------------------
(* A dirty page leaves the cache with its INSERT *)

\* What is sent on a socket that is open afterwards is on it.
LEMMA EnviarLlega ==
    ASSUME canal \in Seq(Mensajes), NEW ms \in Seq(Mensajes), Enviar(ms),
           enlace' = "abierto", NEW i \in 1 .. Len(ms)
    PROVE  ms[i] \in ToSet(canal')
<1>1. ms # <<>>
  OBVIOUS
<1>2. canal' = canal \o ms
  BY <1>1 DEF Enviar
<1>3. /\ canal \o ms \in Seq(Mensajes)
      /\ Len(canal \o ms) = Len(canal) + Len(ms)
      /\ \A j \in 1 .. Len(canal) + Len(ms) :
            (canal \o ms)[j] = IF j <= Len(canal) THEN canal[j] ELSE ms[j - Len(canal)]
  BY ConcatProperties
<1>4. /\ Len(canal) + i \in 1 .. Len(canal) + Len(ms)
      /\ ~(Len(canal) + i <= Len(canal)) /\ (Len(canal) + i) - Len(canal) = i
  OBVIOUS
<1>5. Len(canal) + i \in DOMAIN canal' /\ canal'[Len(canal) + i] = ms[i]
  BY <1>2, <1>3, <1>4
<1>6. QED
  BY <1>5 DEF ToSet

\* A journal sends every dirty page: it sends as many as there are, none twice.
LEMMA JournalCompleto ==
    ASSUME TypeOK, MarcoUnico, NEW s \in Journals, NEW p \in Sucias
    PROVE  \E i \in 1 .. Len(s) : s[i] = InsertDe(p)
<1> DEFINE n == Cardinality(Sucias)
<1>1. IsFiniteSet(Sucias) /\ n \in Nat
  BY TantasComoMarcos, FS_CardinalityType DEF TypeOK, MarcoUnico, Sucias
<1>2. PICK z \in [1 .. n -> Sucias] :
         /\ s = [i \in 1 .. n |-> InsertDe(z[i])]
         /\ \A i, j \in 1 .. n : z[i] = z[j] => i = j
  BY DEF Journals
<1>3. z \in Injection(1 .. n, Sucias)
  BY <1>2, Fun_IsInj
<1>4. Cardinality(1 .. n) = n
  BY <1>1, FS_Interval
<1>5. z \in Surjection(1 .. n, Sucias)
  BY <1>1, <1>3, <1>4, FS_Injection
<1>6. PICK i \in 1 .. n : z[i] = p
  BY <1>5 DEF Surjection
<1>7. Len(s) = n /\ s[i] = InsertDe(p)
  BY <1>1, <1>2, <1>6
<1>8. QED
  BY <1>7

\* Looking for a frame gives up no dirty page but those it sends.
LEMMA ObtencionNoPierde ==
    ASSUME Inv, mutex = Nada, NEW o \in Obtenciones, NEW p \in Sucias
    PROVE  \/ p \in o.paginas
           \/ \E i \in 1 .. Len(o.envia) : o.envia[i] = InsertDe(p)
<1>1. p \in paginas /\ p.modificado
  BY DEF Sucias
<1>2. CASE HayLibre
  BY <1>1, <1>2 DEF Obtenciones
<1>3. CASE ~HayLibre /\ Victimas # {}
  <2>1. PICK v \in Victimas :
            o = [frame |-> v.frame, paginas |-> paginas \ {v},
                 bitmap |-> bitmap_frames, ocupados |-> frames_ocupados,
                 envia |-> <<>>]
    BY <1>3 DEF Obtenciones
  <2>2. v # p
    BY <1>1 DEF Victimas, Reemplazables
  <2>3. QED
    BY <1>1, <2>1, <2>2
<1>4. CASE ~HayLibre /\ Victimas = {}
  <2>1. PICK s \in Journals :
            o = [frame |-> 0, paginas |-> {}, bitmap |-> {0}, ocupados |-> 1,
                 envia |-> s]
    BY <1>4 DEF Obtenciones
  <2>2. \E i \in 1 .. Len(s) : s[i] = InsertDe(p)
    BY JournalCompleto DEF Inv, Marcado
  <2>3. QED
    BY <2>1, <2>2
<1>5. QED
  BY <1>2, <1>3, <1>4

Conservada(p) ==
    \/ SigueSucia(p)
    \/ InsertDe(p) \in ToSet(canal')
    \/ [tipo |-> "DROP", tabla |-> p.segmento] \in ToSet(canal')
    \/ enlace' # "abierto"

\* A page that stays, on a frame nobody writes.
LEMMA QuedaSucia ==
    ASSUME NEW p \in Sucias, p \in paginas', memoria'[p.frame] = memoria[p.frame]
    PROVE  Conservada(p)
<1>1. p \in Sucias'
  BY DEF Sucias
<1>2. QED
  BY <1>1 DEF Conservada, SigueSucia

\* A page that is put back, as dirty as it was or more, on its frame, which keeps
\* its key.
LEMMA RetocadaSucia ==
    ASSUME Inv, NEW a \in paginas, NEW b, NEW p \in Sucias,
           paginas' = (paginas \ {a}) \cup {b},
           b.frame = a.frame, b.segmento = a.segmento,
           a.modificado => b.modificado,
           \A f \in Frames : memoria'[f].key = memoria[f].key
    PROVE  Conservada(p)
<1>1. p \in paginas /\ p.modificado /\ p.frame \in Frames
  BY DEF Sucias, Inv, TypeOK, Paginas
<1>2. CASE p = a
  <2>1. b \in Sucias' /\ b.segmento = p.segmento /\ b.frame = p.frame
    BY <1>1, <1>2 DEF Sucias
  <2>2. QED
    BY <1>1, <2>1 DEF Conservada, SigueSucia
<1>3. CASE p # a
  <2>1. p \in Sucias'
    BY <1>1, <1>3 DEF Sucias
  <2>2. QED
    BY <1>1, <2>1 DEF Conservada, SigueSucia
<1>4. QED
  BY <1>2, <1>3

LEMMA NoSePierdeAlObtener ==
    ASSUME Inv, mutex = Nada, NEW o \in Obtenciones, NEW p \in Sucias,
           NEW ms \in Seq(Mensajes), Enviar(o.envia \o ms),
           o.paginas \subseteq paginas',
           \A f \in Frames \ {o.frame} : memoria'[f] = memoria[f]
    PROVE  Conservada(p)
<1>1. /\ o.frame \notin Marcos(o.paginas) /\ o.envia \in Seq(Mensajes)
      /\ canal \in Seq(Mensajes) /\ p.frame \in Frames
  BY ObtencionBuena DEF Inv, TypeOK, Sucias, Paginas
<1>2. CASE p \in o.paginas
  <2>1. p.frame # o.frame
    BY <1>1, <1>2 DEF Marcos
  <2>2. QED
    BY <1>1, <1>2, <2>1, QuedaSucia
<1>3. ASSUME NEW i \in 1 .. Len(o.envia), o.envia[i] = InsertDe(p)
      PROVE  Conservada(p)
  <2> DEFINE todo == o.envia \o ms
  <2>1. /\ todo \in Seq(Mensajes) /\ i \in 1 .. Len(todo) /\ todo[i] = o.envia[i]
    BY <1>1, <1>3, ConcatProperties
  <2> HIDE DEF todo
  <2>2. Enviar(todo)
    BY DEF todo
  <2>3. enlace' = "abierto" => todo[i] \in ToSet(canal')
    BY <1>1, <2>1, <2>2, EnviarLlega
  <2>4. QED
    BY <1>3, <2>1, <2>3 DEF Conservada
<1>4. QED
  BY <1>2, <1>3, ObtencionNoPierde

LEMMA PasoConserva ==
    ASSUME Inv, [Next]_vars, NEW p \in Sucias
    PROVE  Conservada(p)
<1>1. /\ p \in paginas /\ p.frame \in Frames /\ canal \in Seq(Mensajes)
      /\ p.segmento \in Tablas /\ memoria \in [Frames -> Filas]
  BY DEF Sucias, Inv, TypeOK, Paginas
<1>2. ASSUME NEW h \in Hilos, NEW t \in Tablas, NEW k \in Claves, SelectAcierto(h, t, k)
      PROVE  Conservada(p)
  <2>1. PICK a \in Halladas(t, k) :
           paginas' = (paginas \ {a}) \cup {[a EXCEPT !.ultimo_uso = reloj]}
    BY <1>2 DEF SelectAcierto
  <2> DEFINE b == [a EXCEPT !.ultimo_uso = reloj]
  <2>2. a \in paginas /\ a \in Paginas
    BY DEF Halladas, PaginasDe, Inv, TypeOK
  <2>3. b.frame = a.frame /\ b.segmento = a.segmento /\ b.modificado = a.modificado
    BY <2>2 DEF Paginas
  <2>4. memoria' = memoria
    BY <1>2 DEF SelectAcierto
  <2> HIDE DEF b
  <2>5. QED
    BY <2>1, <2>2, <2>3, <2>4, RetocadaSucia DEF b
<1>3. ASSUME NEW h \in Hilos, NEW t \in Tablas, NEW k \in Claves, SelectFallo(h, t, k)
      PROVE  Conservada(p)
  <2> DEFINE m == [tipo |-> "SELECT", tabla |-> t, key |-> k]
  <2>1. mutex = Nada /\ memoria' = memoria
    BY <1>3 DEF SelectFallo, Ocioso
  <2>2. PICK o \in Obtenciones : paginas' = o.paginas /\ Enviar(Append(o.envia, m))
    BY <1>3 DEF SelectFallo
  <2>3. o.envia \in Seq(Mensajes) /\ m \in Mensajes
    BY <2>1, ObtencionBuena, MensajesDePaginas DEF Inv
  <2> HIDE DEF m
  <2>4. Append(o.envia, m) = o.envia \o <<m>> /\ <<m>> \in Seq(Mensajes)
    BY <2>3, AppendIsConcat
  <2>5. QED
    BY <2>1, <2>2, <2>4, NoSePierdeAlObtener
<1>4. ASSUME NEW h \in Hilos, NEW t \in Tablas, NEW k \in Claves, NEW v \in Valores,
             InsertActualiza(h, t, k, v)
      PROVE  Conservada(p)
  <2>1. PICK a \in Halladas(t, k) :
           /\ paginas' = (paginas \ {a})
                 \cup {[a EXCEPT !.ultimo_uso = reloj, !.modificado = TRUE]}
           /\ memoria' = [memoria EXCEPT ![a.frame] = Fila(k, v)]
    BY <1>4 DEF InsertActualiza
  <2> DEFINE b == [a EXCEPT !.ultimo_uso = reloj, !.modificado = TRUE]
  <2>2. a \in paginas /\ a \in Paginas /\ a.frame \in Frames /\ memoria[a.frame].key = k
    BY DEF Halladas, PaginasDe, Inv, TypeOK, Paginas
  <2>3. b.frame = a.frame /\ b.segmento = a.segmento /\ b.modificado = TRUE
    BY <2>2 DEF Paginas
  <2>4. \A f \in Frames : memoria'[f].key = memoria[f].key
    BY <1>1, <2>1, <2>2 DEF Fila
  <2> HIDE DEF b
  <2>5. QED
    BY <2>1, <2>2, <2>3, <2>4, RetocadaSucia DEF b
<1>5. ASSUME NEW h \in Hilos, NEW t \in Tablas, NEW k \in Claves, NEW v \in Valores,
             InsertNueva(h, t, k, v)
      PROVE  Conservada(p)
  <2>1. PICK o \in Obtenciones :
           /\ paginas' = o.paginas \cup {Pagina(t, o.frame, TRUE)}
           /\ memoria' = [memoria EXCEPT ![o.frame] = Fila(k, v)]
           /\ Enviar(o.envia)
    BY <1>5 DEF InsertNueva
  <2>2. mutex = Nada
    BY <1>5 DEF InsertNueva, Ocioso
  <2>3. o.envia \o <<>> = o.envia /\ <<>> \in Seq(Mensajes)
    BY <2>2, ObtencionBuena, ConcatEmptySeq
  <2>4. QED
    BY <1>1, <2>1, <2>2, <2>3, NoSePierdeAlObtener
<1>6. ASSUME Journal
      PROVE  Conservada(p)
  <2>1. PICK s \in Journals : Enviar(s)
    BY <1>6 DEF Journal
  <2>2. s \in Seq(Mensajes)
    BY JournalsMensajes DEF Inv, Marcado
  <2>3. PICK i \in 1 .. Len(s) : s[i] = InsertDe(p)
    BY JournalCompleto DEF Inv, Marcado
  <2>4. QED
    BY <1>1, <2>1, <2>2, <2>3, EnviarLlega DEF Conservada
<1>7. ASSUME NEW h \in Hilos, NEW t \in Tablas, Drop(h, t)
      PROVE  Conservada(p)
  <2> DEFINE ms == <<[tipo |-> "DROP", tabla |-> t]>>
  <2>1. paginas' = paginas \ PaginasDe(t) /\ memoria' = memoria /\ Enviar(ms)
    BY <1>7 DEF Drop
  <2>2. CASE p.segmento # t
    BY <1>1, <2>1, <2>2, QuedaSucia DEF PaginasDe
  <2>3. CASE p.segmento = t
    <3>1. ms \in Seq(Mensajes) /\ 1 \in 1 .. Len(ms) /\ ms[1] = [tipo |-> "DROP", tabla |-> t]
      BY MensajesDePaginas DEF Inv
    <3> HIDE DEF ms
    <3>2. QED
      BY <1>1, <2>1, <2>3, <3>1, EnviarLlega DEF Conservada
  <2>4. QED
    BY <2>2, <2>3
<1>8. ASSUME NEW h \in Hilos, RecibirSelectOk(h) \/ SelectBasura(h)
      PROVE  Conservada(p)
  <2>1. pc[h] = "espera_select" /\ paginas \subseteq paginas'
    BY <1>8 DEF RecibirSelectOk, SelectBasura, PaginaNueva
  <2>2. \A f \in Frames \ {marco[h]} : memoria'[f] = memoria[f]
    BY <1>1, <1>8 DEF RecibirSelectOk, SelectBasura
  <2>3. p.frame # marco[h]
    BY <1>1, <2>1, ReservadoPropio DEF Marcos
  <2>4. QED
    BY <1>1, <2>1, <2>2, <2>3, QuedaSucia
<1>9. ASSUME UNCHANGED <<paginas, memoria>>
      PROVE  Conservada(p)
  BY <1>1, <1>9, QuedaSucia
<1>10. ASSUME NEW h \in Hilos,
              RecibirSelectError(h) \/ SelectSinLfs(h) \/ FinDrop(h) \/ Responder(h)
       PROVE  Conservada(p)
  BY <1>9, <1>10 DEF RecibirSelectError, SelectSinLfs, SelectError, FinDrop, Responder, cache
<1>11. ASSUME \/ Tic \/ LfsAtiende \/ CaidaLfs \/ ReinicioLfs
              \/ (\E t \in Tablas : Create(t)) \/ UNCHANGED vars
       PROVE  Conservada(p)
  BY <1>9, <1>11 DEF Tic, LfsAtiende, CaidaLfs, ReinicioLfs, Create, vars, cache
<1>12. QED
  BY <1>2, <1>3, <1>4, <1>5, <1>6, <1>7, <1>8, <1>10, <1>11 DEF Next, Pedir, Seguir

\* No mix of replacement, journal, page fills, failed requests and falls of LFS
\* takes a dirty page out of the cache unless its INSERT, or the DROP of its table,
\* is on the socket, or the socket is not open.
THEOREM NoSePierdeNada == Spec => NadaSePierde
<1>1. Inv /\ [Next]_vars => \A p \in Sucias : Conservada(p)
  BY PasoConserva
<1>2. Inv /\ [Next]_vars => [\A p \in Sucias : Conservada(p)]_vars
  BY <1>1
<1>3. Spec => [][\A p \in Sucias : Conservada(p)]_vars
  BY <1>2, InvSiempre, PTL DEF Spec
<1>4. QED
  BY <1>3 DEF NadaSePierde, Conservada

-----------------------------------------------------------------------------
(* LFS once it has served what is on the socket: LfsAlDia folds Aplicar over   *)
(* canal.  What follows is about that fold, from any tables of LFS.            *)

Sirve == [x \in EstadosLfs \X Mensajes |-> Aplicar(x[1], x[2])]

AlDia(l, s) == Plegado(EstadosLfs, Sirve, l, s)

LEMMA SirveTipo ==
    /\ Sirve \in [EstadosLfs \X Mensajes -> EstadosLfs]
    /\ EsRegla(EstadosLfs, Mensajes, Sirve)
    /\ \A l \in EstadosLfs, m \in Mensajes :
          Sirve[<<l, m>>] = Aplicar(l, m) /\ Lleva(Sirve, l, m) = Aplicar(l, m)
  BY AplicarTipos DEF Sirve, EsRegla, Lleva

LEMMA PliegueDeAplicar ==
    ASSUME NEW l \in EstadosLfs, NEW s \in Seq(Mensajes)
    PROVE  FoldLeft(Aplicar, l, s) = AlDia(l, s)
<1> DEFINE EsIter(it) ==
               it = [S \in SUBSET DOMAIN s |->
                       IF S = {} THEN l ELSE Aplicar(it[S \ {Max(S)}], s[Max(S)])]
           n == Len(s)
<1>1. FoldLeft(Aplicar, l, s) = (CHOOSE it : EsIter(it))[DOMAIN s]
  BY DEF FoldLeft, MapThenFoldSet
<1>2. n \in Nat /\ DOMAIN s = 1 .. n
  OBVIOUS
<1>3. PICK it : EsPliegue(EstadosLfs, Sirve, l, s, n, it)
  BY PliegueExiste, SirveTipo
<1> HIDE DEF n
<1>4. ASSUME NEW S \in SUBSET (1 .. n), S # {}
      PROVE  /\ s[Max(S)] \in Mensajes
             /\ it[S] = Aplicar(it[S \ {Max(S)}], s[Max(S)])
  <2>1. Max(S) \in 1 .. n
    BY <1>2, <1>4, MaximoHay
  <2>2. s[Max(S)] \in Mensajes
    BY <1>2, <2>1 DEF n
  <2>3. S \ {Max(S)} \in SUBSET (1 .. n)
    OBVIOUS
  <2>4. it[S \ {Max(S)}] \in EstadosLfs
    BY <1>3, <2>3 DEF EsPliegue
  <2>5. it[S] = Sirve[<<it[S \ {Max(S)}], s[Max(S)]>>]
    BY <1>3, <1>4 DEF EsPliegue
  <2>6. QED
    BY <2>2, <2>4, <2>5, SirveTipo
<1>5. EsIter(it)
  <2>1. it \in [SUBSET (1 .. n) -> EstadosLfs] /\ it[{}] = l
    BY <1>3 DEF EsPliegue
  <2>2. it = [S \in SUBSET (1 .. n) |-> it[S]]
    BY <2>1
  <2>3. QED
    BY <1>2, <1>4, <2>1, <2>2
<1> DEFINE a == CHOOSE x : EsIter(x)
<1>6. EsIter(a)
  BY <1>5
<1> HIDE DEF a
<1>7. /\ a[{}] = l
      /\ \A S \in SUBSET (1 .. n) :
            S # {} => a[S] = Aplicar(a[S \ {Max(S)}], s[Max(S)])
  BY <1>2, <1>6
<1>8. it[{}] = l
  BY <1>3 DEF EsPliegue
<1>9. \A S \in SUBSET (1 .. n) : S # {} /\ a[S \ {Max(S)}] = it[S \ {Max(S)}] => a[S] = it[S]
  BY <1>4, <1>7
<1>10. a[1 .. n] = it[1 .. n]
  <2>1. MismaRegla(n, a, it)
    BY <1>7, <1>8, <1>9 DEF MismaRegla
  <2>2. QED
    BY <1>2, <2>1, PliegueUnico
<1>11. PICK f : Pasos(EstadosLfs, Sirve, l, s, f) /\ f[n] = it[DOMAIN s]
  BY <1>3, PasosDelPliegue DEF n
<1>12. AlDia(l, s) = f[n]
  BY <1>11, PlegadoEs DEF AlDia, n
<1>13. QED
  BY <1>1, <1>2, <1>10, <1>11, <1>12 DEF a

\* One request more, the first one served, and several more.
LEMMA AlDiaPasos ==
    ASSUME NEW l \in EstadosLfs, NEW s \in Seq(Mensajes)
    PROVE  /\ AlDia(l, s) \in EstadosLfs
           /\ AlDia(l, <<>>) = l
           /\ \A m \in Mensajes : \A z : EsAgregar(z, s, m) => AlDia(l, z) = Aplicar(AlDia(l, s), m)
           /\ \A z \in Seq(Mensajes) : \A j : EsJuntar(j, s, z) => AlDia(l, j) = AlDia(AlDia(l, s), z)
<1>1. AlDia(l, s) \in EstadosLfs
  BY SirveTipo, PlegadoEnV DEF AlDia
<1>2. AlDia(l, <<>>) = l
  BY SirveTipo, PlegadoVacio DEF AlDia
<1>3. ASSUME NEW m \in Mensajes, NEW z, EsAgregar(z, s, m)
      PROVE  AlDia(l, z) = Aplicar(AlDia(l, s), m)
  <2>1. AlDia(l, z) = Lleva(Sirve, AlDia(l, s), m)
    BY <1>3, SirveTipo, PlegadoAgrega DEF AlDia
  <2>2. QED
    BY <1>1, <2>1, SirveTipo
<1>4. ASSUME NEW z \in Seq(Mensajes), NEW j, EsJuntar(j, s, z)
      PROVE  AlDia(l, j) = AlDia(AlDia(l, s), z)
  BY <1>4, SirveTipo, PlegadoJunta DEF AlDia
<1>5. QED
  BY <1>1, <1>2, <1>3, <1>4

LEMMA AlDiaCabeza ==
    ASSUME NEW l \in EstadosLfs, NEW s \in Seq(Mensajes), s # <<>>
    PROVE  AlDia(l, s) = AlDia(Aplicar(l, Head(s)), Tail(s))
<1> DEFINE m == Head(s)
           z == Tail(s)
<1>1. m \in Mensajes /\ EsQuitar(z, s, m)
  BY HeadTailProperties DEF EsQuitar
<1> HIDE DEF m, z
<1>2. AlDia(l, s) = AlDia(Lleva(Sirve, l, m), z)
  BY <1>1, SirveTipo, PlegadoCabeza DEF AlDia
<1>3. AlDia(l, s) = AlDia(Aplicar(l, m), z)
  BY <1>1, <1>2, SirveTipo
<1>4. QED
  BY <1>3 DEF m, z

LEMMA LfsAlDiaEs ==
    ASSUME TypeOK
    PROVE  LfsAlDia = AlDia(lfs, canal) /\ LfsAlDia \in EstadosLfs
  BY PliegueDeAplicar, AlDiaPasos DEF TypeOK, LfsAlDia

LEMMA LfsAlDiaEsDespues ==
    ASSUME TypeOK'
    PROVE  LfsAlDia' = AlDia(lfs', canal') /\ LfsAlDia' \in EstadosLfs
  BY PliegueDeAplicar, AlDiaPasos DEF TypeOK, LfsAlDia

\* INSERTs of different keys change those keys, of the tables there are.
InsertsDistintos(s) ==
    /\ \A i \in 1 .. Len(s) : s[i].tipo = "INSERT"
    /\ \A i, j \in 1 .. Len(s) :
          s[i].tabla = s[j].tabla /\ s[i].key = s[j].key => i = j

LEMMA AlDiaInserts ==
    ASSUME NEW l \in EstadosLfs, NEW s \in Seq(Mensajes), InsertsDistintos(s)
    PROVE  /\ DOMAIN AlDia(l, s) = DOMAIN l
           /\ \A i \in 1 .. Len(s) :
                 s[i].tabla \in DOMAIN l => AlDia(l, s)[s[i].tabla][s[i].key] = s[i].value
           /\ \A t \in DOMAIN l, k \in Claves :
                 (\A i \in 1 .. Len(s) : ~(s[i].tabla = t /\ s[i].key = k))
                    => AlDia(l, s)[t][k] = l[t][k]
<1> USE DEF InsertsDistintos
<1> DEFINE n == Len(s)
<1>1. n \in Nat
  OBVIOUS
<1>2. PICK f : Pasos(EstadosLfs, Sirve, l, s, f)
  BY SirveTipo, PasosHay
<1>3. AlDia(l, s) = f[n]
  BY <1>2, PlegadoEs DEF AlDia
<1> DEFINE Bien(m) ==
             /\ DOMAIN f[m] = DOMAIN l
             /\ \A i \in 1 .. m :
                   s[i].tabla \in DOMAIN l => f[m][s[i].tabla][s[i].key] = s[i].value
             /\ \A t \in DOMAIN l, k \in Claves :
                   (\A i \in 1 .. m : ~(s[i].tabla = t /\ s[i].key = k))
                      => f[m][t][k] = l[t][k]
           Mal == {m \in 0 .. n : ~Bien(m)}
<1>4. f[0] = l /\ Bien(0)
  BY <1>2 DEF Pasos
<1>5. ASSUME NEW m \in 1 .. n, Bien(m - 1)
      PROVE  Bien(m)
  <2>1. /\ s[m] \in Mensajes /\ s[m].tipo = "INSERT"
        /\ m - 1 \in 0 .. n /\ f[m - 1] \in EstadosLfs
    BY <1>2 DEF Pasos
  <2>2. s[m].key \in Claves
    BY <2>1 DEF Mensajes
  <2>3. f[m] = Aplicar(f[m - 1], s[m])
    BY <1>2, <2>1, SirveTipo DEF Pasos
  <2>4. \A t \in DOMAIN f[m - 1] : f[m - 1][t] \in [Claves -> Datos \cup {Nada}]
    BY <2>1, EstadoLfs
  <2>5. CASE s[m].tabla \notin DOMAIN l
    <3>1. f[m] = f[m - 1]
      BY <1>5, <2>1, <2>3, <2>5 DEF Aplicar
    <3>2. \A i \in 1 .. m : i # m => i \in 1 .. m - 1
      BY <1>1
    <3>3. \A i \in 1 .. m : s[i].tabla \in DOMAIN l => i \in 1 .. m - 1
      BY <2>5, <3>2
    <3>4. \A i \in 1 .. m - 1 : i \in 1 .. m
      BY <1>1
    <3>5. QED
      BY <1>5, <3>1, <3>3, <3>4
  <2>6. CASE s[m].tabla \in DOMAIN l
    <3>1. f[m] = [f[m - 1] EXCEPT ![s[m].tabla][s[m].key] = s[m].value]
      BY <1>5, <2>1, <2>3, <2>6 DEF Aplicar
    <3>2. DOMAIN f[m] = DOMAIN l
      BY <1>5, <3>1
    <3>3. f[m][s[m].tabla][s[m].key] = s[m].value
      BY <1>5, <2>2, <2>4, <2>6, <3>1
    <3>4. \A t \in DOMAIN l, k \in Claves :
             ~(s[m].tabla = t /\ s[m].key = k) => f[m][t][k] = f[m - 1][t][k]
      BY <1>5, <2>2, <2>4, <2>6, <3>1
    <3>5. ASSUME NEW i \in 1 .. m, s[i].tabla \in DOMAIN l
          PROVE  f[m][s[i].tabla][s[i].key] = s[i].value
      <4>1. CASE i = m
        BY <3>3, <4>1
      <4>2. CASE i # m
        <5>1. i \in 1 .. m - 1 /\ i \in 1 .. n /\ m \in 1 .. n
          BY <1>1, <4>2
        <5>2. s[i] \in Mensajes /\ s[i].tipo = "INSERT"
          BY <5>1
        <5>3. s[i].key \in Claves
          BY <5>2 DEF Mensajes
        <5>4. ~(s[m].tabla = s[i].tabla /\ s[m].key = s[i].key)
          BY <4>2, <5>1
        <5>5. f[m - 1][s[i].tabla][s[i].key] = s[i].value
          BY <1>5, <3>5, <5>1
        <5>6. QED
          BY <3>4, <3>5, <5>3, <5>4, <5>5
      <4>3. QED
        BY <4>1, <4>2
    <3>6. ASSUME NEW t \in DOMAIN l, NEW k \in Claves,
                 \A i \in 1 .. m : ~(s[i].tabla = t /\ s[i].key = k)
          PROVE  f[m][t][k] = l[t][k]
      <4>1. m \in 1 .. m /\ \A i \in 1 .. m - 1 : i \in 1 .. m
        BY <1>1
      <4>2. f[m][t][k] = f[m - 1][t][k]
        BY <3>4, <3>6, <4>1
      <4>3. QED
        BY <1>5, <3>6, <4>1, <4>2
    <3>7. QED
      BY <3>2, <3>5, <3>6
  <2>7. QED
    BY <2>5, <2>6
<1> HIDE DEF Bien
<1>6. Mal = {}
  <2> SUFFICES ASSUME Mal # {} PROVE FALSE
    OBVIOUS
  <2>1. Mal \in SUBSET Nat
    BY <1>1
  <2>2. PICK m \in Mal : \A x \in Mal : m <= x
    BY <2>1, HayMinimo
  <2>3. m \in 1 .. n /\ m - 1 \in 0 .. n
    BY <1>4, <2>2
  <2>4. m - 1 \notin Mal
    BY <2>2, <2>3
  <2>5. QED
    BY <1>5, <2>2, <2>3, <2>4
<1>7. Bien(n)
  BY <1>1, <1>6
<1>8. QED
  BY <1>3, <1>7 DEF Bien

\* A table created before the requests of the socket are served exists after them
\* unless one is its DROP; nothing changes for the other tables.
LEMMA AlDiaCreate ==
    ASSUME NEW l \in EstadosLfs, NEW c \in EstadosLfs, NEW s \in Seq(Mensajes), NEW t,
           t \notin DOMAIN l, DOMAIN c = DOMAIN l \cup {t},
           \A u \in DOMAIN l : c[u] = l[u]
    PROVE  /\ t \notin DOMAIN AlDia(l, s)
           /\ DOMAIN AlDia(c, s) \in {DOMAIN AlDia(l, s), DOMAIN AlDia(l, s) \cup {t}}
           /\ \A u \in DOMAIN AlDia(l, s) : AlDia(c, s)[u] = AlDia(l, s)[u]
<1> DEFINE n == Len(s)
<1>1. n \in Nat
  OBVIOUS
<1>2. PICK f : Pasos(EstadosLfs, Sirve, l, s, f)
  BY SirveTipo, PasosHay
<1>3. PICK e : Pasos(EstadosLfs, Sirve, c, s, e)
  BY SirveTipo, PasosHay
<1>4. AlDia(l, s) = f[n] /\ AlDia(c, s) = e[n]
  BY <1>2, <1>3, PlegadoEs DEF AlDia
<1> DEFINE Bien(m) ==
             /\ t \notin DOMAIN f[m]
             /\ DOMAIN e[m] \in {DOMAIN f[m], DOMAIN f[m] \cup {t}}
             /\ \A u \in DOMAIN f[m] : e[m][u] = f[m][u]
           Mal == {m \in 0 .. n : ~Bien(m)}
<1>5. Bien(0)
  BY <1>2, <1>3 DEF Pasos
<1>6. ASSUME NEW m \in 1 .. n, Bien(m - 1)
      PROVE  Bien(m)
  <2> DEFINE a == f[m - 1]
             b == e[m - 1]
             x == s[m]
  <2>1. /\ x \in Mensajes /\ m - 1 \in 0 .. n
        /\ a \in EstadosLfs /\ b \in EstadosLfs
    BY <1>2, <1>3 DEF Pasos
  <2>2. f[m] = Aplicar(a, x) /\ e[m] = Aplicar(b, x)
    BY <1>2, <1>3, <2>1, SirveTipo DEF Pasos
  <2>3. /\ t \notin DOMAIN a /\ DOMAIN b \in {DOMAIN a, DOMAIN a \cup {t}}
        /\ \A u \in DOMAIN a : b[u] = a[u]
    BY <1>6
  <2> HIDE DEF a, b, x
  <2>4. CASE x.tipo = "DROP"
    <3>1. f[m] = SinTabla(a, x.tabla) /\ e[m] = SinTabla(b, x.tabla)
      BY <2>2, <2>4 DEF Aplicar
    <3>2. QED
      BY <2>3, <3>1 DEF SinTabla
  <2>5. CASE x.tipo = "INSERT"
    <3>1. f[m] = IF x.tabla \in DOMAIN a
                 THEN [a EXCEPT ![x.tabla][x.key] = x.value] ELSE a
      BY <2>2, <2>5 DEF Aplicar
    <3>2. e[m] = IF x.tabla \in DOMAIN b
                 THEN [b EXCEPT ![x.tabla][x.key] = x.value] ELSE b
      BY <2>2, <2>5 DEF Aplicar
    <3>3. DOMAIN f[m] = DOMAIN a /\ DOMAIN e[m] = DOMAIN b
      BY <3>1, <3>2
    <3>4. \A u \in DOMAIN a : e[m][u] = f[m][u]
      BY <2>3, <3>1, <3>2
    <3>5. QED
      BY <2>3, <3>3, <3>4
  <2>6. CASE x.tipo \notin {"DROP", "INSERT"}
    <3>1. f[m] = a /\ e[m] = b
      BY <2>2, <2>6 DEF Aplicar
    <3>2. QED
      BY <2>3, <3>1
  <2>7. QED
    BY <2>4, <2>5, <2>6
<1> HIDE DEF Bien
<1>7. Mal = {}
  <2> SUFFICES ASSUME Mal # {} PROVE FALSE
    OBVIOUS
  <2>1. Mal \in SUBSET Nat
    BY <1>1
  <2>2. PICK m \in Mal : \A x \in Mal : m <= x
    BY <2>1, HayMinimo
  <2>3. m \in 1 .. n /\ m - 1 \in 0 .. n
    BY <1>5, <2>2
  <2>4. m - 1 \notin Mal
    BY <2>2, <2>3
  <2>5. QED
    BY <1>6, <2>2, <2>3, <2>4
<1>8. Bien(n)
  BY <1>1, <1>7
<1>9. QED
  BY <1>4, <1>8 DEF Bien

-----------------------------------------------------------------------------
(* What a SELECT would find, for given pages, frames and tables of LFS.  As    *)
(* long as a key of a table has one page, it is the value of the dirty page,   *)
(* or the one of LFS.                                                          *)

SuciasEn(P, mem, t, k) ==
    {p \in P : p.modificado /\ p.segmento = t /\ mem[p.frame].key = k}

VigenteEn(P, mem, l, t, k) ==
    IF SuciasEn(P, mem, t, k) # {}
    THEN mem[(CHOOSE p \in SuciasEn(P, mem, t, k) : TRUE).frame].value
    ELSE IF t \in DOMAIN l THEN l[t][k] ELSE Nada

Unicas(P, mem) ==
    \A p, q \in P : p.segmento = q.segmento /\ mem[p.frame].key = mem[q.frame].key => p = q

LEMMA VigenteEs ==
    ASSUME NEW t, NEW k
    PROVE  /\ Vigente(t, k) = VigenteEn(paginas, memoria, LfsAlDia, t, k)
           /\ Vigente(t, k)' = VigenteEn(paginas', memoria', LfsAlDia', t, k)
<1>1. PaginaSucia(t, k) = SuciasEn(paginas, memoria, t, k)
  BY DEF PaginaSucia, Sucias, Halladas, PaginasDe, SuciasEn
<1>2. PaginaSucia(t, k)' = SuciasEn(paginas', memoria', t, k)
  BY DEF PaginaSucia, Sucias, Halladas, PaginasDe, SuciasEn
<1>3. QED
  BY <1>1, <1>2 DEF Vigente, VigenteEn

LEMMA VigenteSucia ==
    ASSUME NEW P, NEW mem, NEW l, Unicas(P, mem), NEW t, NEW k,
           NEW p \in SuciasEn(P, mem, t, k)
    PROVE  VigenteEn(P, mem, l, t, k) = mem[p.frame].value
<1>1. (CHOOSE q \in SuciasEn(P, mem, t, k) : TRUE) = p
  BY DEF Unicas, SuciasEn
<1>2. QED
  BY <1>1 DEF VigenteEn

LEMMA VigenteLimpia ==
    ASSUME NEW P, NEW mem, NEW l, NEW t, NEW k, SuciasEn(P, mem, t, k) = {},
           t \in DOMAIN l
    PROVE  VigenteEn(P, mem, l, t, k) = l[t][k]
  BY DEF VigenteEn

\* The value of a key is the same when its dirty page, if it has one, has the
\* same value, and LFS too if it has none.
LEMMA VigenteMismo ==
    ASSUME NEW P, NEW mem, NEW l, NEW Q, NEW nem, NEW m, NEW t, NEW k,
           Unicas(P, mem), Unicas(Q, nem), t \in DOMAIN l, t \in DOMAIN m,
           l[t][k] = m[t][k],
           \A p \in SuciasEn(P, mem, t, k) :
              \E q \in SuciasEn(Q, nem, t, k) : nem[q.frame].value = mem[p.frame].value,
           SuciasEn(Q, nem, t, k) # {} => SuciasEn(P, mem, t, k) # {}
    PROVE  VigenteEn(P, mem, l, t, k) = VigenteEn(Q, nem, m, t, k)
<1>1. CASE SuciasEn(P, mem, t, k) = {}
  BY <1>1, VigenteLimpia
<1>2. ASSUME NEW p \in SuciasEn(P, mem, t, k)
      PROVE  VigenteEn(P, mem, l, t, k) = VigenteEn(Q, nem, m, t, k)
  <2>1. PICK q \in SuciasEn(Q, nem, t, k) : nem[q.frame].value = mem[p.frame].value
    OBVIOUS
  <2>2. VigenteEn(P, mem, l, t, k) = mem[p.frame].value
    BY VigenteSucia
  <2>3. VigenteEn(Q, nem, m, t, k) = nem[q.frame].value
    BY VigenteSucia
  <2>4. QED
    BY <2>1, <2>2, <2>3
<1>3. QED
  BY <1>1, <1>2

\* A journal sends to LFS what the dirty pages hold: no key changes its value.
LEMMA JournalVale ==
    ASSUME TypeOK, MarcoUnico, UnaPagina, NEW l \in EstadosLfs, NEW s \in Journals
    PROVE  /\ s \in Seq(Mensajes) /\ AlDia(l, s) \in EstadosLfs
           /\ DOMAIN AlDia(l, s) = DOMAIN l
           /\ \A t \in DOMAIN l, k \in Claves :
                 VigenteEn({}, memoria, AlDia(l, s), t, k) =
                 VigenteEn(paginas, memoria, l, t, k)
<1> DEFINE n == Cardinality(Sucias)
<1>1. s \in Seq(Mensajes)
  BY JournalsMensajes
<1>2. n \in Nat
  BY TantasComoMarcos, FS_CardinalityType DEF TypeOK, MarcoUnico, Sucias
<1>3. PICK z \in [1 .. n -> Sucias] :
         /\ s = [i \in 1 .. n |-> InsertDe(z[i])]
         /\ \A i, j \in 1 .. n : z[i] = z[j] => i = j
  BY DEF Journals
<1> HIDE DEF n
<1>4. /\ Len(s) = n
      /\ \A i \in 1 .. n : /\ z[i] \in paginas /\ z[i].modificado
                           /\ s[i] = InsertDe(z[i])
  BY <1>2, <1>3 DEF Sucias
<1>5. \A i \in 1 .. n : /\ s[i].tipo = "INSERT" /\ s[i].tabla = z[i].segmento
                        /\ s[i].key = memoria[z[i].frame].key
                        /\ s[i].value = memoria[z[i].frame].value
  BY <1>4 DEF InsertDe
<1>6. \A i, j \in 1 .. n : s[i].tabla = s[j].tabla /\ s[i].key = s[j].key => i = j
  BY <1>3, <1>4, <1>5 DEF UnaPagina
<1>7. /\ DOMAIN AlDia(l, s) = DOMAIN l
      /\ \A i \in 1 .. n :
            s[i].tabla \in DOMAIN l => AlDia(l, s)[s[i].tabla][s[i].key] = s[i].value
      /\ \A t \in DOMAIN l, k \in Claves :
            (\A i \in 1 .. n : ~(s[i].tabla = t /\ s[i].key = k))
               => AlDia(l, s)[t][k] = l[t][k]
  <2>1. InsertsDistintos(s)
    BY <1>4, <1>5, <1>6 DEF InsertsDistintos
  <2>2. QED
    BY <1>1, <1>4, <2>1, AlDiaInserts
<1>8. Unicas(paginas, memoria)
  BY DEF UnaPagina, Unicas
<1>9. ASSUME NEW t \in DOMAIN l, NEW k \in Claves
      PROVE  VigenteEn({}, memoria, AlDia(l, s), t, k) = VigenteEn(paginas, memoria, l, t, k)
  <2>1. VigenteEn({}, memoria, AlDia(l, s), t, k) = AlDia(l, s)[t][k]
    <3>1. SuciasEn({}, memoria, t, k) = {}
      BY DEF SuciasEn
    <3>2. QED
      BY <1>7, <3>1, VigenteLimpia
  <2>2. ASSUME NEW p \in SuciasEn(paginas, memoria, t, k)
        PROVE  AlDia(l, s)[t][k] = VigenteEn(paginas, memoria, l, t, k)
    <3>1. p \in Sucias /\ p.segmento = t /\ memoria[p.frame].key = k
      BY DEF SuciasEn, Sucias
    <3>2. PICK i \in 1 .. n : s[i] = InsertDe(p)
      BY <1>4, <3>1, JournalCompleto
    <3>3. s[i].tabla = t /\ s[i].key = k /\ s[i].value = memoria[p.frame].value
      BY <3>1, <3>2 DEF InsertDe
    <3>4. VigenteEn(paginas, memoria, l, t, k) = memoria[p.frame].value
      BY <1>8, VigenteSucia
    <3>5. QED
      BY <1>7, <3>3, <3>4
  <2>3. CASE SuciasEn(paginas, memoria, t, k) = {}
    <3>1. \A i \in 1 .. n : ~(s[i].tabla = t /\ s[i].key = k)
      BY <1>4, <1>5, <2>3 DEF SuciasEn
    <3>2. VigenteEn(paginas, memoria, l, t, k) = l[t][k]
      BY <2>3, VigenteLimpia
    <3>3. AlDia(l, s)[t][k] = l[t][k]
      BY <1>7, <3>1
    <3>4. QED
      BY <2>1, <3>2, <3>3
  <2>4. QED
    BY <2>1, <2>2, <2>3
<1>10. QED
  BY <1>1, <1>7, <1>9, AlDiaPasos

\* Nor does looking for a frame, whether it frees a clean page or all of them.
LEMMA ObtencionVale ==
    ASSUME Inv, mutex = Nada, UnaPagina, NEW o \in Obtenciones, NEW l \in EstadosLfs
    PROVE  /\ o.envia \in Seq(Mensajes) /\ AlDia(l, o.envia) \in EstadosLfs
           /\ DOMAIN AlDia(l, o.envia) = DOMAIN l
           /\ \A t \in DOMAIN l, k \in Claves :
                 VigenteEn(o.paginas, memoria, AlDia(l, o.envia), t, k) =
                 VigenteEn(paginas, memoria, l, t, k)
<1>1. Unicas(paginas, memoria)
  BY DEF UnaPagina, Unicas
<1>2. ASSUME o.envia = <<>>, o.paginas \subseteq paginas,
             \A p \in paginas : p.modificado => p \in o.paginas
      PROVE  /\ AlDia(l, o.envia) = l
             /\ \A t \in DOMAIN l, k \in Claves :
                   VigenteEn(o.paginas, memoria, l, t, k) =
                   VigenteEn(paginas, memoria, l, t, k)
  <2>1. AlDia(l, o.envia) = l
    <3>1. <<>> \in Seq(Mensajes)
      OBVIOUS
    <3>2. QED
      BY <1>2, <3>1, AlDiaPasos
  <2>2. \A t, k : SuciasEn(o.paginas, memoria, t, k) = SuciasEn(paginas, memoria, t, k)
    BY <1>2 DEF SuciasEn
  <2>3. \A t, k : VigenteEn(o.paginas, memoria, l, t, k) = VigenteEn(paginas, memoria, l, t, k)
    <3>1. TAKE t, k
    <3>2. SuciasEn(o.paginas, memoria, t, k) = SuciasEn(paginas, memoria, t, k)
      BY <2>2
    <3>3. QED
      BY <3>2 DEF VigenteEn
  <2>4. QED
    BY <2>1, <2>3
<1>3. o.envia \in Seq(Mensajes) /\ o.paginas \subseteq paginas
  BY ObtencionBuena
<1>4. CASE HayLibre
  <2>1. o.envia = <<>> /\ o.paginas = paginas
    BY <1>4 DEF Obtenciones
  <2>2. QED
    BY <1>2, <1>3, <2>1
<1>5. CASE ~HayLibre /\ Victimas # {}
  <2>1. PICK v \in Victimas : o.envia = <<>> /\ o.paginas = paginas \ {v}
    BY <1>5 DEF Obtenciones
  <2>2. ~v.modificado
    BY DEF Victimas, Reemplazables
  <2>3. QED
    BY <1>2, <1>3, <2>1, <2>2
<1>6. CASE ~HayLibre /\ Victimas = {}
  <2>1. o.envia \in Journals /\ o.paginas = {}
    BY <1>6 DEF Obtenciones
  <2>2. QED
    BY <2>1, JournalVale DEF Inv, Marcado
<1>7. QED
  BY <1>4, <1>5, <1>6

-----------------------------------------------------------------------------
(* The cache and LFS implement Almacen.  Each step of theirs is one of Almacen: *)
(* an INSERT, a DROP or a CREATE, or nothing a SELECT could see.                *)

Ahora(t, k) == VigenteEn(paginas, memoria, LfsAlDia, t, k)
Luego(t, k) == VigenteEn(paginas', memoria', LfsAlDia', t, k)

\* Until LFS dies the socket is open and a key of a table has one page.
Sano == Inv /\ InvClaves /\ enlace = "abierto"

LEMMA SanoInductivo ==
    ASSUME Sano, caidas' = 0, [Next]_vars
    PROVE  Sano'
<1>0. ASSUME NEW ms, Enviar(ms)
      PROVE  enlace' = "abierto"
  BY <1>0 DEF Sano, Enviar
<1>1. ASSUME NEW h \in Hilos, Pedir(h)
      PROVE  enlace' = "abierto"
  <2>1. PICK t \in Tablas :
           \/ Drop(h, t)
           \/ \E k \in Claves :
                 \/ SelectAcierto(h, t, k)
                 \/ SelectFallo(h, t, k)
                 \/ \E v \in Valores : InsertActualiza(h, t, k, v) \/ InsertNueva(h, t, k, v)
    BY <1>1 DEF Pedir
  <2>2. CASE Drop(h, t)
    BY <1>0, <2>2 DEF Drop
  <2>3. ASSUME NEW k \in Claves, SelectAcierto(h, t, k)
        PROVE  enlace' = "abierto"
    BY <2>3 DEF Sano, SelectAcierto, remoto
  <2>4. ASSUME NEW k \in Claves, SelectFallo(h, t, k)
        PROVE  enlace' = "abierto"
    BY <1>0, <2>4 DEF SelectFallo
  <2>5. ASSUME NEW k \in Claves, NEW v \in Valores, InsertActualiza(h, t, k, v)
        PROVE  enlace' = "abierto"
    BY <2>5 DEF Sano, InsertActualiza, remoto
  <2>6. ASSUME NEW k \in Claves, NEW v \in Valores, InsertNueva(h, t, k, v)
        PROVE  enlace' = "abierto"
    BY <1>0, <2>6 DEF InsertNueva
  <2>7. QED
    BY <2>1, <2>2, <2>3, <2>4, <2>5, <2>6
<1>2. ASSUME NEW h \in Hilos, Seguir(h)
      PROVE  enlace' = "abierto"
  BY <1>2 DEF Sano, Seguir, RecibirSelectOk, RecibirSelectError, SelectSinLfs, SelectBasura,
     FinDrop, Responder, remoto
<1>3. ASSUME \/ Journal \/ LfsAtiende \/ ReinicioLfs \/ Tic
             \/ (\E t \in Tablas : Create(t)) \/ UNCHANGED vars
      PROVE  enlace' = "abierto"
  BY <1>3 DEF Sano, Journal, Enviar, LfsAtiende, ReinicioLfs, Tic, Create, remoto, vars
<1>4. ~CaidaLfs
  BY DEF CaidaLfs, Sano, InvClaves
<1>5. enlace' = "abierto"
  BY <1>1, <1>2, <1>3, <1>4 DEF Next
<1>6. QED
  BY <1>5, InvInductivo, ClavesInductivo DEF Sano

LEMMA SanoFacts ==
    ASSUME Sano
    PROVE  /\ TypeOK /\ MarcoUnico /\ UnaPagina /\ Unicas(paginas, memoria)
           /\ enlace = "abierto" /\ caidas = 0
           /\ LfsAlDia \in EstadosLfs /\ LfsAlDia = AlDia(lfs, canal)
           /\ DOMAIN LfsAlDia \subseteq Tablas
           /\ \A p \in paginas : p \in Paginas /\ p.frame \in Frames /\ p.segmento \in Tablas
           /\ memoria \in [Frames -> Filas]
           /\ lfs \in EstadosLfs /\ canal \in Seq(Mensajes)
<1>1. TypeOK /\ MarcoUnico /\ UnaPagina /\ enlace = "abierto" /\ caidas = 0
  BY DEF Sano, Inv, Marcado, InvClaves
<1>2. Unicas(paginas, memoria)
  BY <1>1 DEF UnaPagina, Unicas
<1>3. LfsAlDia \in EstadosLfs /\ LfsAlDia = AlDia(lfs, canal)
  BY <1>1, LfsAlDiaEs
<1>4. DOMAIN LfsAlDia \subseteq Tablas
  BY <1>3, EstadoLfs
<1>5. \A p \in paginas : p \in Paginas /\ p.frame \in Frames /\ p.segmento \in Tablas
  BY <1>1 DEF TypeOK, Paginas
<1>6. QED
  BY <1>1, <1>2, <1>3, <1>4, <1>5 DEF TypeOK

LEMMA SanoDespues ==
    ASSUME Sano'
    PROVE  /\ Unicas(paginas', memoria') /\ caidas' = 0
           /\ LfsAlDia' = AlDia(lfs', canal')
           /\ memoria' \in [Frames -> Filas]
<1>1. TypeOK' /\ UnaPagina' /\ caidas' = 0
  BY DEF Sano, Inv, InvClaves
<1>2. Unicas(paginas', memoria')
  BY <1>1 DEF UnaPagina, Unicas
<1>3. QED
  BY <1>1, <1>2, LfsAlDiaEsDespues DEF TypeOK

\* Requests that are sent are served after those that were on the socket.
LEMMA AlDiaEnviar ==
    ASSUME Sano, Sano', NEW ms \in Seq(Mensajes), Enviar(ms), lfs' = lfs
    PROVE  LfsAlDia' = AlDia(LfsAlDia, ms)
<1>1. canal' = canal \o ms
  BY SanoFacts DEF Enviar
<1>2. EsJuntar(canal', canal, ms)
  BY <1>1 DEF EsJuntar
<1>3. AlDia(lfs, canal') = AlDia(AlDia(lfs, canal), ms)
  BY <1>2, SanoFacts, AlDiaPasos
<1>4. QED
  BY <1>3, SanoFacts, SanoDespues

LEMMA ASinCambio ==
    ASSUME NEW T \in SUBSET Tablas,
           \A t \in T \cap DOMAIN LfsAlDia, k \in Claves : Luego(t, k) = Ahora(t, k)
    PROVE  A!Conserva(T)
<1>1. \A t \in T \cap DOMAIN LfsAlDia, k \in Claves : Vigente(t, k)' = Vigente(t, k)
  BY VigenteEs DEF Luego, Ahora
<1>2. QED
  BY <1>1 DEF A!Conserva

LEMMA AOlvida ==
    ASSUME caidas' = 0, DOMAIN LfsAlDia' = DOMAIN LfsAlDia,
           \A t \in DOMAIN LfsAlDia, k \in Claves : Luego(t, k) = Ahora(t, k)
    PROVE  A!Next
<1>1. A!Conserva(Tablas)
  BY ASinCambio
<1>2. A!Olvidar
  BY <1>1 DEF A!Olvidar
<1>3. ~(caidas > 0)'
  OBVIOUS
<1>4. QED
  BY <1>2, <1>3 DEF A!Next, A!Prometido

LEMMA AInserta ==
    ASSUME caidas' = 0, DOMAIN LfsAlDia' = DOMAIN LfsAlDia,
           NEW t \in Tablas, NEW k \in Claves, NEW v \in Valores,
           t \in DOMAIN LfsAlDia => Luego(t, k) = v,
           \A u \in DOMAIN LfsAlDia, c \in Claves :
              ~(u = t /\ c = k) => Luego(u, c) = Ahora(u, c)
    PROVE  A!Next
<1>1. A!Conserva(Tablas \ {t})
  BY ASinCambio
<1>2. ASSUME t \in DOMAIN LfsAlDia
      PROVE  /\ Vigente(t, k)' = v
             /\ \A c \in Claves : c # k => Vigente(t, c)' = Vigente(t, c)
  BY <1>2, VigenteEs DEF Luego, Ahora
<1>3. A!Insertar(t, k, v)
  BY <1>1, <1>2 DEF A!Insertar
<1>4. ~(caidas > 0)'
  OBVIOUS
<1>5. QED
  BY <1>3, <1>4 DEF A!Next, A!Prometido

\* What a SELECT finds is the same if the dirty pages of the key are.
LEMMA VigenteIgual ==
    ASSUME NEW P, NEW mem, NEW Q, NEW nem, NEW l, NEW m, NEW t, NEW k,
           SuciasEn(Q, nem, t, k) = SuciasEn(P, mem, t, k),
           \A p \in SuciasEn(P, mem, t, k) : nem[p.frame] = mem[p.frame],
           t \in DOMAIN l, t \in DOMAIN m, l[t][k] = m[t][k]
    PROVE  VigenteEn(Q, nem, m, t, k) = VigenteEn(P, mem, l, t, k)
<1>1. CASE SuciasEn(P, mem, t, k) = {}
  BY <1>1 DEF VigenteEn
<1>2. CASE SuciasEn(P, mem, t, k) # {}
  <2> DEFINE p == CHOOSE x \in SuciasEn(P, mem, t, k) : TRUE
  <2>1. p \in SuciasEn(P, mem, t, k)
    BY <1>2
  <2>2. VigenteEn(P, mem, l, t, k) = mem[p.frame].value
    BY <1>2 DEF VigenteEn
  <2>3. VigenteEn(Q, nem, m, t, k) = nem[p.frame].value
    BY <1>2 DEF VigenteEn
  <2> HIDE DEF p
  <2>4. QED
    BY <2>1, <2>2, <2>3
<1>3. QED
  BY <1>1, <1>2

LEMMA SelectAciertoA ==
    ASSUME Sano, Sano', NEW h \in Hilos, NEW t \in Tablas, NEW k \in Claves,
           SelectAcierto(h, t, k)
    PROVE  A!Next
<1>1. PICK p \in Halladas(t, k) :
         paginas' = (paginas \ {p}) \cup {[p EXCEPT !.ultimo_uso = reloj]}
  BY DEF SelectAcierto
<1>2. memoria' = memoria /\ caidas' = 0 /\ LfsAlDia' = LfsAlDia
  BY SanoDespues DEF SelectAcierto, remoto, LfsAlDia
<1> DEFINE q == [p EXCEPT !.ultimo_uso = reloj]
<1>3. /\ p \in paginas /\ q.frame = p.frame /\ q.segmento = p.segmento
      /\ q.modificado = p.modificado
  BY SanoFacts DEF Halladas, PaginasDe, Paginas
<1>4. paginas' = (paginas \ {p}) \cup {q}
  BY <1>1
<1> HIDE DEF q
<1>5. ASSUME NEW u \in DOMAIN LfsAlDia, NEW c \in Claves
      PROVE  Luego(u, c) = Ahora(u, c)
  <2>1. \A a \in SuciasEn(paginas, memoria, u, c) :
           \E b \in SuciasEn(paginas', memoria, u, c) : b.frame = a.frame
    BY <1>3, <1>4 DEF SuciasEn
  <2>2. SuciasEn(paginas', memoria, u, c) # {} => SuciasEn(paginas, memoria, u, c) # {}
    BY <1>3, <1>4 DEF SuciasEn
  <2>3. Unicas(paginas, memoria) /\ Unicas(paginas', memoria)
    BY <1>2, SanoFacts, SanoDespues
  <2>4. VigenteEn(paginas, memoria, LfsAlDia, u, c) = VigenteEn(paginas', memoria, LfsAlDia, u, c)
    <3>1. \A a \in SuciasEn(paginas, memoria, u, c) :
             \E b \in SuciasEn(paginas', memoria, u, c) :
                memoria[b.frame].value = memoria[a.frame].value
      BY <2>1
    <3>2. QED
      BY <2>2, <2>3, <3>1, VigenteMismo
  <2>5. QED
    BY <1>2, <2>4 DEF Luego, Ahora
<1>6. QED
  BY <1>2, <1>5, AOlvida

LEMMA InsertActualizaA ==
    ASSUME Sano, Sano', NEW h \in Hilos, NEW t \in Tablas, NEW k \in Claves, NEW v \in Valores,
           InsertActualiza(h, t, k, v)
    PROVE  A!Next
<1>1. PICK p \in Halladas(t, k) :
         /\ paginas' = (paginas \ {p})
               \cup {[p EXCEPT !.ultimo_uso = reloj, !.modificado = TRUE]}
         /\ memoria' = [memoria EXCEPT ![p.frame] = Fila(k, v)]
  BY DEF InsertActualiza
<1>2. caidas' = 0 /\ LfsAlDia' = LfsAlDia
  BY SanoDespues DEF InsertActualiza, remoto, LfsAlDia
<1> DEFINE q == [p EXCEPT !.ultimo_uso = reloj, !.modificado = TRUE]
<1>3. /\ p \in paginas /\ p.frame \in Frames /\ p.segmento = t /\ memoria[p.frame].key = k
      /\ q.frame = p.frame /\ q.segmento = t /\ q.modificado
  BY SanoFacts DEF Halladas, PaginasDe, Paginas
<1>4. paginas' = (paginas \ {p}) \cup {q}
  BY <1>1
<1> HIDE DEF q
<1>5. /\ memoria'[p.frame].key = k /\ memoria'[p.frame].value = v
      /\ \A f \in Frames : f # p.frame => memoria'[f] = memoria[f]
  BY <1>1, <1>3, SanoFacts DEF Fila
<1>6. Luego(t, k) = v
  <2>1. q \in SuciasEn(paginas', memoria', t, k)
    BY <1>3, <1>4, <1>5 DEF SuciasEn
  <2>2. QED
    BY <1>3, <1>5, <2>1, VigenteSucia, SanoDespues DEF Luego
<1>7. ASSUME NEW u \in DOMAIN LfsAlDia, NEW c \in Claves, ~(u = t /\ c = k)
      PROVE  Luego(u, c) = Ahora(u, c)
  <2>1. \A a \in paginas : a # p => a.frame \in Frames /\ a.frame # p.frame
    BY <1>3, SanoFacts DEF MarcoUnico
  <2>2. \A a \in paginas : a # p => memoria'[a.frame] = memoria[a.frame]
    BY <1>5, <2>1
  <2>3. SuciasEn(paginas', memoria', u, c) = SuciasEn(paginas, memoria, u, c)
    BY <1>3, <1>4, <1>5, <1>7, <2>2 DEF SuciasEn
  <2>4. \A a \in SuciasEn(paginas, memoria, u, c) : memoria'[a.frame] = memoria[a.frame]
    BY <1>3, <1>7, <2>2 DEF SuciasEn
  <2>5. QED
    BY <1>2, <2>3, <2>4, VigenteIgual DEF Luego, Ahora
<1>8. QED
  BY <1>2, <1>6, <1>7, AInserta

LEMMA InsertNuevaA ==
    ASSUME Sano, Sano', NEW h \in Hilos, NEW t \in Tablas, NEW k \in Claves, NEW v \in Valores,
           InsertNueva(h, t, k, v)
    PROVE  A!Next
<1>1. PICK o \in Obtenciones :
         /\ paginas' = o.paginas \cup {Pagina(t, o.frame, TRUE)}
         /\ memoria' = [memoria EXCEPT ![o.frame] = Fila(k, v)]
         /\ Enviar(o.envia)
  BY DEF InsertNueva
<1>2. mutex = Nada /\ Halladas(t, k) = {} /\ lfs' = lfs /\ caidas' = 0
  BY SanoDespues DEF InsertNueva, Ocioso
<1>3. /\ o.paginas \subseteq paginas /\ o.frame \in Frames
      /\ o.frame \notin Marcos(o.paginas) /\ o.envia \in Seq(Mensajes)
  BY <1>2, ObtencionBuena DEF Sano
<1>4. LfsAlDia' = AlDia(LfsAlDia, o.envia)
  BY <1>1, <1>2, <1>3, AlDiaEnviar
<1>5. /\ DOMAIN LfsAlDia' = DOMAIN LfsAlDia
      /\ \A u \in DOMAIN LfsAlDia, c \in Claves :
            VigenteEn(o.paginas, memoria, LfsAlDia', u, c) = Ahora(u, c)
  BY <1>2, <1>4, ObtencionVale, SanoFacts DEF Sano, Ahora
<1> DEFINE q == Pagina(t, o.frame, TRUE)
<1>6. q.frame = o.frame /\ q.segmento = t /\ q.modificado
  BY DEF Pagina
<1>7. paginas' = o.paginas \cup {q}
  BY <1>1
<1> HIDE DEF q
<1>8. /\ memoria'[o.frame].key = k /\ memoria'[o.frame].value = v
      /\ \A a \in o.paginas : memoria'[a.frame] = memoria[a.frame]
  <2>1. \A a \in o.paginas : a.frame \in Frames /\ a.frame # o.frame
    BY <1>3, SanoFacts DEF Marcos
  <2>2. QED
    BY <1>1, <1>3, <2>1, SanoFacts DEF Fila
<1>9. Luego(t, k) = v
  <2>1. q \in SuciasEn(paginas', memoria', t, k)
    BY <1>6, <1>7, <1>8 DEF SuciasEn
  <2>2. QED
    BY <1>6, <1>8, <2>1, VigenteSucia, SanoDespues DEF Luego
<1>10. ASSUME NEW u \in DOMAIN LfsAlDia, NEW c \in Claves, ~(u = t /\ c = k)
       PROVE  Luego(u, c) = Ahora(u, c)
  <2>1. SuciasEn(paginas', memoria', u, c) = SuciasEn(o.paginas, memoria, u, c)
    BY <1>6, <1>7, <1>8, <1>10 DEF SuciasEn
  <2>2. \A a \in SuciasEn(o.paginas, memoria, u, c) : memoria'[a.frame] = memoria[a.frame]
    BY <1>8 DEF SuciasEn
  <2>3. Luego(u, c) = VigenteEn(o.paginas, memoria, LfsAlDia', u, c)
    BY <1>5, <2>1, <2>2, VigenteIgual DEF Luego
  <2>4. QED
    BY <1>5, <2>3
<1>11. QED
  BY <1>2, <1>5, <1>9, <1>10, AInserta

\* Of what a SELECT that misses sends, only the journal changes LFS.
LEMMA SelectFalloManda ==
    ASSUME Sano, Sano', NEW h \in Hilos, NEW t \in Tablas, NEW k \in Claves,
           SelectFallo(h, t, k)
    PROVE  \E o \in Obtenciones :
              /\ paginas' = o.paginas /\ Liberar(Marcos(paginas \ o.paginas))
              /\ LfsAlDia' = AlDia(LfsAlDia, o.envia)
<1> DEFINE pide == [tipo |-> "SELECT", tabla |-> t, key |-> k]
<1>1. PICK o \in Obtenciones :
         /\ paginas' = o.paginas /\ Liberar(Marcos(paginas \ o.paginas))
         /\ Enviar(Append(o.envia, pide))
  BY DEF SelectFallo
<1>2. mutex = Nada /\ memoria' = memoria /\ lfs' = lfs /\ caidas' = 0
  BY SanoDespues DEF SelectFallo, Ocioso
<1>3. o.envia \in Seq(Mensajes)
  BY <1>2, ObtencionBuena DEF Sano
<1>4. pide \in Mensajes /\ pide.tipo = "SELECT"
  BY MensajesDePaginas, SanoFacts
<1> HIDE DEF pide
<1>5. Append(o.envia, pide) \in Seq(Mensajes)
  BY <1>3, <1>4
<1>6. LfsAlDia' = AlDia(LfsAlDia, Append(o.envia, pide))
  BY <1>1, <1>2, <1>5, AlDiaEnviar
<1>7. EsAgregar(Append(o.envia, pide), o.envia, pide)
  BY <1>3, <1>4, AppendProperties DEF EsAgregar
<1>8. LfsAlDia' = Aplicar(AlDia(LfsAlDia, o.envia), pide)
  BY <1>3, <1>4, <1>6, <1>7, AlDiaPasos, SanoFacts
<1>9. LfsAlDia' = AlDia(LfsAlDia, o.envia)
  BY <1>4, <1>8 DEF Aplicar
<1>10. QED
  BY <1>1, <1>9

LEMMA SelectFalloA ==
    ASSUME Sano, Sano', NEW h \in Hilos, NEW t \in Tablas, NEW k \in Claves,
           SelectFallo(h, t, k)
    PROVE  A!Next
<1>1. PICK o \in Obtenciones :
         paginas' = o.paginas /\ LfsAlDia' = AlDia(LfsAlDia, o.envia)
  BY SelectFalloManda
<1>2. mutex = Nada /\ memoria' = memoria /\ caidas' = 0
  BY SanoDespues DEF SelectFallo, Ocioso
<1>3. /\ DOMAIN LfsAlDia' = DOMAIN LfsAlDia
      /\ \A u \in DOMAIN LfsAlDia, c \in Claves :
            VigenteEn(o.paginas, memoria, LfsAlDia', u, c) = Ahora(u, c)
  BY <1>1, <1>2, ObtencionVale, SanoFacts DEF Sano, Ahora
<1>4. \A u \in DOMAIN LfsAlDia, c \in Claves : Luego(u, c) = Ahora(u, c)
  BY <1>1, <1>2, <1>3 DEF Luego
<1>5. QED
  BY <1>2, <1>3, <1>4, AOlvida

LEMMA JournalA ==
    ASSUME Sano, Sano', Journal
    PROVE  A!Next
<1>1. PICK s \in Journals : Enviar(s)
  BY DEF Journal
<1>2. paginas' = {} /\ memoria' = memoria /\ lfs' = lfs /\ caidas' = 0
  BY SanoDespues DEF Journal
<1>3. s \in Seq(Mensajes)
  BY JournalsMensajes, SanoFacts
<1>4. LfsAlDia' = AlDia(LfsAlDia, s)
  BY <1>1, <1>2, <1>3, AlDiaEnviar
<1>5. /\ DOMAIN LfsAlDia' = DOMAIN LfsAlDia
      /\ \A u \in DOMAIN LfsAlDia, c \in Claves :
            VigenteEn({}, memoria, LfsAlDia', u, c) = Ahora(u, c)
  BY <1>4, JournalVale, SanoFacts DEF Ahora
<1>6. \A u \in DOMAIN LfsAlDia, c \in Claves : Luego(u, c) = Ahora(u, c)
  BY <1>2, <1>5 DEF Luego
<1>7. QED
  BY <1>2, <1>5, <1>6, AOlvida

LEMMA DropManda ==
    ASSUME Sano, Sano', NEW h \in Hilos, NEW t \in Tablas, Drop(h, t)
    PROVE  /\ DOMAIN LfsAlDia' = DOMAIN LfsAlDia \ {t}
           /\ \A u \in DOMAIN LfsAlDia \ {t} : LfsAlDia'[u] = LfsAlDia[u]
<1> DEFINE borra == [tipo |-> "DROP", tabla |-> t]
<1>1. Enviar(<<borra>>) /\ lfs' = lfs
  BY DEF Drop
<1>2. borra \in Mensajes /\ borra.tipo = "DROP" /\ borra.tabla = t
  BY MensajesDePaginas, SanoFacts
<1> HIDE DEF borra
<1>3. <<borra>> \in Seq(Mensajes) /\ <<>> \in Seq(Mensajes)
  BY <1>2
<1>4. LfsAlDia' = AlDia(LfsAlDia, <<borra>>)
  BY <1>1, <1>3, AlDiaEnviar
<1>5. EsAgregar(<<borra>>, <<>>, borra)
  BY <1>2 DEF EsAgregar
<1>6. LfsAlDia' = SinTabla(LfsAlDia, t)
  <2>1. AlDia(LfsAlDia, <<>>) = LfsAlDia
    BY <1>3, AlDiaPasos, SanoFacts
  <2>2. AlDia(LfsAlDia, <<borra>>) = Aplicar(LfsAlDia, borra)
    <3>1. <<>> \in Seq(Mensajes) /\ LfsAlDia \in EstadosLfs
      BY <1>3, SanoFacts
    <3>2. \A z : EsAgregar(z, <<>>, borra) =>
                    AlDia(LfsAlDia, z) = Aplicar(AlDia(LfsAlDia, <<>>), borra)
      BY <1>2, <3>1, AlDiaPasos
    <3>3. QED
      BY <1>5, <2>1, <3>2
  <2>3. QED
    BY <1>2, <1>4, <2>2 DEF Aplicar
<1>7. QED
  BY <1>6 DEF SinTabla

LEMMA DropA ==
    ASSUME Sano, Sano', NEW h \in Hilos, NEW t \in Tablas, Drop(h, t)
    PROVE  A!Next
<1>1. paginas' = paginas \ PaginasDe(t) /\ memoria' = memoria /\ caidas' = 0
  BY SanoDespues DEF Drop
<1>2. /\ DOMAIN LfsAlDia' = DOMAIN LfsAlDia \ {t}
      /\ \A u \in DOMAIN LfsAlDia \ {t} : LfsAlDia'[u] = LfsAlDia[u]
  BY DropManda
<1>3. ASSUME NEW u \in (Tablas \ {t}) \cap DOMAIN LfsAlDia, NEW c \in Claves
      PROVE  Luego(u, c) = Ahora(u, c)
  <2>1. SuciasEn(paginas', memoria', u, c) = SuciasEn(paginas, memoria, u, c)
    BY <1>1, <1>3 DEF SuciasEn, PaginasDe
  <2>2. u \in DOMAIN LfsAlDia /\ u \in DOMAIN LfsAlDia' /\ LfsAlDia'[u][c] = LfsAlDia[u][c]
    BY <1>2, <1>3
  <2>3. \A p \in SuciasEn(paginas, memoria, u, c) : memoria'[p.frame] = memoria[p.frame]
    BY <1>1
  <2>4. QED
    BY <2>1, <2>2, <2>3, VigenteIgual DEF Luego, Ahora
<1>4. A!Conserva(Tablas \ {t})
  BY <1>3, ASinCambio
<1>5. A!Borrar(t)
  BY <1>2, <1>4 DEF A!Borrar
<1>6. ~(caidas > 0)'
  BY <1>1
<1>7. QED
  BY <1>5, <1>6 DEF A!Next, A!Prometido

\* The page of a SELECT that missed is clean and its frame was nobody's.
LEMMA RecibirSelectOkA ==
    ASSUME Sano, Sano', NEW h \in Hilos, RecibirSelectOk(h)
    PROVE  A!Next
<1>1. /\ caidas' = 0 /\ LfsAlDia' = LfsAlDia
      /\ paginas' = paginas \cup {Pagina(pedido[h].tabla, marco[h], FALSE)}
      /\ memoria' = [memoria EXCEPT ![marco[h]] = Fila(pedido[h].key, Head(respuesta))]
  BY SanoDespues DEF RecibirSelectOk, PaginaNueva, LfsAlDia
<1>2. marco[h] \notin Marcos(paginas)
  BY ReservadoPropio DEF RecibirSelectOk, Sano
<1>3. \A p \in paginas : memoria'[p.frame] = memoria[p.frame]
  BY <1>1, <1>2, SanoFacts DEF Marcos
<1>4. ~Pagina(pedido[h].tabla, marco[h], FALSE).modificado
  BY DEF Pagina
<1>5. ASSUME NEW u \in DOMAIN LfsAlDia, NEW c \in Claves
      PROVE  Luego(u, c) = Ahora(u, c)
  <2>1. SuciasEn(paginas', memoria', u, c) = SuciasEn(paginas, memoria, u, c)
    BY <1>1, <1>3, <1>4 DEF SuciasEn
  <2>2. \A p \in SuciasEn(paginas, memoria, u, c) : memoria'[p.frame] = memoria[p.frame]
    BY <1>3 DEF SuciasEn
  <2>3. u \in DOMAIN LfsAlDia' /\ LfsAlDia'[u][c] = LfsAlDia[u][c]
    BY <1>1
  <2>4. QED
    BY <2>1, <2>2, <2>3, VigenteIgual DEF Luego, Ahora
<1>6. QED
  BY <1>1, <1>5, AOlvida

\* Nothing a SELECT could see changes when the cache does not and LFS, once it
\* has served its socket, is the same.
LEMMA QuietoA ==
    ASSUME Sano', UNCHANGED <<paginas, memoria>>, LfsAlDia' = LfsAlDia
    PROVE  A!Next
<1>1. \A u \in DOMAIN LfsAlDia, c \in Claves : Luego(u, c) = Ahora(u, c)
  BY DEF Luego, Ahora
<1>2. QED
  BY <1>1, AOlvida, SanoDespues

LEMMA LfsAtiendeA ==
    ASSUME Sano, Sano', LfsAtiende
    PROVE  A!Next
<1>1. /\ canal # <<>> /\ lfs' = Aplicar(lfs, Head(canal)) /\ canal' = Tail(canal)
      /\ UNCHANGED <<paginas, memoria>>
  BY DEF LfsAtiende, cache
<1>2. LfsAlDia' = LfsAlDia
  BY <1>1, AlDiaCabeza, SanoFacts, SanoDespues
<1>3. QED
  BY <1>1, <1>2, QuietoA

LEMMA CreateManda ==
    ASSUME Sano, Sano', NEW t \in Tablas, Create(t)
    PROVE  /\ t \notin DOMAIN LfsAlDia
           /\ DOMAIN LfsAlDia' \in {DOMAIN LfsAlDia, DOMAIN LfsAlDia \cup {t}}
           /\ \A u \in DOMAIN LfsAlDia : u \in DOMAIN LfsAlDia' /\ LfsAlDia'[u] = LfsAlDia[u]
<1>1. /\ t \notin DOMAIN lfs /\ canal' = canal /\ UNCHANGED <<paginas, memoria>>
      /\ DOMAIN lfs' = DOMAIN lfs \cup {t} /\ \A u \in DOMAIN lfs : lfs'[u] = lfs[u]
  BY DEF Create, cache
<1>2. lfs' \in EstadosLfs
  BY DEF Sano, Inv, TypeOK
<1>3. /\ t \notin DOMAIN LfsAlDia
      /\ DOMAIN LfsAlDia' \in {DOMAIN LfsAlDia, DOMAIN LfsAlDia \cup {t}}
      /\ \A u \in DOMAIN LfsAlDia : LfsAlDia'[u] = LfsAlDia[u]
  <2>1. LfsAlDia' = AlDia(lfs', canal) /\ LfsAlDia = AlDia(lfs, canal)
    BY <1>1, SanoFacts, SanoDespues
  <2>2. QED
    <3>1. lfs \in EstadosLfs /\ canal \in Seq(Mensajes)
      BY SanoFacts
    <3>2. /\ t \notin DOMAIN AlDia(lfs, canal)
          /\ DOMAIN AlDia(lfs', canal) \in
                {DOMAIN AlDia(lfs, canal), DOMAIN AlDia(lfs, canal) \cup {t}}
          /\ \A u \in DOMAIN AlDia(lfs, canal) :
                AlDia(lfs', canal)[u] = AlDia(lfs, canal)[u]
      BY <1>1, <1>2, <3>1, AlDiaCreate
    <3>3. QED
      BY <2>1, <3>2
<1>4. QED
  BY <1>3

LEMMA CreateA ==
    ASSUME Sano, Sano', NEW t \in Tablas, Create(t)
    PROVE  A!Next
<1>1. UNCHANGED <<paginas, memoria>>
  BY DEF Create, cache
<1>2. /\ t \notin DOMAIN LfsAlDia
      /\ DOMAIN LfsAlDia' \in {DOMAIN LfsAlDia, DOMAIN LfsAlDia \cup {t}}
      /\ \A u \in DOMAIN LfsAlDia : u \in DOMAIN LfsAlDia' /\ LfsAlDia'[u] = LfsAlDia[u]
  BY CreateManda
<1>3. ASSUME NEW u \in DOMAIN LfsAlDia, NEW c \in Claves
      PROVE  Luego(u, c) = Ahora(u, c)
  <2>1. u \in DOMAIN LfsAlDia' /\ LfsAlDia'[u] = LfsAlDia[u]
    BY <1>2
  <2>2. QED
    BY <1>1, <2>1, VigenteIgual DEF Luego, Ahora
<1>4. A!Conserva(Tablas)
  BY <1>3, ASinCambio
<1>5. A!Crear(t) \/ A!Olvidar
  BY <1>2, <1>4 DEF A!Crear, A!Olvidar
<1>6. ~(caidas > 0)'
  BY SanoDespues
<1>7. QED
  BY <1>5, <1>6 DEF A!Next, A!Prometido

LEMMA PasoDeAlmacen ==
    ASSUME Sano, Sano', [Next]_vars
    PROVE  A!Next
<1>1. ASSUME NEW h \in Hilos, Pedir(h)
      PROVE  A!Next
  <2>1. PICK t \in Tablas :
           \/ Drop(h, t)
           \/ \E k \in Claves :
                 \/ SelectAcierto(h, t, k)
                 \/ SelectFallo(h, t, k)
                 \/ \E v \in Valores : InsertActualiza(h, t, k, v) \/ InsertNueva(h, t, k, v)
    BY <1>1 DEF Pedir
  <2>2. QED
    BY <2>1, DropA, SelectAciertoA, SelectFalloA, InsertActualizaA, InsertNuevaA
<1>2. ASSUME NEW h \in Hilos, Seguir(h)
      PROVE  A!Next
  <2>1. ASSUME \/ RecibirSelectError(h) \/ SelectSinLfs(h) \/ FinDrop(h) \/ Responder(h)
        PROVE  UNCHANGED <<paginas, memoria, lfs, canal>>
    BY <2>1 DEF RecibirSelectError, SelectSinLfs, FinDrop, Responder, SelectError, cache, remoto
  <2>2. ~SelectBasura(h)
    BY SanoFacts DEF SelectBasura
  <2>3. UNCHANGED <<lfs, canal>> => LfsAlDia' = LfsAlDia
    BY DEF LfsAlDia
  <2>4. QED
    BY <1>2, <2>1, <2>2, <2>3, RecibirSelectOkA, QuietoA DEF Seguir
<1>3. ASSUME Tic \/ ReinicioLfs \/ UNCHANGED vars
      PROVE  A!Next
  <2>1. UNCHANGED <<paginas, memoria, lfs, canal>>
    BY <1>3 DEF Tic, ReinicioLfs, vars, cache, remoto
  <2>2. LfsAlDia' = LfsAlDia
    BY <2>1 DEF LfsAlDia
  <2>3. QED
    BY <2>1, <2>2, QuietoA
<1>4. ~CaidaLfs
  BY SanoFacts, SanoDespues DEF CaidaLfs
<1>5. QED
  BY <1>1, <1>2, <1>3, <1>4, JournalA, LfsAtiendeA, CreateA DEF Next

\* Until LFS dies, the cache in front of it is invisible: what a SELECT would find
\* changes only by an INSERT of the key or a DROP of the table.
THEOREM LaCacheNoSeNota == Spec => EsAlmacen
<1> DEFINE I == Inv /\ (caidas = 0 => Sano)
<1>1. Init => I
  <2>1. Init => InvClaves /\ enlace = "abierto"
    BY DEF Init, InvClaves, UnaPagina, NoHallada
  <2>2. QED
    BY <2>1, InitInv DEF Sano
<1>2. I /\ [Next]_vars => I'
  BY InvInductivo, SanoInductivo, CaidasCrecen
<1>3. Init => A!Init
  <2> SUFFICES ASSUME Init PROVE A!Init
    OBVIOUS
  <2>1. canal = <<>> /\ lfs = [t \in {} |-> [k \in Claves |-> Nada]] /\ caidas = 0
    BY DEF Init
  <2>2. TypeOK
    BY InitInv DEF Inv
  <2>3. <<>> \in Seq(Mensajes) /\ lfs \in EstadosLfs
    BY <2>2 DEF TypeOK
  <2>4. LfsAlDia = lfs
    BY <2>1, <2>2, <2>3, LfsAlDiaEs, AlDiaPasos
  <2>5. DOMAIN LfsAlDia = {} /\ ~(caidas > 0)
    BY <2>1, <2>4
  <2>6. QED
    BY <2>5 DEF A!Init
<1>4. I /\ [Next]_vars => A!Next
  <2> SUFFICES ASSUME I, [Next]_vars PROVE A!Next
    OBVIOUS
  <2>1. Inv'
    BY InvInductivo
  <2>2. CASE caidas' = 0
    <3>1. Sano /\ Sano'
      BY <2>2, SanoInductivo, CaidasCrecen
    <3>2. QED
      BY <3>1, PasoDeAlmacen
  <2>3. CASE caidas' # 0
    <3>1. (caidas > 0)'
      BY <2>1, <2>3 DEF Inv, TypeOK
    <3>2. QED
      BY <3>1 DEF A!Next
  <2>4. QED
    BY <2>2, <2>3
<1> HIDE DEF I
<1>5. QED
  BY <1>1, <1>2, <1>3, <1>4, PTL DEF Spec, EsAlmacen, A!Spec

-----------------------------------------------------------------------------
(* The answer to a SELECT.  The page a thread was given is read with mutex     *)
(* released; its value is the one LFS would give unless the page is dirty.     *)

SoloInserts(s) == \A i \in 1 .. Len(s) : s[i].tipo = "INSERT"

\* After INSERTs, m.
AlFinal(s, m) ==
    /\ s # <<>> /\ s[Len(s)] = m
    /\ \A i \in 1 .. Len(s) - 1 : s[i].tipo = "INSERT"

\* What a thread waits for is the last request of the socket, or the only answer,
\* and LFS has not changed since it gave that answer.
SelectEnCamino(h) ==
    \/ /\ AlFinal(canal, [tipo |-> "SELECT", tabla |-> pedido[h].tabla,
                          key |-> pedido[h].key])
       /\ respuesta = <<>>
    \/ /\ canal = <<>>
       /\ \E v \in Datos \cup {Nada} :
             /\ respuesta = <<v>>
             /\ v # Nada => /\ pedido[h].tabla \in DOMAIN lfs
                            /\ lfs[pedido[h].tabla][pedido[h].key] = v

DropEnCamino ==
    \/ /\ \E t \in Tablas : AlFinal(canal, [tipo |-> "DROP", tabla |-> t])
       /\ respuesta = <<>>
    \/ canal = <<>> /\ \E v \in Datos \cup {Nada} : respuesta = <<v>>

Viaje ==
    /\ mutex = Nada => respuesta = <<>> /\ SoloInserts(canal)
    /\ \A h \in Hilos : /\ pc[h] = "espera_select" => SelectEnCamino(h)
                        /\ pc[h] = "espera_drop" => DropEnCamino

\* A clean page has the value of LFS.
Limpias ==
    \A p \in paginas :
       ~p.modificado => /\ p.segmento \in DOMAIN LfsAlDia
                        /\ LfsAlDia[p.segmento][memoria[p.frame].key] = memoria[p.frame].value

\* A page that was returned and has not been freed is that of the request.
Devueltas ==
    \A h \in Hilos :
       pc[h] = "responder" /\ viva[h] =>
          \E p \in paginas : /\ p.frame = marco[h] /\ p.segmento = pedido[h].tabla
                             /\ memoria[p.frame].key = pedido[h].key

LEMMA JournalInserta ==
    ASSUME TypeOK, MarcoUnico, NEW s \in Journals
    PROVE  SoloInserts(s)
<1> DEFINE n == Cardinality(Sucias)
<1>1. n \in Nat
  BY TantasComoMarcos, FS_CardinalityType DEF TypeOK, MarcoUnico, Sucias
<1>2. PICK z \in [1 .. n -> Sucias] : s = [i \in 1 .. n |-> InsertDe(z[i])]
  BY DEF Journals
<1> HIDE DEF n
<1>3. Len(s) = n /\ \A i \in 1 .. n : s[i] = InsertDe(z[i])
  BY <1>1, <1>2
<1>4. QED
  BY <1>3 DEF SoloInserts, InsertDe

LEMMA ObtencionInserta ==
    ASSUME Inv, NEW o \in Obtenciones
    PROVE  /\ SoloInserts(o.envia)
           /\ o.envia = <<>> \/ o.paginas = {}
<1>1. SoloInserts(<<>>)
  BY DEF SoloInserts
<1>2. CASE HayLibre
  BY <1>1, <1>2 DEF Obtenciones
<1>3. CASE ~HayLibre /\ Victimas # {}
  BY <1>1, <1>3 DEF Obtenciones
<1>4. CASE ~HayLibre /\ Victimas = {}
  <2>1. o.envia \in Journals /\ o.paginas = {}
    BY <1>4 DEF Obtenciones
  <2>2. QED
    BY <2>1, JournalInserta DEF Inv, Marcado
<1>5. QED
  BY <1>2, <1>3, <1>4

LEMMA InsertsYUltimo ==
    ASSUME NEW c \in Seq(Mensajes), NEW e \in Seq(Mensajes), SoloInserts(c), SoloInserts(e)
    PROVE  /\ SoloInserts(c \o e)
           /\ \A m \in Mensajes : AlFinal(c \o Append(e, m), m)
<1>1. SoloInserts(c \o e)
  <2>1. /\ Len(c \o e) = Len(c) + Len(e)
        /\ \A j \in 1 .. Len(c) + Len(e) :
              (c \o e)[j] = IF j <= Len(c) THEN c[j] ELSE e[j - Len(c)]
    BY ConcatProperties
  <2>2. ASSUME NEW j \in 1 .. Len(c) + Len(e)
        PROVE  (c \o e)[j].tipo = "INSERT"
    <3>1. CASE j <= Len(c)
      BY <2>1, <3>1 DEF SoloInserts
    <3>2. CASE ~(j <= Len(c))
      <4>1. j - Len(c) \in 1 .. Len(e)
        BY <3>2
      <4>2. QED
        BY <2>1, <3>2, <4>1 DEF SoloInserts
    <3>3. QED
      BY <3>1, <3>2
  <2>3. QED
    BY <2>1, <2>2 DEF SoloInserts
<1>2. ASSUME NEW m \in Mensajes
      PROVE  AlFinal(c \o Append(e, m), m)
  <2> DEFINE a == Append(e, m)
  <2>1. /\ a \in Seq(Mensajes) /\ Len(a) = Len(e) + 1 /\ a[Len(e) + 1] = m
        /\ \A i \in 1 .. Len(e) : a[i] = e[i]
    BY AppendProperties
  <2> HIDE DEF a
  <2>2. /\ c \o a \in Seq(Mensajes) /\ Len(c \o a) = Len(c) + (Len(e) + 1)
        /\ \A j \in 1 .. Len(c) + (Len(e) + 1) :
              (c \o a)[j] = IF j <= Len(c) THEN c[j] ELSE a[j - Len(c)]
    <3>1. /\ c \o a \in Seq(Mensajes) /\ Len(c \o a) = Len(c) + Len(a)
          /\ \A j \in 1 .. Len(c) + Len(a) :
                (c \o a)[j] = IF j <= Len(c) THEN c[j] ELSE a[j - Len(c)]
      <4>1. a \in Seq(Mensajes)
        BY <2>1
      <4>2. QED
        BY <4>1, ConcatProperties
    <3>2. QED
      BY <2>1, <3>1
  <2>3. (c \o a)[Len(c) + (Len(e) + 1)] = m
    <3>1. /\ Len(c) + (Len(e) + 1) \in 1 .. Len(c) + (Len(e) + 1)
          /\ ~(Len(c) + (Len(e) + 1) <= Len(c))
          /\ (Len(c) + (Len(e) + 1)) - Len(c) = Len(e) + 1
      OBVIOUS
    <3>2. QED
      BY <2>1, <2>2, <3>1
  <2>4. ASSUME NEW j \in 1 .. (Len(c) + (Len(e) + 1)) - 1
        PROVE  (c \o a)[j].tipo = "INSERT"
    <3>0. j \in 1 .. Len(c) + (Len(e) + 1)
      OBVIOUS
    <3>1. CASE j <= Len(c)
      BY <2>2, <3>0, <3>1 DEF SoloInserts
    <3>2. CASE ~(j <= Len(c))
      <4>1. j - Len(c) \in 1 .. Len(e)
        BY <3>2
      <4>2. (c \o a)[j] = e[j - Len(c)]
        BY <2>1, <2>2, <3>0, <3>2, <4>1
      <4>3. QED
        BY <4>1, <4>2 DEF SoloInserts
    <3>3. QED
      BY <3>1, <3>2
  <2>5. c \o a # <<>>
    BY <2>2
  <2>6. AlFinal(c \o a, m)
    BY <2>2, <2>3, <2>4, <2>5 DEF AlFinal
  <2>7. QED
    BY <2>6 DEF a
<1>3. QED
  BY <1>1, <1>2

\* Once the first request is served, what comes after it is the same.
LEMMA TrasLaCabeza ==
    ASSUME NEW s \in Seq(Mensajes), s # <<>>
    PROVE  /\ SoloInserts(s) => Head(s).tipo = "INSERT" /\ SoloInserts(Tail(s))
           /\ \A m : AlFinal(s, m) =>
                 \/ Head(s) = m /\ Tail(s) = <<>>
                 \/ Head(s).tipo = "INSERT" /\ AlFinal(Tail(s), m)
<1> DEFINE z == Tail(s)
<1>1. /\ Head(s) = s[1] /\ z \in Seq(Mensajes) /\ Len(s) \in Nat /\ Len(s) >= 1
      /\ Len(z) = Len(s) - 1
      /\ \A i \in 1 .. Len(z) : z[i] = s[i + 1]
  BY HeadTailProperties, EmptySeq
<1>2. (z = <<>>) <=> (Len(z) = 0)
  BY <1>1, EmptySeq
<1> HIDE DEF z
<1>3. SoloInserts(s) => Head(s).tipo = "INSERT" /\ SoloInserts(z)
  <2> SUFFICES ASSUME SoloInserts(s) PROVE Head(s).tipo = "INSERT" /\ SoloInserts(z)
    OBVIOUS
  <2>1. \A i \in 1 .. Len(z) : i + 1 \in 1 .. Len(s)
    BY <1>1
  <2>2. QED
    BY <1>1, <2>1 DEF SoloInserts
<1>4. ASSUME NEW m, AlFinal(s, m)
      PROVE  \/ Head(s) = m /\ z = <<>>
             \/ Head(s).tipo = "INSERT" /\ AlFinal(z, m)
  <2>1. CASE Len(s) = 1
    BY <1>1, <1>2, <1>4, <2>1 DEF AlFinal
  <2>2. CASE Len(s) # 1
    <3>1. 1 \in 1 .. Len(s) - 1
      BY <1>1, <2>2
    <3>2. Head(s).tipo = "INSERT"
      BY <1>1, <1>4, <3>1 DEF AlFinal
    <3>3. Len(z) \in 1 .. Len(z) /\ Len(z) + 1 = Len(s)
      BY <1>1, <2>2
    <3>4. z # <<>> /\ z[Len(z)] = m
      BY <1>1, <1>2, <1>4, <3>3 DEF AlFinal
    <3>5. \A i \in 1 .. Len(z) - 1 : i \in 1 .. Len(z) /\ i + 1 \in 1 .. Len(s) - 1
      BY <1>1
    <3>6. \A i \in 1 .. Len(z) - 1 : z[i].tipo = "INSERT"
      BY <1>1, <1>4, <3>5 DEF AlFinal
    <3>7. QED
      BY <3>2, <3>4, <3>6 DEF AlFinal
  <2>3. QED
    BY <2>1, <2>2
<1>5. QED
  BY <1>3, <1>4 DEF z

\* What Enviar leaves on the socket while it is open.
LEMMA EnviarAlFinal ==
    ASSUME Sano, mutex = Nada, Viaje, NEW e \in Seq(Mensajes), SoloInserts(e)
    PROVE  /\ respuesta = <<>>
           /\ Enviar(e) => SoloInserts(canal')
           /\ \A m \in Mensajes : Enviar(Append(e, m)) => AlFinal(canal', m)
<1>1. respuesta = <<>> /\ SoloInserts(canal) /\ canal \in Seq(Mensajes)
  BY SanoFacts DEF Viaje
<1>2. \A ms : Enviar(ms) => canal' = canal \o ms
  BY SanoFacts DEF Enviar
<1>3. SoloInserts(canal \o e) /\ \A m \in Mensajes : AlFinal(canal \o Append(e, m), m)
  BY <1>1, InsertsYUltimo
<1>4. Enviar(e) => canal' = canal \o e
  BY <1>2
<1>5. \A m \in Mensajes : Enviar(Append(e, m)) => canal' = canal \o Append(e, m)
  BY <1>2
<1>6. QED
  BY <1>1, <1>3, <1>4, <1>5

LEMMA ViajeAtiende ==
    ASSUME Sano, Viaje, LfsAtiende
    PROVE  Viaje'
<1> DEFINE m == Head(canal)
           hay == m.tabla \in DOMAIN lfs
           dato == IF hay THEN lfs[m.tabla][m.key] ELSE Nada
           hecho == IF hay THEN Vacio ELSE Nada
<1>1. /\ canal # <<>> /\ canal \in Seq(Mensajes) /\ canal' = Tail(canal)
      /\ lfs' = Aplicar(lfs, m) /\ UNCHANGED <<mutex, pc, pedido>>
  BY SanoFacts DEF LfsAtiende, hilos
<1>2. m.tipo = "INSERT" => respuesta' = respuesta
  BY DEF LfsAtiende
<1>3. m.tipo = "SELECT" => respuesta' = Append(respuesta, dato) /\ lfs' = lfs
  BY DEF LfsAtiende, Aplicar
<1>4. m.tipo = "DROP" => respuesta' = Append(respuesta, hecho)
  BY DEF LfsAtiende
<1>5. m \in Mensajes
  BY <1>1, HeadTailProperties
<1>6. m.tipo = "SELECT" => dato \in Datos \cup {Nada}
  <2>1. m.tipo = "SELECT" => m.key \in Claves
    BY <1>5 DEF Mensajes
  <2>2. hay => lfs[m.tabla] \in [Claves -> Datos \cup {Nada}]
    BY SanoFacts, EstadoLfs
  <2>3. QED
    BY <2>1, <2>2
<1>7. hecho \in Datos \cup {Nada}
  BY DEF Datos
<1>8. /\ SoloInserts(canal) => m.tipo = "INSERT" /\ SoloInserts(canal')
      /\ \A x : AlFinal(canal, x) =>
            \/ m = x /\ canal' = <<>>
            \/ m.tipo = "INSERT" /\ AlFinal(canal', x)
  BY <1>1, TrasLaCabeza
<1> HIDE DEF m, hecho
<1>9. (mutex = Nada => respuesta = <<>> /\ SoloInserts(canal))'
  BY <1>1, <1>2, <1>8 DEF Viaje
<1>10. ASSUME NEW h \in Hilos, pc[h] = "espera_select"
       PROVE  SelectEnCamino(h)'
  <2> DEFINE x == [tipo |-> "SELECT", tabla |-> pedido[h].tabla, key |-> pedido[h].key]
  <2>1. AlFinal(canal, x) /\ respuesta = <<>>
    BY <1>1, <1>10 DEF Viaje, SelectEnCamino
  <2>2. x.tipo = "SELECT" /\ x.tabla = pedido[h].tabla /\ x.key = pedido[h].key
    OBVIOUS
  <2>3. CASE m = x /\ canal' = <<>>
    <3>1. respuesta' = <<dato>> /\ lfs' = lfs /\ dato \in Datos \cup {Nada}
      BY <1>3, <1>6, <2>1, <2>2, <2>3
    <3>2. dato # Nada => /\ pedido'[h].tabla \in DOMAIN lfs'
                         /\ lfs'[pedido'[h].tabla][pedido'[h].key] = dato
      BY <1>1, <2>3, <3>1
    <3> HIDE DEF dato
    <3>3. QED
      BY <2>3, <3>1, <3>2 DEF SelectEnCamino
  <2>4. CASE m.tipo = "INSERT" /\ AlFinal(canal', x)
    BY <1>1, <1>2, <2>1, <2>4 DEF SelectEnCamino
  <2> HIDE DEF x
  <2>5. QED
    BY <1>8, <2>1, <2>3, <2>4
<1>11. ASSUME NEW h \in Hilos, pc[h] = "espera_drop"
       PROVE  DropEnCamino'
  <2>1. PICK t \in Tablas : AlFinal(canal, [tipo |-> "DROP", tabla |-> t])
    BY <1>1, <1>11 DEF Viaje, DropEnCamino
  <2>2. respuesta = <<>>
    BY <1>1, <1>11 DEF Viaje, DropEnCamino
  <2> DEFINE x == [tipo |-> "DROP", tabla |-> t]
  <2>3. AlFinal(canal, x) /\ x.tipo = "DROP"
    BY <2>1
  <2>4. CASE m = x /\ canal' = <<>>
    <3>1. respuesta' = <<hecho>>
      BY <1>4, <2>2, <2>3, <2>4
    <3>2. QED
      BY <1>7, <2>4, <3>1 DEF DropEnCamino
  <2>5. CASE m.tipo = "INSERT" /\ AlFinal(canal', x)
    BY <1>2, <2>2, <2>5 DEF DropEnCamino
  <2> HIDE DEF x
  <2>6. QED
    BY <1>8, <2>3, <2>4, <2>5
<1>12. QED
  BY <1>1, <1>9, <1>10, <1>11 DEF Viaje

LEMMA ViajeInductivo ==
    ASSUME Sano, Sano', Viaje, [Next]_vars
    PROVE  Viaje'
<1>1. /\ canal \in Seq(Mensajes) /\ enlace = "abierto"
      /\ pc \in [Hilos -> {"reposo", "espera_select", "espera_drop", "responder"}]
      /\ pedido \in [Hilos -> [tabla : Tablas, key : Claves] \cup {Nada}]
      /\ Exclusion /\ Exclusion'
  BY SanoFacts DEF Sano, Inv, TypeOK
<1>2. ASSUME UNCHANGED <<canal, respuesta, lfs, mutex>>,
             \A g \in Hilos : pc'[g] \in {"espera_select", "espera_drop"} =>
                pc'[g] = pc[g] /\ pedido'[g] = pedido[g]
      PROVE  Viaje'
  <2>1. ASSUME NEW g \in Hilos, pc'[g] = "espera_select"
        PROVE  SelectEnCamino(g)'
    <3>1. SelectEnCamino(g) /\ pedido'[g] = pedido[g]
      BY <1>2, <2>1 DEF Viaje
    <3>2. QED
      BY <1>2, <3>1 DEF SelectEnCamino
  <2>2. ASSUME NEW g \in Hilos, pc'[g] = "espera_drop"
        PROVE  DropEnCamino'
    <3>1. DropEnCamino
      BY <1>2, <2>2 DEF Viaje
    <3>2. QED
      BY <1>2, <3>1 DEF DropEnCamino
  <2>3. QED
    BY <1>2, <2>1, <2>2 DEF Viaje
<1>3. ASSUME mutex' = Nada, respuesta' = <<>>, SoloInserts(canal')
      PROVE  Viaje'
  <2>1. \A g \in Hilos : pc'[g] \notin {"espera_select", "espera_drop"}
    BY <1>1, <1>3, NadaAssumption DEF Exclusion
  <2>2. QED
    BY <1>3, <2>1 DEF Viaje
<1>4. ASSUME NEW h \in Hilos, NEW t \in Tablas, NEW k \in Claves, SelectAcierto(h, t, k)
      PROVE  Viaje'
  <2>1. /\ UNCHANGED <<canal, respuesta, lfs, mutex>> /\ pc' = [pc EXCEPT ![h] = "responder"]
        /\ \A g \in Hilos : g # h => pedido'[g] = pedido[g]
    BY <1>1, <1>4 DEF SelectAcierto, remoto
  <2>2. QED
    BY <1>1, <1>2, <2>1
<1>5. ASSUME NEW h \in Hilos, NEW t \in Tablas, NEW k \in Claves, SelectFallo(h, t, k)
      PROVE  Viaje'
  <2> DEFINE pide == [tipo |-> "SELECT", tabla |-> t, key |-> k]
  <2>1. PICK o \in Obtenciones : Enviar(Append(o.envia, pide))
    BY <1>5 DEF SelectFallo
  <2>2. mutex = Nada /\ respuesta' = respuesta
    BY <1>5 DEF SelectFallo, Ocioso
  <2>3. o.envia \in Seq(Mensajes) /\ SoloInserts(o.envia) /\ pide \in Mensajes
    BY <2>2, ObtencionBuena, ObtencionInserta, MensajesDePaginas, SanoFacts DEF Sano
  <2>4. respuesta' = <<>> /\ AlFinal(canal', pide)
    <3> HIDE DEF pide
    <3>1. QED
      BY <2>1, <2>2, <2>3, EnviarAlFinal
  <2>5. mutex' = h /\ pc'[h] = "espera_select" /\ pedido'[h] = [tabla |-> t, key |-> k]
    BY <1>1, <1>5 DEF SelectFallo
  <2>6. SelectEnCamino(h)'
    BY <2>4, <2>5 DEF SelectEnCamino
  <2>7. \A g \in Hilos : pc'[g] \in {"espera_select", "espera_drop"} => g = h
    BY <1>1, <2>5 DEF Exclusion
  <2>8. h # Nada
    BY NadaAssumption
  <2>9. QED
    BY <2>5, <2>6, <2>7, <2>8 DEF Viaje
<1>6. ASSUME NEW h \in Hilos, NEW t \in Tablas, NEW k \in Claves, NEW v \in Valores,
             InsertActualiza(h, t, k, v)
      PROVE  Viaje'
  BY <1>2, <1>6 DEF InsertActualiza, hilos, remoto
<1>7. ASSUME NEW h \in Hilos, NEW t \in Tablas, NEW k \in Claves, NEW v \in Valores,
             InsertNueva(h, t, k, v)
      PROVE  Viaje'
  <2>1. PICK o \in Obtenciones : Enviar(o.envia)
    BY <1>7 DEF InsertNueva
  <2>2. mutex = Nada /\ mutex' = Nada /\ respuesta' = respuesta
    BY <1>7 DEF InsertNueva, Ocioso
  <2>3. o.envia \in Seq(Mensajes) /\ SoloInserts(o.envia)
    BY <2>2, ObtencionBuena, ObtencionInserta DEF Sano
  <2>4. QED
    BY <1>3, <2>1, <2>2, <2>3, EnviarAlFinal
<1>8. ASSUME Journal
      PROVE  Viaje'
  <2>1. PICK s \in Journals : Enviar(s)
    BY <1>8 DEF Journal
  <2>2. mutex = Nada /\ mutex' = Nada /\ respuesta' = respuesta
    BY <1>8 DEF Journal
  <2>3. s \in Seq(Mensajes) /\ SoloInserts(s)
    BY JournalsMensajes, JournalInserta, SanoFacts
  <2>4. QED
    BY <1>3, <2>1, <2>2, <2>3, EnviarAlFinal
<1>9. ASSUME NEW h \in Hilos, NEW t \in Tablas, Drop(h, t)
      PROVE  Viaje'
  <2> DEFINE borra == [tipo |-> "DROP", tabla |-> t]
  <2>1. Enviar(Append(<<>>, borra))
    BY <1>9 DEF Drop
  <2>2. mutex = Nada /\ respuesta' = respuesta
    BY <1>9 DEF Drop, Ocioso
  <2>3. <<>> \in Seq(Mensajes) /\ SoloInserts(<<>>) /\ borra \in Mensajes
    BY MensajesDePaginas, SanoFacts DEF SoloInserts
  <2>4. respuesta' = <<>> /\ AlFinal(canal', borra)
    <3> HIDE DEF borra
    <3>1. QED
      BY <2>1, <2>2, <2>3, EnviarAlFinal
  <2>5. mutex' = h /\ pc'[h] = "espera_drop"
    BY <1>1, <1>9 DEF Drop
  <2>6. DropEnCamino'
    BY <2>4 DEF DropEnCamino
  <2>7. \A g \in Hilos : pc'[g] \in {"espera_select", "espera_drop"} => g = h
    BY <1>1, <2>5 DEF Exclusion
  <2>8. h # Nada
    BY NadaAssumption
  <2>9. QED
    BY <2>5, <2>6, <2>7, <2>8 DEF Viaje
<1>10. ASSUME NEW h \in Hilos, RecibirSelectOk(h) \/ RecibirSelectError(h)
       PROVE  Viaje'
  <2>1. /\ pc[h] = "espera_select" /\ respuesta # <<>> /\ respuesta' = Tail(respuesta)
        /\ mutex' = Nada /\ canal' = canal
    BY <1>10 DEF RecibirSelectOk, RecibirSelectError, PaginaNueva, SelectError
  <2>2. PICK v \in Datos \cup {Nada} : canal = <<>> /\ respuesta = <<v>>
    BY <2>1 DEF Viaje, SelectEnCamino
  <2>3. respuesta' = <<>> /\ SoloInserts(canal')
    BY <2>1, <2>2 DEF SoloInserts
  <2>4. QED
    BY <1>3, <2>1, <2>3
<1>11. ASSUME NEW h \in Hilos, FinDrop(h)
       PROVE  Viaje'
  <2>1. /\ pc[h] = "espera_drop" /\ respuesta # <<>> /\ respuesta' = Tail(respuesta)
        /\ mutex' = Nada /\ canal' = canal
    BY <1>1, <1>11 DEF FinDrop
  <2>2. PICK v \in Datos \cup {Nada} : canal = <<>> /\ respuesta = <<v>>
    BY <2>1 DEF Viaje, DropEnCamino
  <2>3. respuesta' = <<>> /\ SoloInserts(canal')
    BY <2>1, <2>2 DEF SoloInserts
  <2>4. QED
    BY <1>3, <2>1, <2>3
<1>12. ASSUME NEW h \in Hilos, Responder(h)
       PROVE  Viaje'
  <2>1. /\ UNCHANGED <<canal, respuesta, lfs, mutex>> /\ pc' = [pc EXCEPT ![h] = "reposo"]
        /\ pedido' = [pedido EXCEPT ![h] = Nada]
    BY <1>12 DEF Responder, remoto
  <2>2. QED
    BY <1>1, <1>2, <2>1
<1>13. ASSUME NEW t \in Tablas, Create(t)
       PROVE  Viaje'
  <2>1. /\ UNCHANGED <<canal, respuesta, mutex, pc, pedido>>
        /\ DOMAIN lfs \subseteq DOMAIN lfs' /\ \A u \in DOMAIN lfs : lfs'[u] = lfs[u]
    BY <1>13 DEF Create, hilos
  <2>2. ASSUME NEW g \in Hilos, SelectEnCamino(g)
        PROVE  SelectEnCamino(g)'
    BY <2>1, <2>2 DEF SelectEnCamino
  <2>3. DropEnCamino => DropEnCamino'
    BY <2>1 DEF DropEnCamino
  <2>4. QED
    BY <2>1, <2>2, <2>3 DEF Viaje
<1>14. ASSUME Tic \/ ReinicioLfs \/ UNCHANGED vars
       PROVE  Viaje'
  BY <1>2, <1>14 DEF Tic, ReinicioLfs, vars, hilos, remoto
<1>15. \A h \in Hilos : ~SelectSinLfs(h) /\ ~SelectBasura(h)
  BY <1>1 DEF SelectSinLfs, SelectBasura
<1>16. ~CaidaLfs
  BY SanoFacts, SanoDespues DEF CaidaLfs
<1>17. QED
  BY <1>4, <1>5, <1>6, <1>7, <1>8, <1>9, <1>10, <1>11, <1>12, <1>13, <1>14, <1>15, <1>16,
     ViajeAtiende DEF Next, Pedir, Seguir

\* Clean pages whose frame and table of LFS do not change.
LEMMA SiguenLimpias ==
    ASSUME Limpias, NEW P \in SUBSET paginas,
           \A p \in P : ~p.modificado =>
              /\ memoria'[p.frame] = memoria[p.frame]
              /\ p.segmento \in DOMAIN LfsAlDia =>
                    p.segmento \in DOMAIN LfsAlDia' /\ LfsAlDia'[p.segmento] = LfsAlDia[p.segmento],
           \A p \in paginas' : p \in P \/ p.modificado
    PROVE  Limpias'
  BY DEF Limpias

\* The pages that stay are those of the threads that still have theirs.
LEMMA SiguenDevueltas ==
    ASSUME Devueltas, NEW P \in SUBSET paginas, P \subseteq paginas',
           Liberar(Marcos(paginas \ P)),
           \A p \in P : memoria'[p.frame].key = memoria[p.frame].key,
           \A g \in Hilos : pc'[g] = "responder" =>
              pc[g] = "responder" /\ marco'[g] = marco[g] /\ pedido'[g] = pedido[g]
    PROVE  Devueltas'
<1> SUFFICES ASSUME NEW g \in Hilos, pc'[g] = "responder", viva'[g]
             PROVE  \E p \in paginas' :
                       /\ p.frame = marco'[g] /\ p.segmento = pedido'[g].tabla
                       /\ memoria'[p.frame].key = pedido'[g].key
  BY DEF Devueltas
<1>1. pc[g] = "responder" /\ marco'[g] = marco[g] /\ pedido'[g] = pedido[g]
  OBVIOUS
<1>2. viva[g] /\ marco[g] \notin Marcos(paginas \ P)
  BY <1>1 DEF Liberar
<1>3. PICK p \in paginas : /\ p.frame = marco[g] /\ p.segmento = pedido[g].tabla
                           /\ memoria[p.frame].key = pedido[g].key
  BY <1>1, <1>2 DEF Devueltas
<1>4. p \in P
  BY <1>2, <1>3 DEF Marcos
<1>5. QED
  BY <1>1, <1>3, <1>4

\* The same when the pages change only their marks.
LEMMA DevueltasIguales ==
    ASSUME Devueltas,
           \A p \in paginas : \E q \in paginas' :
              /\ q.frame = p.frame /\ q.segmento = p.segmento
              /\ memoria'[q.frame].key = memoria[p.frame].key,
           NEW h \in Hilos,
           \A g \in Hilos : pc'[g] = "responder" /\ viva'[g] =>
              \/ /\ pc[g] = "responder" /\ viva[g]
                 /\ marco'[g] = marco[g] /\ pedido'[g] = pedido[g]
              \/ \E q \in paginas' : /\ q.frame = marco'[g] /\ q.segmento = pedido'[g].tabla
                                     /\ memoria'[q.frame].key = pedido'[g].key
    PROVE  Devueltas'
<1> SUFFICES ASSUME NEW g \in Hilos, pc[g] = "responder", viva[g],
                    marco'[g] = marco[g], pedido'[g] = pedido[g]
             PROVE  \E q \in paginas' :
                       /\ q.frame = marco'[g] /\ q.segmento = pedido'[g].tabla
                       /\ memoria'[q.frame].key = pedido'[g].key
  BY DEF Devueltas
<1>1. PICK p \in paginas : /\ p.frame = marco[g] /\ p.segmento = pedido[g].tabla
                           /\ memoria[p.frame].key = pedido[g].key
  BY DEF Devueltas
<1>2. QED
  BY <1>1

LEMMA PaginasPedir ==
    ASSUME Sano, Sano', Limpias, Devueltas, NEW h \in Hilos, Pedir(h)
    PROVE  Limpias' /\ Devueltas'
<1>1. /\ \A p \in paginas : p \in Paginas /\ p.frame \in Frames
      /\ memoria \in [Frames -> Filas]
      /\ MarcoUnico
      /\ pc \in [Hilos -> {"reposo", "espera_select", "espera_drop", "responder"}]
      /\ pedido \in [Hilos -> [tabla : Tablas, key : Claves] \cup {Nada}]
      /\ marco \in [Hilos -> Frames] /\ viva \in [Hilos -> BOOLEAN]
  BY SanoFacts DEF Sano, Inv, TypeOK
<1>2. ASSUME NEW t \in Tablas, NEW k \in Claves, SelectAcierto(h, t, k)
      PROVE  Limpias' /\ Devueltas'
  <2>1. PICK p \in Halladas(t, k) :
           /\ paginas' = (paginas \ {p}) \cup {[p EXCEPT !.ultimo_uso = reloj]}
           /\ marco' = [marco EXCEPT ![h] = p.frame]
    BY <1>2 DEF SelectAcierto
  <2>2. memoria' = memoria /\ LfsAlDia' = LfsAlDia
    BY <1>2 DEF SelectAcierto, remoto, LfsAlDia
  <2> DEFINE q == [p EXCEPT !.ultimo_uso = reloj]
  <2>3. /\ p \in paginas /\ q.frame = p.frame /\ q.segmento = p.segmento
        /\ q.modificado = p.modificado /\ p.segmento = t /\ memoria[p.frame].key = k
    BY <1>1 DEF Halladas, PaginasDe, Paginas
  <2>4. paginas' = (paginas \ {p}) \cup {q}
    BY <2>1
  <2> HIDE DEF q
  <2>5. Limpias'
    BY <2>2, <2>3, <2>4 DEF Limpias
  <2>6. \A g \in Hilos : g # h =>
           pc'[g] = pc[g] /\ viva'[g] = viva[g] /\ marco'[g] = marco[g] /\ pedido'[g] = pedido[g]
    BY <1>1, <1>2, <2>1 DEF SelectAcierto
  <2>7. marco'[h] = p.frame /\ pedido'[h].tabla = t /\ pedido'[h].key = k
    BY <1>1, <1>2, <2>1 DEF SelectAcierto
  <2>8. \A a \in paginas : \E b \in paginas' :
           /\ b.frame = a.frame /\ b.segmento = a.segmento
           /\ memoria'[b.frame].key = memoria[a.frame].key
    BY <2>2, <2>3, <2>4
  <2>9. \E b \in paginas' : /\ b.frame = marco'[h] /\ b.segmento = pedido'[h].tabla
                            /\ memoria'[b.frame].key = pedido'[h].key
    BY <2>2, <2>3, <2>4, <2>7
  <2>10. Devueltas'
    BY <2>6, <2>8, <2>9, DevueltasIguales
  <2>11. QED
    BY <2>5, <2>10
<1>3. ASSUME NEW o \in Obtenciones, mutex = Nada
      PROVE  /\ o.paginas \in SUBSET paginas
             /\ AlDia(LfsAlDia, o.envia) = LfsAlDia \/ o.paginas = {}
  <2>1. AlDia(LfsAlDia, <<>>) = LfsAlDia
    <3>1. <<>> \in Seq(Mensajes)
      OBVIOUS
    <3>2. QED
      BY <3>1, AlDiaPasos, SanoFacts
  <2>2. QED
    BY <1>3, <2>1, ObtencionBuena, ObtencionInserta DEF Sano
<1>4. ASSUME NEW t \in Tablas, NEW k \in Claves, SelectFallo(h, t, k)
      PROVE  Limpias' /\ Devueltas'
  <2>1. PICK o \in Obtenciones :
           /\ paginas' = o.paginas /\ Liberar(Marcos(paginas \ o.paginas))
           /\ LfsAlDia' = AlDia(LfsAlDia, o.envia)
    BY <1>4, SelectFalloManda
  <2>2. mutex = Nada /\ memoria' = memoria
    BY <1>4 DEF SelectFallo, Ocioso
  <2>3. paginas' \in SUBSET paginas /\ (LfsAlDia' = LfsAlDia \/ paginas' = {})
    BY <1>3, <2>1, <2>2
  <2>4. Limpias'
    BY <2>2, <2>3 DEF Limpias
  <2>5. \A g \in Hilos : pc'[g] = "responder" =>
           pc[g] = "responder" /\ marco'[g] = marco[g] /\ pedido'[g] = pedido[g]
    <3>1. PICK f : marco' = [marco EXCEPT ![h] = f]
      BY <1>4 DEF SelectFallo
    <3>2. QED
      BY <1>1, <1>4, <3>1 DEF SelectFallo
  <2>6. Liberar(Marcos(paginas \ paginas'))
    BY <2>1
  <2>7. Devueltas'
    BY <2>2, <2>3, <2>5, <2>6, SiguenDevueltas
  <2>8. QED
    BY <2>4, <2>7
<1>5. ASSUME NEW t \in Tablas, NEW k \in Claves, NEW v \in Valores, InsertActualiza(h, t, k, v)
      PROVE  Limpias' /\ Devueltas'
  <2>1. PICK p \in Halladas(t, k) :
           /\ paginas' = (paginas \ {p})
                 \cup {[p EXCEPT !.ultimo_uso = reloj, !.modificado = TRUE]}
           /\ memoria' = [memoria EXCEPT ![p.frame] = Fila(k, v)]
    BY <1>5 DEF InsertActualiza
  <2>2. LfsAlDia' = LfsAlDia /\ UNCHANGED <<pc, viva, marco, pedido>>
    BY <1>5 DEF InsertActualiza, hilos, remoto, LfsAlDia
  <2> DEFINE q == [p EXCEPT !.ultimo_uso = reloj, !.modificado = TRUE]
  <2>3. /\ p \in paginas /\ p.frame \in Frames /\ q.frame = p.frame
        /\ q.segmento = p.segmento /\ q.modificado /\ memoria[p.frame].key = k
    BY <1>1 DEF Halladas, PaginasDe, Paginas
  <2>4. paginas' = (paginas \ {p}) \cup {q}
    BY <2>1
  <2> HIDE DEF q
  <2>5. \A a \in paginas : a # p => memoria'[a.frame] = memoria[a.frame]
    <3>1. \A a \in paginas : a # p => a.frame # p.frame /\ a.frame \in Frames
      BY <1>1, <2>3 DEF MarcoUnico
    <3>2. QED
      BY <1>1, <2>1, <3>1
  <2>6. Limpias'
    BY <2>2, <2>3, <2>4, <2>5 DEF Limpias
  <2>7. memoria'[p.frame].key = memoria[p.frame].key
    BY <1>1, <2>1, <2>3 DEF Fila
  <2>8. \A a \in paginas : \E b \in paginas' :
           /\ b.frame = a.frame /\ b.segmento = a.segmento
           /\ memoria'[b.frame].key = memoria[a.frame].key
    BY <2>3, <2>4, <2>5, <2>7
  <2>9. Devueltas'
    BY <2>2, <2>8, DevueltasIguales
  <2>10. QED
    BY <2>6, <2>9
<1>6. ASSUME NEW t \in Tablas, NEW k \in Claves, NEW v \in Valores, InsertNueva(h, t, k, v)
      PROVE  Limpias' /\ Devueltas'
  <2>1. PICK o \in Obtenciones :
           /\ paginas' = o.paginas \cup {Pagina(t, o.frame, TRUE)}
           /\ memoria' = [memoria EXCEPT ![o.frame] = Fila(k, v)]
           /\ Liberar(Marcos(paginas \ o.paginas))
           /\ Enviar(o.envia)
    BY <1>6 DEF InsertNueva
  <2>2. mutex = Nada /\ lfs' = lfs /\ UNCHANGED <<pc, marco, pedido>>
    BY <1>6 DEF InsertNueva, Ocioso
  <2>3. /\ o.frame \in Frames /\ o.frame \notin Marcos(o.paginas)
        /\ o.envia \in Seq(Mensajes) /\ o.paginas \in SUBSET paginas
        /\ Pagina(t, o.frame, TRUE).modificado
    BY <1>3, <2>2, ObtencionBuena DEF Sano, Pagina
  <2>4. LfsAlDia' = LfsAlDia \/ o.paginas = {}
    BY <1>3, <2>1, <2>2, <2>3, AlDiaEnviar
  <2>5. \A a \in o.paginas : memoria'[a.frame] = memoria[a.frame]
    <3>1. \A a \in o.paginas : a.frame # o.frame /\ a.frame \in Frames
      BY <1>1, <2>3 DEF Marcos
    <3>2. QED
      BY <1>1, <2>1, <3>1
  <2>6. Limpias'
    <3>1. CASE LfsAlDia' = LfsAlDia
      BY <2>1, <2>3, <2>5, <3>1, SiguenLimpias
    <3>2. CASE o.paginas = {}
      BY <2>1, <2>3, <3>2 DEF Limpias
    <3>3. QED
      BY <2>4, <3>1, <3>2
  <2>7. Devueltas'
    BY <2>1, <2>2, <2>3, <2>5, SiguenDevueltas
  <2>8. QED
    BY <2>6, <2>7
<1>7. ASSUME NEW t \in Tablas, Drop(h, t)
      PROVE  Limpias' /\ Devueltas'
  <2>1. /\ paginas' = paginas \ PaginasDe(t) /\ memoria' = memoria
        /\ Liberar(Marcos(PaginasDe(t))) /\ UNCHANGED <<marco, pedido>>
        /\ pc' = [pc EXCEPT ![h] = "espera_drop"]
    BY <1>7 DEF Drop
  <2>2. \A p \in paginas' : p \in paginas /\ p.segmento # t
    BY <2>1 DEF PaginasDe
  <2>3. paginas' \in SUBSET paginas /\ paginas \ paginas' = PaginasDe(t)
    BY <2>1 DEF PaginasDe
  <2>4. \A u \in DOMAIN LfsAlDia : u # t => u \in DOMAIN LfsAlDia' /\ LfsAlDia'[u] = LfsAlDia[u]
    BY <1>7, DropManda
  <2>5. Limpias'
    BY <2>1, <2>2, <2>4 DEF Limpias
  <2>6. Devueltas'
    BY <1>1, <2>1, <2>3, SiguenDevueltas
  <2>7. QED
    BY <2>5, <2>6
<1>8. QED
  BY <1>2, <1>4, <1>5, <1>6, <1>7 DEF Pedir

LEMMA PaginasSeguir ==
    ASSUME Sano, Sano', Viaje, Limpias, Devueltas, NEW h \in Hilos, Seguir(h)
    PROVE  Limpias' /\ Devueltas'
<1>1. /\ \A p \in paginas : p \in Paginas /\ p.frame \in Frames
      /\ memoria \in [Frames -> Filas]
      /\ pc \in [Hilos -> {"reposo", "espera_select", "espera_drop", "responder"}]
      /\ marco \in [Hilos -> Frames] /\ viva \in [Hilos -> BOOLEAN]
  BY SanoFacts DEF Sano, Inv, TypeOK
<1>2. CASE RecibirSelectOk(h)
  <2>1. /\ marco[h] \in Frames /\ marco[h] \notin Marcos(paginas)
    BY <1>2, ReservadoPropio DEF RecibirSelectOk, Sano
  <2> DEFINE q == Pagina(pedido[h].tabla, marco[h], FALSE)
             v == Head(respuesta)
  <2>2. /\ paginas' = paginas \cup {q} /\ LfsAlDia' = LfsAlDia
        /\ memoria' = [memoria EXCEPT ![marco[h]] = Fila(pedido[h].key, v)]
        /\ viva' = [viva EXCEPT ![h] = TRUE] /\ UNCHANGED <<pedido, marco>>
        /\ pc' = [pc EXCEPT ![h] = "responder"]
    BY <1>2 DEF RecibirSelectOk, PaginaNueva, LfsAlDia
  <2>3. /\ q.frame = marco[h] /\ q.segmento = pedido[h].tabla
    BY DEF Pagina
  <2>4. /\ memoria'[marco[h]].key = pedido[h].key /\ memoria'[marco[h]].value = v
    BY <1>1, <2>1, <2>2 DEF Fila
  <2>5. \A p \in paginas : memoria'[p.frame] = memoria[p.frame]
    BY <1>1, <2>1, <2>2 DEF Marcos
  <2>6. /\ canal = <<>> /\ pedido[h].tabla \in DOMAIN lfs
        /\ lfs[pedido[h].tabla][pedido[h].key] = v
    <3>1. pc[h] = "espera_select" /\ respuesta # <<>> /\ v # Nada
      BY <1>2 DEF RecibirSelectOk
    <3>2. PICK w \in Datos \cup {Nada} :
             /\ canal = <<>> /\ respuesta = <<w>>
             /\ w # Nada => /\ pedido[h].tabla \in DOMAIN lfs
                            /\ lfs[pedido[h].tabla][pedido[h].key] = w
      BY <3>1 DEF Viaje, SelectEnCamino
    <3>3. v = w
      BY <3>2
    <3>4. QED
      BY <3>1, <3>2, <3>3
  <2>7. LfsAlDia = lfs
    <3>1. canal \in Seq(Mensajes)
      BY SanoFacts
    <3>2. AlDia(lfs, <<>>) = lfs
      BY <3>1, AlDiaPasos, SanoFacts
    <3>3. QED
      BY <2>6, <3>2, SanoFacts
  <2> HIDE DEF q, v
  <2>8. Limpias'
    BY <2>2, <2>3, <2>4, <2>5, <2>6, <2>7 DEF Limpias
  <2>9. \A g \in Hilos : g # h => pc'[g] = pc[g] /\ viva'[g] = viva[g]
    BY <1>1, <2>2
  <2>10. \E b \in paginas' : /\ b.frame = marco'[h] /\ b.segmento = pedido'[h].tabla
                             /\ memoria'[b.frame].key = pedido'[h].key
    BY <2>2, <2>3, <2>4
  <2>11. Devueltas'
    BY <2>2, <2>5, <2>9, <2>10, DevueltasIguales
  <2>12. QED
    BY <2>8, <2>11
<1>3. CASE RecibirSelectError(h) \/ FinDrop(h) \/ Responder(h)
  <2>1. /\ UNCHANGED <<paginas, memoria, lfs, canal>>
        /\ pc' = [pc EXCEPT ![h] = "reposo"]
        /\ \A g \in Hilos : g # h =>
              viva'[g] = viva[g] /\ marco'[g] = marco[g] /\ pedido'[g] = pedido[g]
    <3>1. CASE RecibirSelectError(h)
      BY <1>1, <3>1 DEF RecibirSelectError, SelectError
    <3>2. CASE FinDrop(h)
      BY <1>1, <3>2 DEF FinDrop, cache
    <3>3. CASE Responder(h)
      BY <1>1, <3>3 DEF Responder, cache, remoto
    <3>4. QED
      BY <1>3, <3>1, <3>2, <3>3
  <2>2. LfsAlDia' = LfsAlDia
    BY <2>1 DEF LfsAlDia
  <2>3. Limpias'
    BY <2>1, <2>2 DEF Limpias
  <2>4. \A g \in Hilos : pc'[g] = "responder" => g # h /\ pc[g] = "responder"
    BY <1>1, <2>1
  <2>5. Devueltas'
    BY <2>1, <2>4, DevueltasIguales
  <2>6. QED
    BY <2>3, <2>5
<1>4. ~SelectSinLfs(h) /\ ~SelectBasura(h)
  BY SanoFacts DEF SelectSinLfs, SelectBasura
<1>5. QED
  BY <1>2, <1>3, <1>4 DEF Seguir

LEMMA PaginasEntorno ==
    ASSUME Sano, Sano', Limpias, Devueltas,
           \/ Journal \/ LfsAtiende \/ Tic \/ ReinicioLfs \/ UNCHANGED vars
           \/ \E t \in Tablas : Create(t)
    PROVE  Limpias' /\ Devueltas'
<1>1. CASE Journal
  <2>1. /\ paginas' = {} /\ Liberar(Marcos(paginas)) /\ UNCHANGED <<pc, marco, pedido>>
    BY <1>1 DEF Journal
  <2>2. Liberar(Marcos(paginas \ {}))
    BY <2>1
  <2>3. Devueltas'
    BY <2>1, <2>2, SiguenDevueltas
  <2>4. QED
    BY <2>1, <2>3 DEF Limpias
<1>2. ASSUME UNCHANGED <<paginas, memoria, pc, viva, marco, pedido>>
      PROVE  Devueltas'
  BY <1>2 DEF Devueltas
<1>3. CASE LfsAtiende
  <2>1. /\ canal # <<>> /\ lfs' = Aplicar(lfs, Head(canal)) /\ canal' = Tail(canal)
        /\ UNCHANGED <<paginas, memoria, pc, viva, marco, pedido>>
    BY <1>3 DEF LfsAtiende, cache, hilos
  <2>2. LfsAlDia' = LfsAlDia
    BY <2>1, AlDiaCabeza, SanoFacts, SanoDespues
  <2>3. QED
    BY <1>2, <2>1, <2>2 DEF Limpias
<1>4. CASE Tic \/ ReinicioLfs \/ UNCHANGED vars
  <2>1. UNCHANGED <<paginas, memoria, pc, viva, marco, pedido, lfs, canal>>
    BY <1>4 DEF Tic, ReinicioLfs, vars, cache, hilos, remoto
  <2>2. LfsAlDia' = LfsAlDia
    BY <2>1 DEF LfsAlDia
  <2>3. QED
    BY <1>2, <2>1, <2>2 DEF Limpias
<1>5. ASSUME NEW t \in Tablas, Create(t)
      PROVE  Limpias' /\ Devueltas'
  <2>1. UNCHANGED <<paginas, memoria, pc, viva, marco, pedido>>
    BY <1>5 DEF Create, cache, hilos
  <2>2. \A u \in DOMAIN LfsAlDia : u \in DOMAIN LfsAlDia' /\ LfsAlDia'[u] = LfsAlDia[u]
    BY <1>5, CreateManda
  <2>3. QED
    BY <1>2, <2>1, <2>2 DEF Limpias
<1>6. QED
  BY <1>1, <1>3, <1>4, <1>5

-----------------------------------------------------------------------------
(* The invariant of the answers *)

InvRespuestas == Sano /\ Viaje /\ Limpias /\ Devueltas

LEMMA RespuestasInductivo ==
    ASSUME InvRespuestas, caidas' = 0, [Next]_vars
    PROVE  InvRespuestas'
<1>1. Sano /\ Sano'
  BY SanoInductivo DEF InvRespuestas
<1>2. Viaje'
  BY <1>1, ViajeInductivo DEF InvRespuestas
<1>3. ~CaidaLfs
  BY <1>1, SanoFacts, SanoDespues DEF CaidaLfs
<1>4. Limpias' /\ Devueltas'
  BY <1>1, <1>3, PaginasPedir, PaginasSeguir, PaginasEntorno DEF Next, InvRespuestas
<1>5. QED
  BY <1>1, <1>2, <1>4 DEF InvRespuestas

\* The row of the page a thread was given, if it is still there, is what a SELECT
\* would find now.
LEMMA LeeLoVigente ==
    ASSUME InvRespuestas, NEW h \in Hilos, Responder(h), viva[h]
    PROVE  salida'[h] = Fila(pedido[h].key, Vigente(pedido[h].tabla, pedido[h].key))
<1> DEFINE t == pedido[h].tabla
           k == pedido[h].key
<1>1. PICK p \in paginas : p.frame = marco[h] /\ p.segmento = t /\ memoria[p.frame].key = k
  BY DEF InvRespuestas, Devueltas, Responder
<1>2. salida'[h] = memoria[p.frame]
  BY <1>1 DEF Responder, InvRespuestas, Sano, Inv, TypeOK
<1>3. memoria[p.frame] = Fila(k, memoria[p.frame].value)
  <2>1. memoria[p.frame] \in Filas
    BY SanoFacts DEF InvRespuestas
  <2>2. QED
    BY <1>1, <2>1 DEF Filas, Fila
<1>4. Unicas(paginas, memoria)
  BY SanoFacts DEF InvRespuestas
<1> HIDE DEF t, k
<1>5. VigenteEn(paginas, memoria, LfsAlDia, t, k) = memoria[p.frame].value
  <2>1. CASE p.modificado
    <3>1. p \in SuciasEn(paginas, memoria, t, k)
      BY <1>1, <2>1 DEF SuciasEn
    <3>2. QED
      BY <1>4, <3>1, VigenteSucia
  <2>2. CASE ~p.modificado
    <3>1. SuciasEn(paginas, memoria, t, k) = {}
      BY <1>1, <1>4, <2>2 DEF SuciasEn, Unicas
    <3>2. t \in DOMAIN LfsAlDia /\ LfsAlDia[t][k] = memoria[p.frame].value
      BY <1>1, <2>2 DEF InvRespuestas, Limpias
    <3>3. QED
      BY <3>1, <3>2, VigenteLimpia
  <2>3. QED
    BY <2>1, <2>2
<1>6. Vigente(t, k) = memoria[p.frame].value
  BY <1>5, VigenteEs
<1>7. QED
  BY <1>2, <1>3, <1>6 DEF t, k

\* Until LFS dies, a SELECT whose page is still there when it is read is answered
\* with the value the key has at that moment.
THEOREM SeRespondeLoVigente == Spec => RespuestaVigente
<1> DEFINE I == Inv /\ (caidas = 0 => InvRespuestas)
           R == \A h \in Hilos :
                   caidas = 0 /\ Responder(h) /\ viva[h] =>
                      salida'[h] = Fila(pedido[h].key,
                                       Vigente(pedido[h].tabla, pedido[h].key))
<1>1. Init => I
  <2> SUFFICES ASSUME Init PROVE I
    OBVIOUS
  <2>1. InvClaves /\ enlace = "abierto"
    BY DEF Init, InvClaves, UnaPagina, NoHallada
  <2>2. Viaje /\ Limpias /\ Devueltas
    BY DEF Init, Viaje, SoloInserts, Limpias, Devueltas
  <2>3. QED
    BY <2>1, <2>2, InitInv DEF Sano, InvRespuestas
<1>2. I /\ [Next]_vars => I'
  BY InvInductivo, RespuestasInductivo, CaidasCrecen
<1>3. I /\ [Next]_vars => [R]_vars
  BY LeeLoVigente
<1> HIDE DEF I, R
<1>4. Spec => [][R]_vars
  BY <1>1, <1>2, <1>3, PTL DEF Spec
<1>5. QED
  BY <1>4 DEF RespuestaVigente, R
=============================================================================
