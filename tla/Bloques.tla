------------------------------- MODULE Bloques -------------------------------
(***************************************************************************)
(* The blocks of the file system (src/LFS/src/filesystem.c): the bitmap    *)
(* that says which are taken, and the files, which list theirs.            *)
(*                                                                         *)
(* A file is made with one block, grows as rows are saved in it and gives  *)
(* its blocks back when it is removed.  Dump, compaction and DROP do that  *)
(* under operation_mutex, one call after another: they are one thread,     *)
(* `serie', that calls in any order.  A CREATE holds no mutex.             *)
(*                                                                         *)
(* The bitmap is bytes of memory that several threads change: setting or   *)
(* clearing a bit loads its byte and stores it, after the test of the bit. *)
(* That is a data race, and a store may undo what another thread did       *)
(* since the load.  `dudosos' are the blocks this happened to.             *)
(*                                                                         *)
(* Bytes are numbered as they are saved, so that no two are alike.  Bitmap *)
(* and files outlive the process (the bitmap is mapped from its file);     *)
(* saving a file of configuration is one step.                             *)
(***************************************************************************)
EXTENDS Integers, FiniteSets, SequencesExt

CONSTANTS
    BLOCKS,           \* number of blocks
    BLOCK_SIZE,       \* bytes in a block
    BitsPorByte,      \* bits of the bitmap that are stored together
    Nombres,          \* names of files
    Creadores,        \* threads that execute a CREATE
    MaxParticiones,   \* bound: files made by one call
    Largos,           \* lengths of rows
    MaxGuardados,     \* bound: rows saved
    MaxCreates,       \* bound: calls that make files
    MaxCaidas         \* bound: times the process stops

ASSUME BlocksAssumption == BLOCKS \in Nat \ {0} /\ BLOCK_SIZE \in Nat \ {0}
ASSUME BitsAssumption == BitsPorByte \in Nat \ {0}
ASSUME LargosAssumption == Largos \subseteq Nat \ {0}
ASSUME NombresAssumption == IsFiniteSet(Nombres)
ASSUME SerieAssumption == "serie" \notin Creadores

Numeros == 0 .. BLOCKS - 1
Hilos   == Creadores \cup {"serie"}

VARIABLES
    bitmap,       \* the blocks whose bit is set
    archivos,     \* TAMANIO and BLOQUES of each file that exists
    contenido,    \* the bytes of each block
    est,          \* where each thread is
    tarea,        \* the call it executes
    actual,       \* the bit it looks at
    leido,        \* the byte of the bitmap it loaded
    tomados,      \* the blocks it reserved, or those it has yet to clean
    guardado,     \* history: the bytes saved in each file
    dudosos,      \* history: blocks whose bit two threads changed at once, or
                  \* that were cleaned for a file that could not be removed
    fugados,      \* history: blocks that were taken and listed in no file
    bytes, guardados, creates, caidas

disco  == <<bitmap, archivos, contenido>>
hilos  == <<est, tarea, actual, leido, tomados>>
cotas  == <<bytes, guardados, creates, caidas>>
vars == <<disco, hilos, guardado, dudosos, fugados, cotas>>

Libre     == [de |-> "nada"]
Crear(S)  == [de |-> "crear", nombres |-> S]
Borrar(n) == [de |-> "borrar", archivo |-> n]

-----------------------------------------------------------------------------
DeArchivo(n) == ToSet(archivos[n].bloques)
Borrado(n)   == \E h \in Hilos : tarea[h] = Borrar(n)

\* The blocks a thread took and that are in no file yet.
Reservados(h) == IF tarea[h].de \in {"crear", "guardar"} THEN ToSet(tomados[h]) ELSE {}

\* The blocks of the file that h removes whose bits it cleaned.
Limpiados(h) ==
    IF tarea[h].de = "borrar"
    THEN DeArchivo(tarea[h].archivo) \ ToSet(tomados[h])
    ELSE {}

\* Names that a call is about to make.
Pedidos == UNION {tarea[h].nombres : h \in {g \in Hilos : tarea[g].de = "crear"}}

\* The bits that are loaded and stored with the one of b.
Byte(b) == {c \in Numeros : c \div BitsPorByte = b \div BitsPorByte}

\* obtenerDatos: of the last block only what TAMANIO leaves.
Obtener(n) ==
    LET a        == archivos[n]
        De(k)    == Min({BLOCK_SIZE, a.tamanio - (k - 1) * BLOCK_SIZE})
        cantidad == (a.tamanio + BLOCK_SIZE - 1) \div BLOCK_SIZE
    IN  FlattenSeq([k \in 1 .. cantidad |-> SubSeq(contenido[a.bloques[k]], 1, De(k))])

-----------------------------------------------------------------------------
\* A new file system, with its bitmap in zeros (iniciar_bitmap).
Init ==
    /\ bitmap = {}
    /\ archivos = [n \in {} |-> Libre]
    /\ contenido = [b \in Numeros |-> [o \in 1 .. BLOCK_SIZE |-> 0]]
    /\ est = [h \in Hilos |-> "libre"]
    /\ tarea = [h \in Hilos |-> Libre]
    /\ actual = [h \in Hilos |-> 0]
    /\ leido = [h \in Hilos |-> {}]
    /\ tomados = [h \in Hilos |-> <<>>]
    /\ guardado = [n \in {} |-> <<>>]
    /\ dudosos = {} /\ fugados = {}
    /\ bytes = 0 /\ guardados = 0 /\ creates = 0 /\ caidas = 0

\* The call of h ends.
Termina(h) ==
    /\ est' = [est EXCEPT ![h] = "libre"]
    /\ tarea' = [tarea EXCEPT ![h] = Libre]
    /\ actual' = [actual EXCEPT ![h] = 0]
    /\ leido' = [leido EXCEPT ![h] = {}]
    /\ tomados' = [tomados EXCEPT ![h] = <<>>]

\* h starts a call, at e.
Empieza(h, e, t, pendientes) ==
    /\ est[h] = "libre"
    /\ est' = [est EXCEPT ![h] = e]
    /\ tarea' = [tarea EXCEPT ![h] = t]
    /\ tomados' = [tomados EXCEPT ![h] = pendientes]
    /\ UNCHANGED <<actual, leido>>

-----------------------------------------------------------------------------
(* Looking for free blocks *)

\* crearParticiones, and crearTemporal, which makes one file.  A CREATE is in
\* a directory that was not there, a dump and a compaction use new names.
LlamaCrear(h) ==
    /\ creates < MaxCreates
    /\ creates' = creates + 1
    /\ \E S \in SUBSET (Nombres \ (DOMAIN archivos \cup Pedidos)) :
          /\ Cardinality(S) \in 1 .. MaxParticiones
          /\ Empieza(h, "busca", Crear(S), <<>>)
    /\ UNCHANGED <<disco, guardado, dudosos, fugados, bytes, guardados, caidas>>

\* The bit is set: the next one.
Ocupado(h) ==
    /\ est[h] = "busca"
    /\ actual[h] < BLOCKS
    /\ actual[h] \in bitmap
    /\ actual' = [actual EXCEPT ![h] = @ + 1]
    /\ UNCHANGED <<disco, est, tarea, leido, tomados, guardado, dudosos, fugados, cotas>>

\* Mutant: one past the last.
HalladoDeMas(h) ==
    /\ est[h] = "busca"
    /\ actual[h] <= BLOCKS
    /\ actual[h] \notin bitmap
    /\ est' = [est EXCEPT ![h] = "carga"]
    /\ UNCHANGED <<disco, tarea, actual, leido, tomados, guardado, dudosos, fugados, cotas>>

\* The bit is clear.
Hallado(h) ==
    /\ est[h] = "busca"
    /\ actual[h] < BLOCKS
    /\ actual[h] \notin bitmap
    /\ est' = [est EXCEPT ![h] = "carga"]
    /\ UNCHANGED <<disco, tarea, actual, leido, tomados, guardado, dudosos, fugados, cotas>>

\* Mutant: as many bits are cleaned, from the first one.
SinLugarLimpiaPorIndice(h) ==
    /\ est[h] = "busca"
    /\ actual[h] = BLOCKS
    /\ tarea[h].de = "crear"
    /\ est' = [est EXCEPT ![h] = "limpia"]
    /\ tomados' = [tomados EXCEPT ![h] = [i \in 1 .. Len(@) |-> i - 1]]
    /\ UNCHANGED <<disco, tarea, actual, leido, guardado, dudosos, fugados, cotas>>

\* crearParticiones does not find enough: what it reserved is cleaned again.
SinLugarParaCrear(h) ==
    /\ est[h] = "busca"
    /\ actual[h] = BLOCKS
    /\ tarea[h].de = "crear"
    /\ est' = [est EXCEPT ![h] = "limpia"]
    /\ UNCHANGED <<disco, tarea, actual, leido, tomados, guardado, dudosos, fugados, cotas>>

\* guardarDatos returns as it is: its file is not saved and its blocks stay taken.
SinLugarParaGuardar(h) ==
    /\ est[h] = "busca"
    /\ actual[h] = BLOCKS
    /\ tarea[h].de = "guardar"
    /\ fugados' = fugados \cup ToSet(tomados[h])
    /\ Termina(h)
    /\ UNCHANGED <<disco, guardado, dudosos, cotas>>

-----------------------------------------------------------------------------
(* Setting and clearing a bit *)

CargaPara(h, e, f, b) ==
    /\ est[h] = e
    /\ leido' = [leido EXCEPT ![h] = bitmap \cap Byte(b)]
    /\ est' = [est EXCEPT ![h] = f]
    /\ UNCHANGED <<disco, tarea, actual, tomados, guardado, dudosos, fugados, cotas>>

\* bitarray_set_bit and bitarray_clean_bit load the byte.
CargaParaTomar(h)   == CargaPara(h, "carga", "toma", actual[h])
CargaParaLimpiar(h) == tomados[h] # <<>> /\ CargaPara(h, "limpia", "suelta", Head(tomados[h]))

\* The byte of b is stored, with the bits that h loaded except for b's own.
Graba(h, b, conB) ==
    /\ bitmap' = (bitmap \ Byte(b)) \cup (leido[h] \ {b}) \cup conB
    /\ leido' = [leido EXCEPT ![h] = {}]

\* The bits of the byte that changed since h loaded it, b's own apart.
Deshechos(h, b) ==
    {c \in Byte(b) \ {b} : ~(c \in bitmap <=> c \in leido[h])}

Toma(h) ==
    LET b == actual[h]
    IN  /\ est[h] = "toma"
        /\ Graba(h, b, {b})
        /\ dudosos' = dudosos \cup Deshechos(h, b) \cup (bitmap \cap {b})
        /\ tomados' = [tomados EXCEPT ![h] = Append(@, b)]
        /\ \/ /\ tarea[h].de = "crear"
              /\ Len(tomados[h]) + 1 < Cardinality(tarea[h].nombres)
              /\ est' = [est EXCEPT ![h] = "busca"]
              /\ actual' = [actual EXCEPT ![h] = b + 1]
           \/ /\ tarea[h].de = "crear"
              /\ Len(tomados[h]) + 1 >= Cardinality(tarea[h].nombres)
              /\ est' = [est EXCEPT ![h] = "crea"]
              /\ actual' = [actual EXCEPT ![h] = 0]
           \/ /\ tarea[h].de = "guardar"
              /\ est' = [est EXCEPT ![h] = "escribe"]
              /\ actual' = [actual EXCEPT ![h] = 0]
        /\ UNCHANGED <<archivos, contenido, tarea, guardado, fugados, cotas>>

Suelta(h) ==
    LET b == Head(tomados[h])
    IN  /\ est[h] = "suelta"
        /\ Graba(h, b, {})
        /\ dudosos' = dudosos \cup Deshechos(h, b)
        /\ tomados' = [tomados EXCEPT ![h] = Tail(@)]
        /\ est' = [est EXCEPT ![h] = "limpia"]
        /\ UNCHANGED <<archivos, contenido, tarea, actual, guardado, fugados, cotas>>

-----------------------------------------------------------------------------
(* The calls *)

\* One of the files of crearParticiones, with the next block.
CreaArchivo(h) ==
    /\ est[h] = "crea"
    /\ \E n \in tarea[h].nombres :
          /\ archivos' = [m \in DOMAIN archivos \cup {n} |->
                             IF m = n
                             THEN [tamanio |-> 0, bloques |-> <<Head(tomados[h])>>]
                             ELSE archivos[m]]
          /\ guardado' = [m \in DOMAIN guardado \cup {n} |->
                             IF m = n THEN <<>> ELSE guardado[m]]
          /\ \/ /\ tarea[h].nombres # {n}
                /\ tarea' = [tarea EXCEPT ![h] = Crear(tarea[h].nombres \ {n})]
                /\ tomados' = [tomados EXCEPT ![h] = Tail(@)]
                /\ UNCHANGED <<est, actual, leido>>
             \/ /\ tarea[h].nombres = {n}
                /\ Termina(h)
    /\ UNCHANGED <<bitmap, contenido, dudosos, fugados, cotas>>

\* Mutant: all blocks but the first are given back.
LlamaBorrarMenosUno ==
    /\ \E n \in DOMAIN archivos :
          Empieza("serie", "limpia", Borrar(n), Tail(archivos[n].bloques))
    /\ UNCHANGED <<disco, guardado, dudosos, fugados, cotas>>

\* borrar_archivo reads BLOQUES, cleans their bits ...
LlamaBorrar ==
    /\ \E n \in DOMAIN archivos :
          Empieza("serie", "limpia", Borrar(n), archivos[n].bloques)
    /\ UNCHANGED <<disco, guardado, dudosos, fugados, cotas>>

\* ... and removes the file.  crearParticiones has cleaned what it took.
TerminaDeLimpiar(h) ==
    /\ est[h] = "limpia"
    /\ tomados[h] = <<>>
    /\ LET quedan == IF tarea[h].de = "borrar"
                     THEN DOMAIN archivos \ {tarea[h].archivo}
                     ELSE DOMAIN archivos
       IN  /\ archivos' = [m \in quedan |-> archivos[m]]
           /\ guardado' = [m \in quedan |-> guardado[m]]
    /\ Termina(h)
    /\ UNCHANGED <<bitmap, contenido, dudosos, fugados, cotas>>

\* guardarDatos, with a row of some length.
LlamaGuardar ==
    /\ guardados < MaxGuardados
    /\ guardados' = guardados + 1
    /\ \E n \in DOMAIN archivos, largo \in Largos :
          /\ bytes' = bytes + largo
          /\ Empieza("serie", "escribe",
                     [de |-> "guardar", archivo |-> n,
                      nuevos |-> [o \in 1 .. largo |-> bytes + o], escritos |-> 0], <<>>)
    /\ UNCHANGED <<disco, guardado, dudosos, fugados, creates, caidas>>

\* BLOQUES and TAMANIO as guardarDatos has them, to be saved at its end.
BloquesDe(t) == archivos[t.archivo].bloques \o tomados["serie"]
TamanioDe(t) == archivos[t.archivo].tamanio + t.escritos

\* The next block of the file is not there yet: _obtener_bloque.
PideBloque ==
    LET t == tarea["serie"]
    IN  /\ est["serie"] = "escribe"
        /\ t.escritos < Len(t.nuevos)
        /\ TamanioDe(t) \div BLOCK_SIZE >= Len(BloquesDe(t))
        /\ est' = [est EXCEPT !["serie"] = "busca"]
        /\ UNCHANGED <<disco, tarea, actual, leido, tomados, guardado, dudosos, fugados,
                       cotas>>

\* _escribir_bloque: as many bytes as fit in the block where the file ends.
EscribeDesde(offset) ==
    LET t    == tarea["serie"]
        k    == TamanioDe(t) \div BLOCK_SIZE
        b    == BloquesDe(t)[k + 1]
        cant == Min({BLOCK_SIZE - offset, Len(t.nuevos) - t.escritos})
    IN  /\ est["serie"] = "escribe"
        /\ t.escritos < Len(t.nuevos)
        /\ k < Len(BloquesDe(t))
        /\ contenido' = [contenido EXCEPT ![b] =
                            [o \in 1 .. BLOCK_SIZE |->
                                IF o \in offset + 1 .. offset + cant
                                THEN t.nuevos[t.escritos + o - offset]
                                ELSE contenido[b][o]]]
        /\ tarea' = [tarea EXCEPT !["serie"].escritos = @ + cant]
        /\ UNCHANGED <<bitmap, archivos, est, actual, leido, tomados, guardado, dudosos,
                       fugados, cotas>>

\* Mutant: always from the start of the block.
EscribeDeCero == EscribeDesde(0)

Escribe == EscribeDesde(TamanioDe(tarea["serie"]) % BLOCK_SIZE)

\* All is written: BLOQUES and TAMANIO are saved.
GuardaConfig ==
    LET t == tarea["serie"]
    IN  /\ est["serie"] = "escribe"
        /\ t.escritos = Len(t.nuevos)
        /\ archivos' = [archivos EXCEPT ![t.archivo] =
                           [tamanio |-> TamanioDe(t), bloques |-> BloquesDe(t)]]
        /\ guardado' = [guardado EXCEPT ![t.archivo] = @ \o t.nuevos]
        /\ Termina("serie")
        /\ UNCHANGED <<bitmap, contenido, dudosos, fugados, cotas>>

-----------------------------------------------------------------------------
\* The process stops, and starts with the files and the bitmap as they are.
Caida ==
    /\ caidas < MaxCaidas
    /\ caidas' = caidas + 1
    /\ fugados' = fugados \cup UNION {Reservados(h) : h \in Hilos}
    /\ dudosos' = dudosos \cup UNION {Limpiados(h) : h \in Hilos}
    /\ est' = [h \in Hilos |-> "libre"]
    /\ tarea' = [h \in Hilos |-> Libre]
    /\ actual' = [h \in Hilos |-> 0]
    /\ leido' = [h \in Hilos |-> {}]
    /\ tomados' = [h \in Hilos |-> <<>>]
    /\ UNCHANGED <<disco, guardado, bytes, guardados, creates>>

Next ==
    \/ \E h \in Hilos : \/ LlamaCrear(h)
                        \/ Ocupado(h) \/ Hallado(h)
                        \/ SinLugarParaCrear(h) \/ SinLugarParaGuardar(h)
                        \/ CargaParaTomar(h) \/ Toma(h)
                        \/ CargaParaLimpiar(h) \/ Suelta(h) \/ TerminaDeLimpiar(h)
                        \/ CreaArchivo(h)
    \/ LlamaBorrar
    \/ LlamaGuardar \/ PideBloque \/ Escribe \/ GuardaConfig
    \/ Caida

Spec == Init /\ [][Next]_vars

-----------------------------------------------------------------------------
Archivo == [tamanio : Nat, bloques : Seq(Numeros)]
Tareas ==
    {Libre}
    \cup {Crear(S) : S \in (SUBSET Nombres) \ {{}}}
    \cup {Borrar(n) : n \in Nombres}
    \cup [de : {"guardar"}, archivo : Nombres, nuevos : Seq(Nat), escritos : Nat]

\* The types of the variables; what a thread does agrees with where it is, and
\* a file it writes or removes is there (filesystem.c:191-585).
TypeOK ==
    /\ bitmap \subseteq Numeros
    /\ DOMAIN archivos \subseteq Nombres
    /\ \A n \in DOMAIN archivos : archivos[n] \in Archivo
    /\ contenido \in [Numeros -> [1 .. BLOCK_SIZE -> Nat]]
    /\ est \in [Hilos -> {"libre", "busca", "carga", "toma", "crea", "escribe", "limpia",
                          "suelta"}]
    /\ tarea \in [Hilos -> Tareas]
    /\ actual \in [Hilos -> 0 .. BLOCKS]
    /\ leido \in [Hilos -> SUBSET Numeros]
    /\ tomados \in [Hilos -> Seq(Numeros)]
    /\ DOMAIN guardado = DOMAIN archivos
    /\ \A n \in DOMAIN guardado : guardado[n] \in Seq(Nat)
    /\ dudosos \subseteq Numeros /\ fugados \subseteq Numeros
    /\ bytes \in Nat /\ guardados \in Nat /\ creates \in Nat /\ caidas \in Nat
    /\ \A h \in Hilos : tarea[h].de \in {"borrar", "guardar"} =>
          h = "serie" /\ tarea[h].archivo \in DOMAIN archivos

\* A block is of one file, or of one call that has just taken it, unless two
\* threads changed bits of one byte at once or the process stopped while the
\* file was removed (filesystem.c:281, 355 and 503-517, without a common mutex).
Exclusivos ==
    /\ \A m, n \in DOMAIN archivos :
          m # n /\ ~Borrado(m) /\ ~Borrado(n) =>
             DeArchivo(m) \cap DeArchivo(n) \subseteq dudosos
    /\ \A g, h \in Hilos : g # h => Reservados(g) \cap Reservados(h) \subseteq dudosos
    /\ \A n \in DOMAIN archivos, h \in Hilos :
          ~Borrado(n) => DeArchivo(n) \cap Reservados(h) \subseteq dudosos

\* A block whose bit is set is in a file or was taken by a call that has not
\* ended: but for a guardarDatos that found no room, a stop or two threads at
\* once, no block is lost (filesystem.c:191-215, 288-296 and 553-562).
SinFugas ==
    bitmap \ (dudosos \cup fugados) \subseteq
       (UNION {DeArchivo(n) : n \in DOMAIN archivos})
          \cup (UNION {Reservados(h) : h \in Hilos})

\* What is read from a file is what was saved in it, across blocks, after rows
\* that did not fit and after a stop, as long as its blocks are its own
\* (filesystem.c:393-585).
SeLeeLoGuardado ==
    \A n \in DOMAIN archivos :
       ~Borrado(n) /\ DeArchivo(n) \cap dudosos = {} => Obtener(n) = guardado[n]
=============================================================================
