--------------------------------- MODULE LFS ---------------------------------
(***************************************************************************)
(* The file system LFS (src/LFS/src): the memtable, the temporal files     *)
(* that dump makes of it, the partitions that compaction merges them into, *)
(* and the requests of the memories and of the console.                    *)
(*                                                                         *)
(* operation_mutex serialises the bodies of INSERT, SELECT, DROP, dump and *)
(* compaction.  Outside of it run CREATE, which takes no lock at all, and  *)
(* the checks INSERT, SELECT and DROP begin with, and all of DESCRIBE.  The *)
(* process may stop at any moment, because it is told to exit or because   *)
(* it dereferences NULL, and what the directory of tables holds then is    *)
(* what it starts with.                                                    *)
(*                                                                         *)
(* A file is the list of its rows; its blocks are left out, and finding no *)
(* free block is a choice.  The directory is changed in steps of one       *)
(* function of the code; compaction saves its rows one at a time.          *)
(***************************************************************************)
EXTENDS Registros

CONSTANTS
    Tablas,          \* names of tables
    Clientes,        \* threads of requests: one for each memory, and the console
    Consola,         \* the client that is the console, if it is one of them
    Pedidos,         \* kinds of request the clients make; "INVALIDO" stands for
                     \* those that LFS refuses and that may kill it
    Particiones,     \* numbers of partitions a CREATE asks for
    Existentes,      \* tables that are there when LFS starts for the first time
    MaxInserts,      \* bound: rows inserted
    MaxTemporales,   \* bound: number of a temporal file
    MaxCreates,      \* bound: directories made
    MaxCaidas,       \* bound: times the process stops
    MaxFallas        \* bound: times no block is free or rename fails

\* A file of a table: its extension and its number.
Nombres == {"bin", "tmp", "tmpc"} \X Nat

\* What a compaction keeps: its table, how far it is, the rows it still has to save.
Compactaciones ==
    [tabla : Tablas, fase : {"lee", "limpia", "recrea", "guarda"}, filas : Seq(Filas),
     particiones : Nat]

ASSUME ParticionesAssumption == Particiones # {} /\ Particiones \subseteq Nat
ASSUME ExistentesAssumption == Existentes \subseteq Tablas
ASSUME NadieAssumption ==
    /\ Nada \notin Clientes \cup {"dump", "compactacion"}
    /\ Clientes \cap {"dump", "compactacion"} = {}

ASSUME NadaAssumption == Nada \notin Compactaciones

\* PARTITIONS of a Metadata file that is missing or not flushed yet.
SinMetadata == -1

VARIABLES
    directorio,      \* tables with a directory
    metadata,        \* PARTITIONS of each table
    archivos,        \* files of each table: <<extension, number>> -> rows
    memtable,        \* rows of each table in memory; empty if it has no entry
    table_status,    \* TRUE while compaction blocks the table
    operation_mutex, \* who holds it, or Nada
    est, pedido,     \* where each client is, and with which request
    abierta,         \* the Metadata a CREATE has open is still in its directory
    salida,          \* answer of the last SELECT of each client
    comp,            \* the compaction in progress, or Nada
    hilos,           \* compaction threads of each table
    vivo,            \* the process runs
    inserts, creates, caidas, fallas

disco    == <<directorio, metadata, archivos>>
clientes == <<est, pedido, abierta, salida>>
cotas    == <<inserts, creates, caidas, fallas>>
vars == <<disco, memtable, table_status, operation_mutex, clientes, comp, hilos, vivo,
          cotas>>

-----------------------------------------------------------------------------
(* Files *)

SinArchivos == [n \in {} |-> <<>>]

De(t, extensiones) == {n \in DOMAIN archivos[t] : n[1] \in extensiones}
Temporales(t) == De(t, {"tmp", "tmpc"})

\* obtenerDatos and buffer_to_list_registros of some files, in readdir's order.
Leer(t, nombres) ==
    {FlattenSeq([i \in 1 .. Len(s) |-> archivos[t][s[i]]]) : s \in SetToSeqs(nombres)}

\* get_partition_for_key, for a number of partitions that is not zero.
Particion(t, k) == <<"bin", k % metadata[t]>>

\* The file of a key can be named and opened; otherwise the code divides by zero
\* or reads a t_config that is NULL.
Hallada(t, k) == metadata[t] > 0 /\ Particion(t, k) \in DOMAIN archivos[t]

\* The files of a with others, which replace those of the same name.
ConArchivos(a, otros) ==
    [n \in DOMAIN a \cup DOMAIN otros |-> IF n \in DOMAIN otros THEN otros[n] ELSE a[n]]

\* crearParticiones: a file that is there is truncated.
ConParticiones(t, n) ==
    ConArchivos(archivos[t], [p \in {<<"bin", i>> : i \in 0 .. n - 1} |-> <<>>])

\* Mutant: the first free number, whatever the files that are there.
NuevoTemporalFijo(t) == <<"tmp", 1>>

\* obtenerArchivoTemp: one more than the last .tmp; a .tmpc does not count.
NuevoTemporal(t) == <<"tmp", 1 + Max({0} \cup {n[2] : n \in De(t, {"tmp"})})>>

\* rename of some .tmp: a .tmpc of the same number is replaced.
RenombradosDe(t, M) ==
    ConArchivos([n \in DOMAIN archivos[t] \ M |-> archivos[t][n]],
        [n \in {<<"tmpc", m[2]>> : m \in M} |-> archivos[t][<<"tmp", n[2]>>]])

\* rename_temporal_files
Renombrados(t) == RenombradosDe(t, De(t, {"tmp"}))

-----------------------------------------------------------------------------
\* A file system with some tables, empty, of each number of partitions.
Init ==
    /\ directorio = Existentes
    /\ metadata \in [Tablas -> Particiones \cup {SinMetadata}]
    /\ \A t \in Tablas : metadata[t] = SinMetadata <=> t \notin Existentes
    /\ archivos = [t \in Tablas |->
                     [p \in {<<"bin", i>> : i \in 0 .. metadata[t] - 1} |-> <<>>]]
    /\ memtable = [t \in Tablas |-> <<>>]
    /\ table_status = [t \in Tablas |-> FALSE]
    /\ operation_mutex = Nada
    /\ est = [c \in Clientes |-> "reposo"]
    /\ pedido = [c \in Clientes |-> Nada]
    /\ abierta = [c \in Clientes |-> FALSE]
    /\ salida = [c \in Clientes |-> Nada]
    /\ comp = Nada
    /\ hilos = [t \in Tablas |-> IF t \in Existentes THEN 1 ELSE 0]
    /\ vivo = TRUE
    /\ inserts = 0 /\ creates = 0 /\ caidas = 0 /\ fallas = 0

\* The process stops: everything but the directory of tables is lost.
Morir ==
    /\ vivo' = FALSE
    /\ memtable' = [t \in Tablas |-> <<>>]
    /\ table_status' = [t \in Tablas |-> FALSE]
    /\ operation_mutex' = Nada
    /\ est' = [c \in Clientes |-> "reposo"]
    /\ pedido' = [c \in Clientes |-> Nada]
    /\ abierta' = [c \in Clientes |-> FALSE]
    /\ salida' = [c \in Clientes |-> Nada]
    /\ comp' = Nada
    /\ hilos' = [t \in Tablas |-> 0]

Caida ==
    /\ vivo
    /\ caidas < MaxCaidas
    /\ caidas' = caidas + 1
    /\ Morir
    /\ UNCHANGED <<disco, inserts, creates, fallas>>

\* iniciar_hilos_compactacion: a Metadata that cannot be read kills it again.
Arrancar ==
    /\ ~vivo
    /\ \A t \in directorio : metadata[t] # SinMetadata
    /\ vivo' = TRUE
    /\ hilos' = [t \in Tablas |-> IF t \in directorio THEN 1 ELSE 0]
    /\ UNCHANGED <<disco, memtable, table_status, operation_mutex, clientes, comp, cotas>>

\* No block is free, or a file cannot be renamed, once more.
Falla == fallas < MaxFallas /\ fallas' = fallas + 1

-----------------------------------------------------------------------------
(* INSERT, SELECT and DESCRIBE *)

Ocioso(c) == vivo /\ est[c] = "reposo"

\* The request passed its checks and waits for operation_mutex.
Espera(c, e, p) ==
    /\ est' = [est EXCEPT ![c] = e]
    /\ pedido' = [pedido EXCEPT ![c] = p]

\* The request is freed.
Responde(c) == Espera(c, "reposo", Nada)

\* insert_record before the lock.
InsertMira(c, t, f) ==
    /\ Ocioso(c)
    /\ inserts < MaxInserts
    /\ t \in directorio
    /\ Espera(c, "guarda", [tabla |-> t, fila |-> f])
    /\ inserts' = inserts + 1
    /\ UNCHANGED <<disco, memtable, table_status, operation_mutex, abierta, salida,
                   comp, hilos, vivo, creates, caidas, fallas>>

\* insert_memtable
InsertGuarda(c) ==
    /\ est[c] = "guarda"
    /\ operation_mutex = Nada
    /\ memtable' = [memtable EXCEPT ![pedido[c].tabla] = Append(@, pedido[c].fila)]
    /\ Responde(c)
    /\ UNCHANGED <<disco, table_status, operation_mutex, abierta, salida, comp, hilos,
                   vivo, cotas>>

\* select_table_key before the lock.
SelectMira(c, t, k) ==
    /\ Ocioso(c)
    /\ ~table_status[t]
    /\ t \in directorio
    /\ Espera(c, "lee", [tabla |-> t, key |-> k])
    /\ UNCHANGED <<disco, memtable, table_status, operation_mutex, abierta, salida,
                   comp, hilos, vivo, cotas>>

\* The lists a SELECT may look at: memtable, partition, temporals.
ListasDeSelect(t, k) ==
    {memtable[t] \o archivos[t][Particion(t, k)] \o l : l \in Leer(t, Temporales(t))}

\* A temporal without rows gives list_add_all a NULL list.
Legible(t, k) ==
    Hallada(t, k) /\ \A n \in Temporales(t) : archivos[t][n] # <<>>

SelectLee(c) ==
    LET t == pedido[c].tabla
        k == pedido[c].key
    IN  /\ est[c] = "lee"
        /\ operation_mutex = Nada
        /\ Legible(t, k)
        /\ \E l \in ListasDeSelect(t, k) :
              salida' = [salida EXCEPT ![c] = UltimoValor(l, k)]
        /\ Responde(c)
        /\ UNCHANGED <<disco, memtable, table_status, operation_mutex, abierta, comp,
                       hilos, vivo, cotas>>

SelectMuere(c) ==
    /\ est[c] = "lee"
    /\ operation_mutex = Nada
    /\ ~Legible(pedido[c].tabla, pedido[c].key)
    /\ Morir
    /\ UNCHANGED <<disco, cotas>>

\* procesar_describe of one table, whose access finds it.
DescribeUna(c, t) ==
    /\ Ocioso(c)
    /\ t \in directorio
    /\ Espera(c, "abre", [tabla |-> t, tablas |-> {}])
    /\ UNCHANGED <<disco, memtable, table_status, operation_mutex, abierta, salida,
                   comp, hilos, vivo, cotas>>

\* The names readdir still has to give, or the answer if there are none.
Sigue(c, T) ==
    IF T = {} THEN Responde(c) ELSE Espera(c, "describe", [tablas |-> T])

\* opendir of the directory of tables.
DescribeTodas(c) ==
    /\ Ocioso(c)
    /\ Sigue(c, directorio)
    /\ UNCHANGED <<disco, memtable, table_status, operation_mutex, abierta, salida,
                   comp, hilos, vivo, cotas>>

\* access of the next table: if a DROP removed it meanwhile, NULL is put in the
\* list, and whoever walks the list in the end dereferences it.
DescribeMira(c) ==
    /\ est[c] = "describe"
    /\ \E t \in pedido[c].tablas :
          IF t \in directorio
          THEN Espera(c, "abre", [tabla |-> t, tablas |-> pedido[c].tablas \ {t}])
          ELSE Espera(c, "nulo", Nada)
    /\ UNCHANGED <<disco, memtable, table_status, operation_mutex, abierta, salida,
                   comp, hilos, vivo, cotas>>

\* config_create of its Metadata.
DescribeAbre(c) ==
    /\ est[c] = "abre"
    /\ metadata[pedido[c].tabla] # SinMetadata
    /\ Sigue(c, pedido[c].tablas)
    /\ UNCHANGED <<disco, memtable, table_status, operation_mutex, abierta, salida,
                   comp, hilos, vivo, cotas>>

\* A Metadata that is gone or has no PARTITIONS yet, or a NULL in the list.
DescribeMuere(c) ==
    /\ \/ est[c] = "abre" /\ metadata[pedido[c].tabla] = SinMetadata
       \/ est[c] = "nulo"
    /\ Morir
    /\ UNCHANGED <<disco, cotas>>

\* An INSERT of a memory that LFS refuses, of a table that is missing or of too
\* long a value: what it logs was freed, which shows nothing (Rechaza) or kills.
InsertInvalido(c) ==
    /\ Ocioso(c)
    /\ c # Consola
    /\ Morir
    /\ UNCHANGED <<disco, cotas>>

\* A DESCRIBE of the console of a table that is missing: what it frees is NULL.
DescribeInvalido(c) ==
    /\ Ocioso(c)
    /\ c = Consola
    /\ \E t \in Tablas : t \notin directorio
    /\ Morir
    /\ UNCHANGED <<disco, cotas>>

\* A request that fails its checks and is answered changes nothing.
Rechaza(c) ==
    /\ Ocioso(c)
    /\ \E t \in Tablas :
          \/ t \notin directorio
          \/ "SELECT" \in Pedidos /\ table_status[t]
          \/ "CREATE" \in Pedidos /\ t \in directorio
    /\ UNCHANGED vars

-----------------------------------------------------------------------------
(* DROP and CREATE *)

\* drop_table before the lock.
DropMira(c, t) ==
    /\ Ocioso(c)
    /\ t \in directorio
    /\ Espera(c, "borra", [tabla |-> t])
    /\ UNCHANGED <<disco, memtable, table_status, operation_mutex, abierta, salida,
                   comp, hilos, vivo, cotas>>

\* Mutant: drop_memtable is not called.
DropBorraArchivos(c) ==
    /\ est[c] = "borra"
    /\ operation_mutex = Nada
    /\ operation_mutex' = c
    /\ archivos' = [archivos EXCEPT ![pedido[c].tabla] = SinArchivos]
    /\ est' = [est EXCEPT ![c] = "remove"]
    /\ UNCHANGED <<directorio, metadata, memtable, table_status, pedido, abierta,
                   salida, comp, hilos, vivo, cotas>>

\* drop_memtable and borrar_archivo of every file but Metadata.
DropBorra(c) ==
    /\ est[c] = "borra"
    /\ operation_mutex = Nada
    /\ operation_mutex' = c
    /\ memtable' = [memtable EXCEPT ![pedido[c].tabla] = <<>>]
    /\ archivos' = [archivos EXCEPT ![pedido[c].tabla] = SinArchivos]
    /\ est' = [est EXCEPT ![c] = "remove"]
    /\ UNCHANGED <<directorio, metadata, table_status, pedido, abierta, salida, comp,
                   hilos, vivo, cotas>>

\* A CREATE of the table has the Metadata of its directory open.
SigueAbierta(t) ==
    \E c \in Clientes : est[c] = "cierra" /\ pedido[c].tabla = t /\ abierta[c]

\* remove of Metadata, which takes it from the CREATE that has it open.
DropMetadata(c) ==
    LET t == pedido[c].tabla
    IN  /\ est[c] = "remove"
        /\ metadata' = [metadata EXCEPT ![t] = SinMetadata]
        /\ abierta' = [d \in Clientes |->
                         abierta[d] /\ ~(est[d] = "cierra" /\ pedido[d].tabla = t)]
        /\ est' = [est EXCEPT ![c] = "rmdir"]
        /\ UNCHANGED <<directorio, archivos, memtable, table_status, operation_mutex,
                       pedido, salida, comp, hilos, vivo, cotas>>

\* rmdir, which fails if a CREATE made files meanwhile.
DropTermina(c) ==
    LET t == pedido[c].tabla
        vacio == /\ archivos[t] = SinArchivos
                 /\ metadata[t] = SinMetadata
                 /\ ~SigueAbierta(t)
    IN  /\ est[c] = "rmdir"
        /\ directorio' = IF vacio THEN directorio \ {t} ELSE directorio
        /\ operation_mutex' = Nada
        /\ Responde(c)
        /\ UNCHANGED <<metadata, archivos, memtable, table_status, abierta, salida,
                       comp, hilos, vivo, cotas>>

\* create_table: stat finds no directory.
CreateMira(c, t, n) ==
    /\ Ocioso(c)
    /\ creates < MaxCreates
    /\ t \notin directorio
    /\ Espera(c, "crea", [tabla |-> t, particiones |-> n])
    /\ creates' = creates + 1
    /\ UNCHANGED <<disco, memtable, table_status, operation_mutex, abierta, salida,
                   comp, hilos, vivo, inserts, caidas, fallas>>

\* mkdir, whose failure if another CREATE made it meanwhile is not looked at.
CreateDir(c) ==
    /\ est[c] = "crea"
    /\ directorio' = directorio \cup {pedido[c].tabla}
    /\ est' = [est EXCEPT ![c] = "particiona"]
    /\ UNCHANGED <<metadata, archivos, memtable, table_status, operation_mutex, pedido,
                   abierta, salida, comp, hilos, vivo, cotas>>

\* fopen of Metadata, whose text stays in the buffer of stdio, and
\* crearParticiones.
CreateParticiones(c) ==
    LET t == pedido[c].tabla
    IN  /\ est[c] = "particiona"
        /\ t \in directorio
        /\ archivos' = [archivos EXCEPT ![t] = ConParticiones(t, pedido[c].particiones)]
        /\ abierta' = [abierta EXCEPT ![c] = TRUE]
        /\ est' = [est EXCEPT ![c] = "cierra"]
        /\ UNCHANGED <<directorio, metadata, memtable, table_status, operation_mutex,
                       pedido, salida, comp, hilos, vivo, cotas>>

\* No room for the partitions: the table is dropped.
CreateSinEspacio(c) ==
    /\ est[c] = "particiona"
    /\ pedido[c].tabla \in directorio
    /\ Falla
    /\ est' = [est EXCEPT ![c] = "borra"]
    /\ UNCHANGED <<disco, memtable, table_status, operation_mutex, pedido, abierta,
                   salida, comp, hilos, vivo, inserts, creates, caidas>>

\* A DROP removed the directory: fopen of Metadata fails and CREATE with it, or
\* that of a partition does and fclose is given NULL.
CreateSinDir(c) ==
    /\ est[c] = "particiona"
    /\ pedido[c].tabla \notin directorio
    /\ \/ /\ Responde(c)
          /\ UNCHANGED <<memtable, table_status, operation_mutex, abierta, salida, comp,
                         hilos, vivo>>
       \/ Morir
    /\ UNCHANGED <<disco, cotas>>

\* fclose flushes Metadata, and the thread that compacts the table starts.
CreateTermina(c) ==
    LET t == pedido[c].tabla
    IN  /\ est[c] = "cierra"
        /\ metadata' = IF abierta[c]
                       THEN [metadata EXCEPT ![t] = pedido[c].particiones]
                       ELSE metadata
        /\ abierta' = [abierta EXCEPT ![c] = FALSE]
        /\ table_status' = [table_status EXCEPT ![t] = FALSE]
        /\ hilos' = [hilos EXCEPT ![t] = @ + 1]
        /\ Responde(c)
        /\ UNCHANGED <<directorio, archivos, memtable, operation_mutex, salida, comp,
                       vivo, cotas>>

-----------------------------------------------------------------------------
(* dump *)

DumpEmpieza ==
    /\ vivo
    /\ operation_mutex = Nada
    /\ \E t \in Tablas : memtable[t] # <<>>
    /\ \A t \in Tablas : NuevoTemporal(t)[2] <= MaxTemporales
    /\ operation_mutex' = "dump"
    /\ UNCHANGED <<disco, memtable, table_status, clientes, comp, hilos, vivo, cotas>>

\* Some of n positions, each after the ones before it.
EnOrden(n) ==
    {o \in SetToAllKPermutations(1 .. n) :
        \A i, j \in DOMAIN o : i < j => o[i] < o[j]}

\* dumpear_tablas: the rows for which a block is missing are lost, all of them
\* if it is the first one.
DumpTabla(t) ==
    /\ operation_mutex = "dump"
    /\ memtable[t] # <<>>
    /\ LET n == NuevoTemporal(t)
       IN  \/ /\ t \in directorio
              /\ archivos' = [archivos EXCEPT ![t] = ConArchivos(@, [m \in {n} |-> memtable[t]])]
              /\ fallas' = fallas
           \/ /\ t \in directorio
              /\ Falla
              /\ \E o \in EnOrden(Len(memtable[t])) :
                    archivos' = [archivos EXCEPT ![t] =
                        ConArchivos(@, [m \in {n} |-> [i \in DOMAIN o |-> memtable[t][o[i]]]])]
           \/ Falla /\ archivos' = archivos
    /\ memtable' = [memtable EXCEPT ![t] = <<>>]
    /\ UNCHANGED <<directorio, metadata, table_status, operation_mutex, clientes, comp,
                   hilos, vivo, inserts, creates, caidas>>

\* The rows of a table that was dropped: fopen fails and fclose is given NULL.
DumpMuere(t) ==
    /\ operation_mutex = "dump"
    /\ memtable[t] # <<>>
    /\ t \notin directorio
    /\ Morir
    /\ UNCHANGED <<disco, cotas>>

DumpTermina ==
    /\ operation_mutex = "dump"
    /\ \A t \in Tablas : memtable[t] = <<>>
    /\ operation_mutex' = Nada
    /\ UNCHANGED <<disco, memtable, table_status, clientes, comp, hilos, vivo, cotas>>

-----------------------------------------------------------------------------
(* compactate, by the thread of a table or by the console *)

\* Mutant: the thread also ends when there is nothing to compact.
CompSaleSinNada(t) ==
    /\ hilos[t] > 0
    /\ De(t, {"tmp"}) = {}
    /\ hilos' = [hilos EXCEPT ![t] = @ - 1]
    /\ UNCHANGED <<disco, memtable, table_status, operation_mutex, clientes, comp, vivo,
                   cotas>>

\* The table does not exist any more: the thread ends.
CompSale(t) ==
    /\ hilos[t] > 0
    /\ t \notin directorio
    /\ hilos' = [hilos EXCEPT ![t] = @ - 1]
    /\ UNCHANGED <<disco, memtable, table_status, operation_mutex, clientes, comp, vivo,
                   cotas>>

\* Mutant: the early return keeps the mutex.
CompRenombraSinUnlock(t) ==
    /\ hilos[t] > 0
    /\ operation_mutex = Nada
    /\ operation_mutex' = "compactacion"
    /\ archivos' = [archivos EXCEPT ![t] = Renombrados(t)]
    /\ comp' = IF De(t, {"tmp"}) = {} THEN Nada
               ELSE [tabla |-> t, fase |-> "lee", filas |-> <<>>, particiones |-> 0]
    /\ UNCHANGED <<directorio, metadata, memtable, table_status, clientes, hilos, vivo,
                   cotas>>

\* The thread of a table compacts it, or the console does.
Compactador(t) == hilos[t] > 0 \/ (Consola \in Clientes /\ Ocioso(Consola))

\* Without a .tmp there is nothing to do.
CompRenombra(t) ==
    /\ Compactador(t)
    /\ operation_mutex = Nada
    /\ De(t, {"tmp"}) # {}
    /\ archivos' = [archivos EXCEPT ![t] = Renombrados(t)]
    /\ operation_mutex' = "compactacion"
    /\ comp' = [tabla |-> t, fase |-> "lee", filas |-> <<>>, particiones |-> 0]
    /\ UNCHANGED <<directorio, metadata, memtable, table_status, clientes, hilos, vivo,
                   cotas>>

\* A rename fails: those before it stay done, and compactate gives up.  The
\* thread of the table ends, although the table is there; the console does not.
CompRenombraFalla(t) ==
    /\ operation_mutex = Nada
    /\ Falla
    /\ \E M \in SUBSET De(t, {"tmp"}) :
          M # De(t, {"tmp"}) /\ archivos' = [archivos EXCEPT ![t] = RenombradosDe(t, M)]
    /\ \/ hilos[t] > 0 /\ hilos' = [hilos EXCEPT ![t] = @ - 1]
       \/ Consola \in Clientes /\ Ocioso(Consola) /\ hilos' = hilos
    /\ UNCHANGED <<directorio, metadata, memtable, table_status, operation_mutex,
                   clientes, comp, vivo, inserts, creates, caidas>>

Fase(f) == comp # Nada /\ comp.fase = f

\* Mutant: only the temporals are read.
CompLeeTemporales ==
    /\ Fase("lee")
    /\ \E l \in Leer(comp.tabla, De(comp.tabla, {"tmpc"})) :
          comp' = [comp EXCEPT !.fase = "limpia", !.filas = UltimasFilas(l)]
    /\ UNCHANGED <<disco, memtable, table_status, operation_mutex, clientes, hilos, vivo,
                   cotas>>

\* get_last_rows
CompLee ==
    /\ Fase("lee")
    /\ \E l \in Leer(comp.tabla, De(comp.tabla, {"bin", "tmpc"})) :
          comp' = [comp EXCEPT !.fase = "limpia", !.filas = UltimasFilas(l)]
    /\ UNCHANGED <<disco, memtable, table_status, operation_mutex, clientes, hilos, vivo,
                   cotas>>

\* Mutant: clean_blocks removes only the partitions.
CompLimpiaBin ==
    /\ Fase("limpia")
    /\ table_status' = [table_status EXCEPT ![comp.tabla] = TRUE]
    /\ archivos' = [archivos EXCEPT ![comp.tabla] =
                      [n \in Temporales(comp.tabla) |-> archivos[comp.tabla][n]]]
    /\ comp' = [comp EXCEPT !.fase = "recrea",
                           !.particiones = Cardinality(De(comp.tabla, {"bin"}))]
    /\ UNCHANGED <<directorio, metadata, memtable, operation_mutex, clientes, hilos,
                   vivo, cotas>>

\* block_table and clean_blocks, which counts the partitions it removes.
CompLimpia ==
    /\ Fase("limpia")
    /\ table_status' = [table_status EXCEPT ![comp.tabla] = TRUE]
    /\ archivos' = [archivos EXCEPT ![comp.tabla] = SinArchivos]
    /\ comp' = [comp EXCEPT !.fase = "recrea",
                           !.particiones = Cardinality(De(comp.tabla, {"bin"}))]
    /\ UNCHANGED <<directorio, metadata, memtable, operation_mutex, clientes, hilos,
                   vivo, cotas>>

\* crearParticiones, as many as there were.
CompRecrea ==
    /\ Fase("recrea")
    /\ comp.filas # <<>>
    /\ archivos' = [archivos EXCEPT
                      ![comp.tabla] = ConParticiones(comp.tabla, comp.particiones)]
    /\ comp' = [comp EXCEPT !.fase = "guarda"]
    /\ UNCHANGED <<directorio, metadata, memtable, table_status, operation_mutex,
                   clientes, hilos, vivo, cotas>>

\* Mutant: every row goes to the first partition.
DestinoFijo(t, k) == <<"bin", 0>>

\* get_partition_for_key, when the row is saved.
Destino(t, k) == Particion(t, k)

\* guardarDatos of the next row, or no block for it.
CompGuarda ==
    LET t == comp.tabla
        f == Head(comp.filas)
    IN  /\ Fase("guarda")
        /\ comp.filas # <<>>
        /\ Hallada(t, f.key)
        /\ \/ /\ archivos' = [archivos EXCEPT ![t][Destino(t, f.key)] = Append(@, f)]
              /\ fallas' = fallas
           \/ Falla /\ archivos' = archivos
        /\ comp' = [comp EXCEPT !.filas = Tail(@)]
        /\ UNCHANGED <<directorio, metadata, memtable, table_status, operation_mutex,
                       clientes, hilos, vivo, inserts, creates, caidas>>

\* get_last_rows found no row and returned NULL; no block for the partitions; or
\* a row whose partition does not exist.
CompMuere ==
    /\ \/ /\ Fase("recrea")
          /\ comp.filas = <<>>
          /\ archivos' = [archivos EXCEPT
                            ![comp.tabla] = ConParticiones(comp.tabla, comp.particiones)]
          /\ fallas' = fallas
       \/ /\ Fase("recrea") /\ Falla /\ archivos' = archivos
       \/ /\ Fase("guarda")
          /\ comp.filas # <<>>
          /\ ~Hallada(comp.tabla, Head(comp.filas).key)
          /\ archivos' = archivos /\ fallas' = fallas
    /\ Morir
    /\ UNCHANGED <<directorio, metadata, inserts, creates, caidas>>

\* unblock_table and the release of the mutex.
CompTermina ==
    /\ Fase("guarda")
    /\ comp.filas = <<>>
    /\ table_status' = [table_status EXCEPT ![comp.tabla] = FALSE]
    /\ comp' = Nada
    /\ operation_mutex' = Nada
    /\ UNCHANGED <<disco, memtable, clientes, hilos, vivo, cotas>>

-----------------------------------------------------------------------------
Pedir(c) ==
    \/ Rechaza(c)
    \/ \E t \in Tablas :
          \/ "INSERT" \in Pedidos /\ \E f \in Filas : InsertMira(c, t, f)
          \/ "SELECT" \in Pedidos /\ \E k \in Claves : SelectMira(c, t, k)
          \/ "DESCRIBE" \in Pedidos /\ DescribeUna(c, t)
          \/ "DROP" \in Pedidos /\ DropMira(c, t)
          \/ "CREATE" \in Pedidos /\ \E n \in Particiones : CreateMira(c, t, n)
    \/ "DESCRIBE" \in Pedidos /\ DescribeTodas(c)
    \/ {"INSERT", "INVALIDO"} \subseteq Pedidos /\ InsertInvalido(c)
    \/ {"DESCRIBE", "INVALIDO"} \subseteq Pedidos /\ DescribeInvalido(c)

Seguir(c) ==
    \/ InsertGuarda(c)
    \/ SelectLee(c)
    \/ SelectMuere(c)
    \/ DescribeMira(c)
    \/ DescribeAbre(c)
    \/ DescribeMuere(c)
    \/ DropBorra(c)
    \/ DropMetadata(c)
    \/ DropTermina(c)
    \/ CreateDir(c)
    \/ CreateParticiones(c)
    \/ CreateSinEspacio(c)
    \/ CreateSinDir(c)
    \/ CreateTermina(c)

Dump ==
    \/ DumpEmpieza
    \/ \E t \in Tablas : DumpTabla(t) \/ DumpMuere(t)
    \/ DumpTermina

Compactar ==
    \/ \E t \in Tablas : CompSale(t) \/ CompRenombra(t) \/ CompRenombraFalla(t)
    \/ CompLee
    \/ CompLimpia
    \/ CompRecrea
    \/ CompGuarda
    \/ CompMuere
    \/ CompTermina

Next ==
    \/ \E c \in Clientes : Pedir(c) \/ Seguir(c)
    \/ Dump
    \/ Compactar
    \/ Caida
    \/ Arrancar

Spec == Init /\ [][Next]_vars

\* The threads of LFS run: who waits for the mutex or holds it goes on when it
\* can, dump and compaction come back after their sleep.
FairSpec ==
    /\ Spec
    /\ \A c \in Clientes : WF_vars(Seguir(c))
    /\ WF_vars(Dump)
    /\ WF_vars(Compactar)

-----------------------------------------------------------------------------
(* Properties *)

\* A thread compacts the table, if it is one LFS runs with.
ConHilo(t) == vivo /\ t \in directorio /\ metadata[t] # SinMetadata => hilos[t] >= 1

\* A table loses its last compaction thread only when a rename fails under it:
\* neither a compaction that finds nothing to do, nor a table that is dropped and
\* created again while its old thread sleeps, nor a stop leaves it without one.
HiloPorTabla ==
    [][\A t \in Tablas : ConHilo(t) => ConHilo(t)' \/ CompRenombraFalla(t)]_vars

\* Without stops and failing renames, between two compactions there is no .tmpc
\* and no blocked table.
SinRestos ==
    \A t \in Tablas :
        De(t, {"tmpc"}) # {} \/ table_status[t] => comp # Nada /\ comp.tabla = t

\* With one client, whose requests are of tables that are there, nothing that
\* dump, compaction and its own DROP, CREATE and DESCRIBE do makes LFS dereference
\* NULL: no row is left of a table that was dropped, every partition is found,
\* every Metadata it opens can be read, and no temporal is empty.
SiempreVivo == vivo

\* The mutex is never kept for ever: every path of compactate, of drop_table and
\* of dumpear_tablas_memtable gives it back.
MutexSeLibera == []<>(operation_mutex = Nada)
=============================================================================
