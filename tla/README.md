# Verification of RYZEN (Lissandra) in TLA+

RYZEN is a distributed key-value store in C, made of three programs that talk over
TCP. A **KERNEL** plans scripts of requests and sends each line to one of several
**MEMORIA** processes; a MEMORIA is a page cache in front of the file system **LFS**,
which keeps tables in a memtable, temporal files and partitions, and compacts them.

This directory holds TLA+ modules translated from that code, the configurations with
which TLC checks them on small instances, and proofs checked by TLAPS for every value of
the constants. `PROJECT.json` is the index: components, runs, mutants, the lines of the
source that each definition stands for, hazards, findings and theorems.

    tlc -workers 2 -config MemoriaMarcos.cfg MCMemoria     # a run
    tlapm MemoriaProofs.tla                                # the proofs of a module

## 1. The system

### MEMORIA (`src/MEMORIA/src`)

| | |
|---|---|
| State | `tabla_segmentos` (segments of pages), a contiguous memory of `cantidad_frames` frames, `bitmap_frames` and `frames_ocupados`, one socket to LFS, `tabla_memorias` for gossiping |
| Threads | one for each connection, the console, the timed journal, gossiping, inotify |
| Operations | SELECT (hit, or fetched from LFS), INSERT (a page in memory only), DROP, CREATE, DESCRIBE, JOURNAL (send every dirty page to LFS and free everything) |
| Hard | the mutex is held while waiting for LFS and is released before the page of a SELECT is read; replacement falls back to a journal; LFS may die at any moment; two pieces of bookkeeping, the bitmap and the counter, have to agree |
| Correct if | no two pages share a frame, none leaks, one page per key, no value is dropped before it is sent, SELECT answers the current value of its key, the mutex is given back; memories that know each other come to know the same memories, each once and at its address |

### KERNEL (`src/KERNEL/src`)

| | |
|---|---|
| State | lists of PCBs with `sem_cantidad_listos`, the pool `l_memorias`, the lists of the criteria SC, SHC and EC, the metadata of tables `l_tablas`, `QUANTUM` |
| Threads | the console, `MULTIPROCESAMIENTO` processors, describe, gossiping, inotify |
| Operations | RUN and single requests (a PCB each), ADD, JOURNAL, METRICS, EXIT; for each line the choice of a memory, and its deactivation when it fails |
| Hard | PCBs cross queue, semaphore and processors; the configuration changes under a script; memories fail between being chosen and being used; deactivation and journal call each other under a mutex that is not recursive |
| Correct if | no PCB is lost or run twice, every line runs once in order as far as the reading of empty lines allows, every request ends unless QUANTUM or a line prevents it, criteria hold only memories that are active, the memories of SHC are told to journal whenever keys are shared out again, a table is known if and only if LFS has it, wherever that can be promised |

### LFS (`src/LFS/src`)

| | |
|---|---|
| State | the directory of tables (Metadata, `N.bin`, `N.tmp`, `N.tmpc`), blocks and bitmap, the memtable, `table_status`, `operation_mutex` |
| Threads | one for each connection, the console, dump, one compaction for each table, inotify |
| Operations | INSERT, SELECT, CREATE, DROP, DESCRIBE, dump, compaction, start |
| Hard | the checks of requests run before they lock, CREATE and DESCRIBE never lock, some refused requests read or free what is not there, a row moves through memtable, `.tmp`, `.tmpc`, the memory of a compaction and `.bin`, the process may stop between any two of those, blocks run out |
| Correct if | SELECT answers the row of the latest timestamp wherever it is, what a dump saved is lost only where it must be, no table is left without compaction but by a rename that fails, compaction changes no value, a block is of one file and is given back |

### Shared code (`src/shared`)

Serialisation, sockets, string utilities: stateless. The models of the callers contain
what a failure of a socket does to them.

Messages go KERNEL → MEMORIA → LFS, each request on a connection where the answer is
waited for, except JOURNAL, which the kernel sends without waiting, and the INSERTs that
a journal sends to LFS, which have no answer. Memories and kernel also gossip the list
of known memories.

## 2. Modules

| module | models |
|---|---|
| `Memoria` | the page cache of a memory and its socket to LFS |
| `Almacen` | abstract: one map from tables and keys to values |
| `MemoriaAlmacen` | `Memoria` implements `Almacen`; properties of the answers |
| `Planificador` | the planner of the kernel |
| `Criterios` | pool of memories, criteria, journals and deactivation in the kernel |
| `Registros` | lists of rows: last row of a key, the loop of compaction |
| `Compactado` | that loop, turn by turn, on any list |
| `LFS` | the file system |
| `UltimoGana` | abstract: a register for each key in which the latest timestamp wins |
| `LFSRegistro` | `LFS` implements `UltimoGana`; answers of SELECT, what a stop may lose |
| `Gossip` | gossiping between memories, and what the kernel learns from it |
| `Metadatos` | `l_tablas` of the kernel against the tables LFS has |
| `Bloques` | blocks, bitmap and `TAMANIO` under the files of LFS |
| `MC*` | model values and symmetry for the runs |
| `*Proofs` | theorems: `MemoriaProofs`, `PlanificadorProofs`, `CriteriosProofs`, `LFSProofs` (also of `Registros`, `Compactado` and `LFSRegistro`), `GossipProofs`, `MetadatosProofs`, `BloquesProofs`; `ListasProofs` holds what they need about lists |

Definitions whose comment starts with *Mutant* are plausible bugs of that definition;
they are not part of any specification. `PROJECT.json` says which property each breaks.

### Memoria

A thread's request runs under `mutex`, so it is one step unless the thread waits for
LFS (`espera_select`, `espera_drop`, with the mutex held) or has to answer (`responder`,
after `pthread_mutex_unlock`). `Obtenciones` is `obtener_frame_libre` with the journal
its callers run when it returns NULL. `viva` says that the page a thread was given has
not been freed; reading a freed page may give the row of any frame. `lfs`, `canal` and
`respuesta` are the other end of the socket, served in order (`LfsAtiende`); `enlace` is
`socketClienteLfs`: open, broken without the memory knowing (`muerto`) or -1 (`nulo`).
`SelectBasura` is the answer that was never received (`recv` returns 0).

`Responder` copies the row in one step, where `memoria.c:311-318` copies it piece by
piece without the mutex: a copy torn between two rows is one more wrong answer of the kind
`memoria_respuesta` shows.

Left out: empty segments (not told apart from missing ones), the order of pages in a
segment and of pages in a journal (any), the retry delays, the length of values, the
contents of DESCRIBE. LFS is here a map; its own module says how it keeps it.

### Planificador

One step per stretch of `ejecutar_procesador` between two points where another thread
can come in. A script is the kind of each of its lines (an order, an empty line, a line
too short for an order) and whether the last ends in a newline, which is what
`apuntar_archivo`, `obtener_linea` and `feof` depend on. `pos` counts the newlines the
open file has passed, `pc` the calls of `obtener_linea`, and the two are not the same
(`Renglones`): `obtener_linea` does not look at its first character, so that an empty line
is read together with the next one, two newlines are passed and `pc` grows by one; the
next slice, for which `apuntar_archivo` skips `pc` newlines, then begins before the line
where the last one stopped. What is read with an empty line is not the order that was
written: it is refused, or kills KERNEL when it is too short (`Texto`, `Resultados`).

After the newline that ends a file one more line is read, of a character that nobody
initialised: if it happens to be a newline the line fails (-1), if not `obtener_tabla` is
given NULL, which it compares with the name of every known table, and KERNEL dies
(`Morir`, as with any line too short). Whether a table is known is left open: a "corta" or
"basura" line may kill, or fail. Otherwise a line returns 0 or -1, chosen when it runs.
`RecargarConfig` changes `QUANTUM` at any moment, `Abandonar` is the path after the loop on
which no branch matches, and with `QUANTUM` 0 a slice ends before it reads a line.
`hechas` is a history of the lines that were read as they are written. EXIT, which frees
the lists under the processors, is left out.

### Criterios

A thread chooses a memory under `sem_memorias` (`Elegir`), talks to it without the
mutex (`Atendido`, `Fracasa`), and if that fails takes the mutex and deactivates the
memory (`DarDeBaja`), however much later. `desactivar_memoria` and
`enviar_journal_lista_memorias` call each other; `pila` is the stack of those calls in
the thread that holds the mutex, so that each memory reached is a step between which
others fall or come back. `JournalRoto` is the branch of a `send` that fails, which
locks the mutex again. `enviados` is a history: memories that were sent a JOURNAL since
SHC changed. Memories are external: `Cae` and `Vuelve`.

Left out: what a line does to tables, METRICS (it only reads), EXIT. Gossiping may
choose any memory of the pool instead of following the list.

### LFS, Registros, Compactado

A file is the list of its rows, in a table's `archivos`. Steps are functions of the
code: an INSERT or a SELECT is the check (`InsertMira`, `SelectMira`) and the body under
`operation_mutex`; CREATE is `stat`, `mkdir`, the partitions and the flush of Metadata,
with no lock; DROP is the check, the files, the `remove` of Metadata and the `rmdir`; a
compaction is `rename_temporal_files`, `get_last_rows`, `clean_blocks`,
`crearParticiones`, and one step for each row saved. A DESCRIBE locks nothing: it is
`access` and `config_create` of each table, one at a time, over the names the directory
had at `opendir` (a table that is created meanwhile may be missing from the answer, which
shows nowhere else). Where a DROP came in between the list has a NULL (`est = "nulo"`),
which `serializar_describe` dereferences. `Compactador` is the thread of a table, or the
console, which compacts when it is told to.

`Morir` is what happens where the code dereferences NULL or divides by zero; `Caida` is an
exit at any moment; `Arrancar` reads the directory, and is impossible with a Metadata that
was never flushed or that a DROP had removed. A refused request changes nothing
(`Rechaza`), but two of them may kill LFS, and are made by clients with "INVALIDO" among
their `Pedidos`: an INSERT of a memory, whose log reads what was freed
(`InsertInvalido`), and a DESCRIBE of a missing table by the console, which frees NULL
(`DescribeInvalido`). Reading files in any order stands for `readdir`. Finding no free
block, and a `rename` that fails, are choices (`Falla`): in `CompRenombraFalla` the renames
before it stay done, `compactate` returns 1 and the table's thread ends
(`LFS.c:96`), although the table is there.

`Registros` has no state: `UltimasFilas` is `get_last_value_for_each_key`, one
`Vuelta` at a time, and `Compactado` runs it on every list of rows up to a bound.

Left out here: blocks, bitmap and TAMANIO, which `Bloques` models (of them, `LFS` keeps
that a file finds no block), timestamps of 0, sizes of values, delays. The files that
`clean_blocks` removes go in one step: the code may also stop with some of them removed,
which loses some of the rows that a stop right after it loses all of, and read the window
of `SoloSePierdeEnVentana` as beginning with the first removal. A table without an entry in
the memtable is an empty list.

### Gossip

A memory has two kinds of threads here: `hilo_gossiping`, `G(m)`, which walks
`tabla_memorias`, and `C(m)`, the thread of `m`'s peer that serves `m`'s exchange
(`atender_request`). What holds `mutex_memorias` is one step: building the list to send,
and adding the list received (`Agregadas`). The walk itself holds no mutex, so its
assignments are steps: `list_iterate` takes the next entry before it calls
`gossiping_seed` (`sigue`), so that an entry added during the exchange with the last one
is walked in the next round; connecting, `Saluda` (the entry becomes active) and `Numera` (it
gets its number), between which others read it. An entry's socket is the life (`vida`)
of the process it was opened to: a process started again does not answer on it. A `recv`
that returns 0 brings an empty list (`RecibeNada`) or ends the process (`Cae`); the one
of a seed's number, which is not checked, brings any number and sets the history
`cortado`. `KernelAgrega` adds one memory at a time to the kernel's pool, whose failing
members are the matter of `Criterios`.

### Metadatos

A request of a processor or of `hilo_describe` is checked against `l_tablas` (`Pide`,
`Busca`), travels (the memory only carries it), is served by LFS as `stat` and then the
change (`LfsMira`, `LfsCrea`, `LfsBorra`; a DESCRIBE reads one directory at a time), and
its answer is applied to `l_tablas` some time later (`Alta`, `Baja`, `Agregar`,
`SinEfecto`). INSERT and SELECT hold the entry they found without the mutex until `Usa`;
`colgada` says that it was freed meanwhile. `CortaYSigue` and `CortaConBasura` are the
ways an answer is lost, in the second with a header nobody sent (`recv` returns 0);
`OtraConsola` is a CREATE or DROP the kernel is not told of. Two histories say where the
code cannot promise anything: `dudosa` (a CREATE or DROP of the table met another request
of it, was cut, or came from another console) and `pisada` (one ran while the entry was
held). A consequence the model shows: a table that the kernel knows and LFS has lost can
be neither created nor dropped from the kernel any more.

### Bloques

`crearParticiones`, `crearTemporal`, `borrar_archivo` and `guardarDatos`, block by block.
The calls made under `operation_mutex` are one thread, `serie`, which calls in any order;
a CREATE holds no mutex. Finding a block is the test of its bit (`Ocupado`, `Hallado`),
the load of its byte (`CargaParaTomar`) and the store (`Toma`), since commons'
`bitarray_set_bit` is not atomic; cleaning likewise. That is a data race of the code:
`dudosos` is the set of blocks to which it happened, and nothing is promised about them.
`fugados` are those that a lack of blocks or a stop left taken. `guardarDatos` writes as
many bytes as fit in the block where the file ends (`Escribe`), asks for the next block
(`PideBloque`) and saves `BLOQUES` and `TAMANIO` at its end (`GuardaConfig`); `Obtener`
is `obtenerDatos`. Bytes are numbered as they are saved, so that two are never alike.
Saving a file of configuration is one step, and `BLOCKS` is not 0.

## 3. Runs

Every run but the violations is finished by TLC. Deadlock is checked where the system
never stops; the runs that do not check it say why below.

| run | checks | instance and why it is enough |
|---|---|---|
| `memoria_marcos` | `TypeOK Marcado UnaPaginaPorClave NadaSePierde MutexSeLibera` | one thread, 3 keys, 2 frames, so that first fit, LRU and journal all happen, and LFS dies once, also while it is waited for; under fairness |
| `memoria_almacen` | `EsAlmacen RespuestaVigente` | 2 threads, 2 keys and 2 values on 1 frame: every miss evicts what the other thread may be about to read |
| `planificador` | `TypeOK SemaforoExacto UnSoloLugar LineasEnOrden LineasSinSaltos SinHuerfanos FinCompleto TodosTerminan` | 2 processors, 2 PCBs, 8 scripts of up to 3 lines with empty lines first, between, last and twice, a line too short, and ends with and without a newline; quanta 0, 1 and 2 and a reload, under fairness: slices begin at every line, after one newline or two, and a script moves from one processor to the other. No deadlock check: with all requests done and none left to type it stops, and so it does when KERNEL dies |
| `lfs_registro` | `SinRestos SiempreVivo EsUltimoGana RespuestaUltima` | one client, the console, with every request that LFS accepts, 3 inserts of 2 keys, 2 values and 2 timestamps in 2 partitions, 2 temporals: rows of a key in memtable, `.tmp`, `.tmpc` and `.bin` at once, and the table dropped, described and created again with dump and compaction, also that of the console, at any moment. States that differ in the last answer only are explored once (`VIEW`): no action reads it, and `RespuestaUltima` is about the step that gives it |
| `lfs_caidas` | `HiloPorTabla SoloSePierdeEnVentana MutexSeLibera` | a memory and the console with all their requests, those LFS dies of included, one key, 2 timestamps, one stop and one lack of blocks or failing rename, under fairness: DESCRIBE, INSERT and SELECT meet CREATE and DROP, and LFS dies of that or is started again. No deadlock check: a Metadata that was not flushed, or was removed, keeps LFS from starting |
| `compactado_conserva` | `ConservaUltimos` | every list of up to 5 rows of 2 keys with ties of timestamp. No deadlock check: the loop ends |
| `criterios` | `ActivaEnCriterio JournalDelCriterio CriteriosActivos SemSeLibera` | 2 memories that fall twice, also during a deactivation, a processor and gossiping that may fail on the same memory, 3 ADDs with no memory twice in a criterion, a journal whose connection breaks, under fairness. No deadlock check: that journal locks itself |
| `gossip` | `TypeOK SinDuplicadas NumeroDeSuDireccion Converge RondaTermina` | 3 memories started in any order: `a` and `c` have `b` as their seed and learn of each other through it, and `b`, which is also the kernel's, may die at any step of an exchange; under fairness |
| `metadatos` | `MetadataExacta UsaSuCriterio PocasRepetidas AprendeTablas` | 2 processors and `hilo_describe` on one table (entries of different names never meet) with 2 criteria, and one request cut or one change from another console; under fairness |
| `bloques` | `TypeOK Exclusivos SinFugas SeLeeLoGuardado` | 4 blocks of 2 bytes, bytes of the bitmap of 2 bits (8 in the code) so that some blocks share one and some do not; a CREATE against the serial thread, files of up to 2 partitions, 2 rows of 1 or 3 bytes, so that a row starts inside a block, goes across its end and ends at it, and one stop. No deadlock check: the calls are bounded |

Bounds are the constants `Max...` of each module, each in the guard of the action it
limits. They bound how often the environment acts (requests, falls, reloads, lack of
blocks or failing renames) and two resources, the socket buffer of `Memoria` and the temporals of `LFS`.

What the deeper properties say:

* `EsAlmacen` — whatever pages are clean, dirty, evicted or in flight, what a SELECT
  would find changes only with an INSERT of that key or a DROP of that table.
* `RespuestaVigente` — an answer read from a page that is still there is the value of
  the key *when it is read*, even if it changed since the page was looked up.
* `NadaSePierde` — a dirty page leaves the cache only with its INSERT on the socket, or
  with the DROP of its table, or because the socket is not open.
* `Marcado` — bitmap, counter, pages and the frame that a waiting SELECT reserved agree.
* `SemaforoExacto` — a processor past `sem_wait` always finds a PCB, and no PCB waits
  without a post.
* `LineasEnOrden` — the lines of a script without empty lines run once each and in order,
  across slices and processors. With an empty line it is false: a line runs twice.
* `LineasSinSaltos`, `FinCompleto` — in any script the only lines that do not run are the
  empty ones and those that follow one: a slice never begins after a line that has not
  been read, and a script that ends by end of file has run all the others.
* `HiloPorTabla` — a table loses its last compaction thread by a failing rename only,
  whatever DROP and CREATE do while that thread sleeps.
* `EsUltimoGana` — dump and compaction are invisible to readers at every step.
* `SoloSePierdeEnVentana` — what is on disk goes only by a DROP, by a lack of blocks or a
  failing rename, by a stop between `clean_blocks` and the last row saved, or by a `.tmpc`
  that a stop or a failing rename left.
* `SinDuplicadas` — two connections that tell of the same memory while the gossiping
  thread writes entries without the mutex still enter it once; only a seed, whose number
  is asked later, may repeat one.
* `NumeroDeSuDireccion` — an entry read between its two assignments travels as memory
  -1, and never as another memory's number at its address.
* `Converge` — whatever the order of starts and deaths, running neighbours end with the
  same memories, and the kernel with all of them.
* `MetadataExacta` — outside the windows of `dudosa`, the kernel has a table once with
  the criterion LFS has, or not at all.
* `UsaSuCriterio` — the entry used after `sem_tablas` is given back is still there and
  right, whatever DESCRIBE adds meanwhile.
* `AprendeTablas` — a CREATE whose answer was lost is known after a later DESCRIBE.
* `Exclusivos`, `SinFugas` — blocks have one owner and none is lost, but for those the
  race, a stop or a lack of blocks is to blame for.
* `SeLeeLoGuardado` — what `TAMANIO` and `BLOQUES` give back is byte for byte what was
  saved, also after a row that did not fit or a stop in the middle of one.
* `JournalDelCriterio` — when several memories of SHC fall one during the deactivation
  of the other, each one left was still sent a JOURNAL after the last change.

### Disagreements met

Two runs end in a violation of what a comment of the code says; `PROJECT.json` quotes
the lines.

| run | what TLC shows |
|---|---|
| `memoria_respuesta` | SELECT reads its page after the mutex is released (`memoria.c:297`, `:311`); a journal or a replacement in between makes the answer another key's row |
| `criterios_traba` | a JOURNAL whose `send` fails locks `sem_memorias`, which its caller holds (`consola.c:222`): the rest of the list gets no JOURNAL and nobody gets the mutex again |

More behaviours that may surprise are in the models as the code has them, and the
properties hold with them or say where they do not: an empty line makes the next slice of
its script run a line again (`kernel.c:838`); a script that ends in a newline may kill
KERNEL (`kernel.c:177`, `:229`, `:269`), and a DESCRIBE that meets a DROP kills LFS
(`API.c:519`); `recv` returns 0 when the peer closes
and only -1 is checked (`SelectBasura`, `RecibeNada`, `CortaConBasura`); each turn of
`get_last_value_for_each_key` removes one older row, so that four rows of a key may leave
two, which changes no answer (`ConservaUltimos`); and a memory added twice to a criterion
stays in it after it is deactivated, which is why `CriteriosActivos` is promised only if
no ADD is repeated (`RepiteAdd`).

### Fairness

* `Memoria`: weak fairness of each thread's next step and of LFS serving its socket:
  threads of the operating system and a blocking `recv`. Nobody has to send requests, to
  run a journal, or to restart LFS; a dead LFS is seen by the thread as an error.
* `Planificador`: weak fairness of each processor. The mutex is held for some list
  operations, and a semaphore that stays positive lets the waiting processors through.
  `TodosTerminan` promises nothing after a reload, when `Abandonar` may forget a PCB, once
  KERNEL has died of a line, and with `QUANTUM` 0, when scripts never end.
* `LFS`: weak fairness of each client's body, of dump and of compaction, which are loops
  around `nanosleep`.
* `Criterios`: weak fairness of the thread that holds `sem_memorias`, which waits for
  nothing but connections that succeed or fail. `SemSeLibera` promises nothing after a
  journal broke (`rotos`), where the thread waits for itself: see `criterios_traba`.
* `Gossip`: weak fairness of each memory's gossiping thread, of the thread that serves
  it, and of the kernel's gossiping: all are loops around `sleep`, and a dead peer is
  seen as an error or as 0 bytes. Nobody has to start a memory or to kill one.
* `Metadatos`: weak fairness of what carries a request to its end, and of
  `hilo_describe` asking again, which it does every `METADATA_REFRESH`. No processor has
  to ask anything.
* `Bloques` has no liveness property and states no fairness.

## 4. Proofs

All of them hold for every value of the constants that satisfies the assumptions of the
modules; nothing is taken on trust.

| theorem | states | argument |
|---|---|---|
| `MemoriaProofs!Tipos`, `UnSoloHiloEspera`, `MarcadoExacto` | `TypeOK`, `Exclusion`, `Marcado` | `Exclusion`, at most one thread waits for LFS and it holds the mutex, is stated in `MemoriaProofs`: no run of one thread could break it. The inductive `Inv` is the conjunction of the three: `Marcado` needs `Exclusion`, for only one thread can have a frame reserved, and `TypeOK` needs `Marcado`, for `PrimerLibre` is a frame only if the counter is the number of set bits. Cardinality facts come from `FiniteSetTheorems` |
| `MemoriaProofs!UnaSolaPagina` | `UnaPaginaPorClave` | `InvClaves` adds that the key a waiting SELECT asked for has no page (`NoHallada`). It is promised until LFS dies: afterwards a page made of garbage may have any key, so the invariant is conditional on `caidas = 0`, which no step makes true again |
| `MemoriaProofs!NoSePierdeNada` | `NadaSePierde` | for each place a page can leave the cache from (a replacement, a journal, a DROP, an answer of LFS) the step put its INSERT in `canal`; the fold over the dirty pages of a journal is dealt with by lemmas about its prefixes |
| `MemoriaProofs!LaCacheNoSeNota` | `EsAlmacen` | refinement, step by step. `Sano` is `Inv`, `InvClaves` and a socket that is open; what a SELECT would find of a key is its dirty page, else what LFS has once it served its socket (`LfsAlDia`, a fold), and each step leaves that, or changes it as `Almacen` says. `Almacen` promises nothing once LFS died |
| `MemoriaProofs!SeRespondeLoVigente` | `RespuestaVigente` | `Viaje`: the request a thread waits for is the last on the socket, after INSERTs only, or the only answer, and LFS has not changed since it gave it; `Limpias`: a clean page has the value of LFS once its socket is served; `Devueltas`: a page that a thread was given and is not freed (`viva`) is that of its request |
| `PlanificadorProofs!Tipos`, `CadaPcbEnUnLugar` | `TypeOK`, `UnSoloLugar` | inductive together: the script of a PCB exists because the PCB is in a list |
| `PlanificadorProofs!SemaforoCuentaListos` | `SemaforoExacto` | each step moves the semaphore, the queue and the set of woken processors by the same amount |
| `PlanificadorProofs!LineasUnaVezEnOrden`, `NingunaLineaSalteada`, `FinDeArchivoCompleto` | `LineasEnOrden`, `LineasSinSaltos`, `FinCompleto` | `Sincronia`: of a PCB at rest the first `pc` lines have run, and of one that is read those before `pos`, but for what an empty line swallows (`Corridas`); `pc` is at most `pos`, since a turn passes one newline or two, so that a slice begins no later than the last one stopped. Without empty lines `pc`, `pos` and the number of lines run are one, with the last line without newline as the special case |
| `PlanificadorProofs!NadieQuedaHuerfano` | `SinHuerfanos` | until the first reload the quantum is constant and a slice that ends for no other reason ends exactly at it (`EnSuRodaja`) |
| `CriteriosProofs!ActivasEnCriterio` | `ActivaEnCriterio` | between the first and the last step of `desactivar_memoria` a marked memory may be in no list: the invariant `Marcas` adds the calls on the stack that will clear its mark (`Quitan`) |
| `CriteriosProofs!SoloActivasSinRepetir` | `RepiteAdd = FALSE => CriteriosActivos` | `Unicos`: the lists have no repetitions, so that taking a memory out once leaves none of it, and a memory being taken out has left SHC. With a repeated ADD it is false |
| `CriteriosProofs!JournalAntesDeElegir` | `RepiteAdd = FALSE => JournalDelCriterio` | `Avisadas`: each marked memory of SHC is in `enviados` or in the list of a journal that is still on the stack, at whatever depth. With a repeated ADD it is false: the second copy of a memory that was deactivated may be marked again by an ADD to another criterion, which sends no JOURNAL |
| `MetadatosProofs!SabeLoQueHay`, `UsaLoQueHay` | `MetadataExacta`, `UsaSuCriterio` | inductive together. `CambioExacto`: a CREATE or DROP that met nothing is alone with its table (`Solo`), and what LFS and `l_tablas` have agrees with how far it is; `LeidoExacto`: what a DESCRIBE read of a table that nobody changes is still so; `UsoDe`: who holds an entry knows of every change of its table |
| `MetadatosProofs!NoSeRepiteMas` | `PocasRepetidas` | `Pocas`: the entries of a table and the CREATEs of it on their way are together at most one more than the processors |
| `LFSProofs!NoQuedanRestos` | `[]vivo /\ [][SinRenombreFallido]_vars => []SinRestos` | until LFS stops or a rename fails, which leaves a `.tmpc`. `TInv` has the types and `Turno` (who works on the files of a table holds `operation_mutex`, CREATE apart); `SinTmpc`: after `clean_blocks` the compaction's table has no `.tmpc`, so that none is left when it ends |
| `LFSProofs!NoMuere` | `SinFallas /\ []SinCruce => []SiempreVivo` | any number of clients. `SinCruce`: while a client makes or removes a table, from its check on, no other has a request of that table under way, a DESCRIBE that has still to come to it included; one client alone never breaks it. `VivoInv`: a table is not in use (no rows, no temporals, no Metadata) or whole (directory, Metadata, all its partitions, rows in each temporal, each row in the partition of its key), but for the steps in which a DROP or a compaction holds the mutex; `Sabe` and `Compacta` say what a request and a compaction know of their table after their checks, and by `SinCruce` what a client knows of its table is not changed by another |
| `LFSProofs!SeRespondeLoUltimo` | `[]SinSolape => RespuestaUltima` | any clients, requests, stops, starts, lacks of blocks and failing renames; `SinSolape`: no two CREATEs of a table are between `stat` and `crearParticiones`. A SELECT looks at one partition, so each row of a partition must be in the one that PARTITIONS gives to its key (`CadaUnaEnLaSuya`); that number changes only where no partition has rows: a CREATE gives it once, for it is the only one (`CreateSolo`), and a DROP removes it after the files (`BorradaSinFilas`). No compaction holds rows while a SELECT reads (`Turno`), and `last_registro` of any list of the rows of a key is one of the last instant. Without `SinSolape` it is false: with a DROP between two CREATEs of 1 and 2 partitions, a compaction saves rows by the first number while the second is not flushed yet, and then they are looked for by the second |
| `LFSProofs!EsElRegistro` | `SinFallas /\ []SinCruce => EsUltimoGana` | refinement, step by step, for any number of clients. `Leido`: between `get_last_rows` and `clean_blocks` the rows in memory *resume* those of the files: some of them, with one at least as late for each row. `UltimasResumen`: rows that resume others have the same last instant of every key, and some of its values. The other steps move the rows of a table, add the one of an INSERT, or make or remove a table |
| `LFSProofs!SoloSePierdeAhi` | `[]SinSolape => SoloSePierdeEnVentana` | any clients, requests, stops, starts, lacks of blocks and failing renames; `SinSolape` as above, without which the second truncates what a compaction saved after the first. `VentanaInv`: files and compactions are of tables with a directory (`TodoEnDirectorio`), a CREATE finds no partitions and a compaction that began before them makes none (`CreateSinBins`), a compaction makes its own when no file has rows (`RecreaSinFilas`), and `Leido`. Each step *covers* the rows there were (`Cubre`: for each a row of its key as late), and rows that cover others have no earlier last instant |
| `LFSProofs!SiempreHayHilo` | `HiloPorTabla` | an action property: but for the failing rename a compaction thread ends only when its table has no directory, so that Metadata must be in a directory (`MetadataEnDirectorio`), also the one a CREATE still holds open (`AbiertaEnDirectorio`) |
| `LFSProofs!TiposDeLista`, `NingunValorCambia` | types of `Compactado`, `ConservaUltimos` | a key with rows has exactly one last row (`UltimoExiste` by a least counterexample over prefixes, `UltimoUnico`); `QuitarConserva`: taking away a row that is not the last one of its key leaves the last of every key where it was |
| `GossipProofs!Tipos` | `TypeOK` | the inductive `IInv` adds `Finitas` (what travels is finite, so that what is added is a sequence), `Tablas` (a table starts with its owner and its seeds and only grows) `PideNumero` (a thread that waits for a number is at a seed) and `Lugares` (the walk is at an entry, and if `list_iterate` saw another one it is there: tables only grow) |
| `GossipProofs!SinRepetidas` | `SinDuplicadas` | entries after the seeds are added under the mutex and never renumbered, because `Numera` writes only at a seed's place |
| `GossipProofs!NumerosCiertos` | `NumeroDeSuDireccion` | `CInv`: tables, lists on their way, the number just received and the pool all pair a number with its own address or with -1 |
| `BloquesProofs!Tipos` | `TypeOK` | `TInv` adds what a thread's call agrees with at each place (`Donde`), that a CREATE makes files when it holds a block for each of them (`Cuentas`), and that their names are new and asked for by nobody else (`Nuevos`) |
| `BloquesProofs!DeUnSoloArchivo`, `NingunoSePierde` | `Exclusivos`, `SinFugas` | `Orden`: every block owned by a file or a thread has its bit set (`Marcados`), has one owner (`UnDueno`) once (`UnaVez`), and every set bit has an owner (`ConDueno`), all outside `dudosos` and `fugados`; the properties alone are not inductive, for a search takes any block whose bit is clear. A store changes the bits of the other blocks of its byte, and `Deshechos` counts exactly those that changed since the load |
| `BloquesProofs!LoGuardadoSeLee` | `SeLeeLoGuardado` | `EnSuLugar`: byte `i` of a file is in its block `i \div BLOCK_SIZE`, at `i % BLOCK_SIZE`; `EnCurso`: so are the bytes `guardarDatos` has written and not saved yet, after those of the file. By `Orden` the block that is written is of no other file and once in its own (`EnEscritura`), and only bytes after the end change (`LlegaAntes`, `LlegaMas`). `AplanaTrozos` joins what `obtenerDatos` takes of each block, the last one shorter |

Only model-checked:

* liveness (`MutexSeLibera`, `TodosTerminan`, `SemSeLibera`, `Converge`,
  `RondaTermina`, `AprendeTablas`), because TLAPS does not prove properties under
  fairness;
* the two violations, which are counterexamples.

`SinFallas` is no stop, a block for every file and no failing rename (`MaxCaidas = 0`,
`MaxFallas = 0`), no table of 0 partitions, and none of the refused requests that kill LFS
(`"INVALIDO" \notin Pedidos`), as in `lfs_registro`. Neither can be left out. Without the
second, an INSERT or a console's DESCRIBE of a missing table kills LFS. Without
`SinCruce`, so do a DROP between the check and the body of an INSERT or a SELECT, a DROP of
a table that a DESCRIBE is about to read, and a DESCRIBE between the `mkdir` of a CREATE
and the `fclose` of its Metadata. The run has one client, for which `SinCruce` always
holds; `lfs_caidas` has all of these deaths.

Assumptions on constants, each in the module that declares them: sets are finite or not
empty where the code needs it, numbers are naturals, the names that stand for nobody
(`Nada`, `"dump"`, `"compactacion"`, `"serie"`) are not those of threads, a memory or a
compaction in progress.

What FoldLeft, FlattenSeq and the loop of compaction do to a list of any length cannot be
had from the library's induction theorems, which take an operator as a parameter. The
proofs do it with a least counterexample: among the prefixes of the list for which a
statement fails there is a shortest one (`ListasProofs`, `Pasos` and `Plegado`).

## 5. Not modelled

* **The console of a memory on the LFS socket**: its CREATE and DESCRIBE do not take the
  mutex; planned as `EnlaceLfs`.
* **The accept loop of LFS**, whose only `cliente` is shared with each new thread.
* **Serialisation, sockets, utilities**: no state; lengths and widths are planned.
* **EXIT of the kernel**, which frees what detached threads still use: its outcome is
  undefined behaviour of every thread at once.
* **METRICS, log, delays, scripts of installation**: no property is about them.

`PROJECT.json` lists the hazards of the code with the properties that cover each, and
why the others are not covered.

## 6. Plan

1. `EnlaceLfs`: the socket of a memory shared by console and threads, and answers taken
   by another request; what a dead LFS loses at most.
2. `Consistencia`: `Criterios` with several `Memoria`: what SC, SHC and EC give to a
   reader, with JOURNAL sent and not waited for.
3. `Protocolo`: lengths and integer widths of the messages.
4. Theorems: what `EsElRegistro` becomes when LFS stops, where the register forgets the
   rows of memtable and what `SoloSePierdeEnVentana` lets go.
