----------------------------- MODULE Planificador -----------------------------
(***************************************************************************)
(* The scheduler of KERNEL (src/KERNEL/src/kernel.c, consola.c): a queue   *)
(* of ready PCBs counted by a semaphore, MULTIPROCESAMIENTO processor      *)
(* threads, a quantum that inotify_config may change at any moment.        *)
(*                                                                         *)
(* A script is abstracted to the kind of each of its lines and to whether  *)
(* the last one ends in a newline, which is what decides where the reading *)
(* by characters of obtener_linea and apuntar_archivo goes.                *)
(***************************************************************************)
EXTENDS Integers, FiniteSets, Sequences

CONSTANTS
    Procesadores,    \* threads created by crear_procesadores
    MaxPcbs,         \* bound: requests typed in the console
    Guiones,         \* scripts there are to run
    Quanta,          \* values the configuration gives to QUANTUM
    MaxRecargas      \* bound: changes of the configuration file

\* Kinds of lines: nothing before the newline; a request with what it needs; one
\* with fewer words than a request of a table has, a DESCRIBE alone among them.
Textos == {"vacia", "orden", "corta"}

ASSUME ProcesadoresAssumption == IsFiniteSet(Procesadores)
ASSUME QuantaAssumption == Quanta # {} /\ Quanta \subseteq Nat
ASSUME CotasAssumption == MaxPcbs \in Nat /\ MaxRecargas \in Nat
\* What follows the last newline is a line when it is not empty.
ASSUME GuionesAssumption ==
    /\ Guiones \subseteq [lineas : Seq(Textos), terminada : BOOLEAN]
    /\ \A g \in Guiones :
          ~g.terminada => g.lineas # <<>> /\ g.lineas[Len(g.lineas)] # "vacia"

Ids == 0 .. MaxPcbs - 1

Simple == [tipo |-> "SIMPLE", lineas |-> <<"orden">>, terminada |-> FALSE]
Compuesta(g) ==
    [tipo |-> "COMPUESTA", lineas |-> g.lineas, terminada |-> g.terminada]
Tareas == {Compuesta(g) : g \in Guiones} \cup {Simple}

VARIABLES
    id_pcbs,       \* next id
    tarea,         \* request_comando and tipo_request of each PCB
    pc,            \* pc of each PCB: the times obtener_linea was called for it
    listos,        \* l_pcb_listos, in order
    ejecutando,    \* l_pcb_ejecutando
    finalizados,   \* l_pcb_finalizados
    sem,           \* sem_cantidad_listos
    quantum,       \* kernel_config.QUANTUM
    recargas,
    vivo,          \* the process of KERNEL is running
    est,           \* where each processor is
    pcb,           \* the PCB each processor took
    k, feof, res,  \* locals of ejecutar_procesador and the open file
    pos,           \* newlines before the place where the open file is read next
    hechas         \* history: lines of each PCB run so far, in order

colas == <<listos, ejecutando, finalizados, sem>>
locales == <<pcb, k, pos, feof, res>>
vars  == <<id_pcbs, tarea, pc, colas, quantum, recargas, vivo, est, locales, hechas>>

-----------------------------------------------------------------------------
Init ==
    /\ id_pcbs = 0
    /\ tarea = [i \in {} |-> 0]
    /\ pc = [i \in Ids |-> 0]
    /\ listos = <<>>
    /\ ejecutando = {}
    /\ finalizados = {}
    /\ sem = 0
    /\ quantum \in Quanta
    /\ recargas = 0
    /\ vivo = TRUE
    /\ est = [p \in Procesadores |-> "espera"]
    /\ pcb = [p \in Procesadores |-> 0]
    /\ k = [p \in Procesadores |-> 0]
    /\ pos = [p \in Procesadores |-> 0]
    /\ feof = [p \in Procesadores |-> FALSE]
    /\ res = [p \in Procesadores |-> 0]
    /\ hechas = [i \in Ids |-> <<>>]

\* crear_pcb, called by the console only.
CrearPcb(t) ==
    /\ vivo
    /\ id_pcbs < MaxPcbs
    /\ id_pcbs' = id_pcbs + 1
    /\ tarea' = [i \in DOMAIN tarea \cup {id_pcbs} |->
                    IF i = id_pcbs THEN t ELSE tarea[i]]
    /\ listos' = Append(listos, id_pcbs)
    /\ sem' = sem + 1
    /\ UNCHANGED <<pc, ejecutando, finalizados, quantum, recargas, vivo, est, locales,
                   hechas>>

\* Mutant: the processor does not wait for the semaphore.
DespertarSinEsperar(p) ==
    /\ est[p] = "espera"
    /\ sem' = sem - 1
    /\ est' = [est EXCEPT ![p] = "toma"]
    /\ UNCHANGED <<id_pcbs, tarea, pc, listos, ejecutando, finalizados, quantum,
                   recargas, vivo, locales, hechas>>

\* sem_wait returns; sem_pcb has still to be locked.
Despertar(p) ==
    /\ est[p] = "espera"
    /\ sem > 0
    /\ sem' = sem - 1
    /\ est' = [est EXCEPT ![p] = "toma"]
    /\ UNCHANGED <<id_pcbs, tarea, pc, listos, ejecutando, finalizados, quantum,
                   recargas, vivo, locales, hechas>>

\* obtener_pcb_ejecutar, under sem_pcb.
ObtenerPcb(p) ==
    /\ est[p] = "toma"
    /\ listos # <<>>
    /\ listos' = Tail(listos)
    /\ ejecutando' = ejecutando \cup {Head(listos)}
    /\ pcb' = [pcb EXCEPT ![p] = Head(listos)]
    /\ est' = [est EXCEPT ![p] = "abre"]
    /\ UNCHANGED <<id_pcbs, tarea, pc, finalizados, sem, quantum, recargas, vivo, k, pos,
                   feof, res, hechas>>

Guion(p) == tarea[pcb[p]]

\* A simple request is one line; whatever comes of it the PCB is finished.
EjecutarSimple(p) ==
    /\ est[p] = "abre"
    /\ Guion(p).tipo = "SIMPLE"
    /\ est' = [est EXCEPT ![p] = "finaliza"]
    /\ UNCHANGED <<id_pcbs, tarea, pc, colas, quantum, recargas, vivo, locales, hechas>>

\* fopen fails: "No pude abrir la ruta".
SinArchivo(p) ==
    /\ est[p] = "abre"
    /\ Guion(p).tipo = "COMPUESTA"
    /\ est' = [est EXCEPT ![p] = "finaliza"]
    /\ UNCHANGED <<id_pcbs, tarea, pc, colas, quantum, recargas, vivo, locales, hechas>>

\* Newlines of the file of a script.
Saltos(g) == IF g.terminada THEN Len(g.lineas) ELSE Len(g.lineas) - 1

\* Where a reading that goes past the m-th newline stops: the end of the file is
\* found first when there are not so many.
Hasta(g, m) == IF m <= Saltos(g) THEN m ELSE Len(g.lineas)

\* Mutant: the file is read from its beginning in every slice.
ApuntarAlPrincipio(g, n) == Hasta(g, 0)

\* Mutant: one newline too many is skipped.
ApuntarDeMas(g, n) == Hasta(g, n + 1)

\* apuntar_archivo skips n newlines.
Apuntar(g, n) == Hasta(g, n)

AbrirArchivo(p) ==
    LET g == Guion(p)
        n == pc[pcb[p]]
    IN  /\ est[p] = "abre"
        /\ g.tipo = "COMPUESTA"
        /\ est' = [est EXCEPT ![p] = "ciclo"]
        /\ k' = [k EXCEPT ![p] = 0]
        /\ res' = [res EXCEPT ![p] = 0]
        /\ pos' = [pos EXCEPT ![p] = Apuntar(g, n)]
        /\ feof' = [feof EXCEPT ![p] = n > Saltos(g)]
        /\ UNCHANGED <<id_pcbs, tarea, pc, colas, quantum, recargas, vivo, pcb, hechas>>

OtraVuelta(p) == k[p] < quantum /\ ~feof[p] /\ res[p] # -1

\* obtener_linea does not look at its first character: an empty line is read
\* together with the one after it, and two newlines are passed at once.
Renglones(g, n) ==
    IF n < Len(g.lineas) /\ g.lineas[n + 1] = "vacia" THEN n + 2 ELSE n + 1

\* A line is read as it is written.
Limpia(g, n) == n < Len(g.lineas) /\ g.lineas[n + 1] # "vacia"

\* What is read: "vacia" is a newline alone, which ejecutar_linea refuses;
\* "basura" the character that nobody wrote, at the end of the file.
Texto(g, n) ==
    IF n >= Len(g.lineas) THEN "basura"
    ELSE IF Limpia(g, n) THEN g.lineas[n + 1]
    ELSE IF n + 1 < Len(g.lineas) THEN g.lineas[n + 2]
    ELSE "vacia"

Resultados(texto) == IF texto \in {"orden", "corta"} THEN {0, -1} ELSE {-1}

\* One turn of the loop.
EjecutarLinea(p) ==
    LET g == Guion(p)
        n == pos[p]
        i == pcb[p]
    IN  /\ est[p] = "ciclo"
        /\ OtraVuelta(p)
        /\ k' = [k EXCEPT ![p] = k[p] + 1]
        /\ pc' = [pc EXCEPT ![i] = pc[i] + 1]
        /\ pos' = [pos EXCEPT ![p] = Hasta(g, Renglones(g, n))]
        /\ feof' = [feof EXCEPT ![p] = Renglones(g, n) > Saltos(g)]
        /\ \E r \in Resultados(Texto(g, n)) : res' = [res EXCEPT ![p] = r]
        /\ hechas' =
              IF Limpia(g, n)
              THEN [hechas EXCEPT ![i] = Append(hechas[i], n + 1)]
              ELSE hechas
        /\ UNCHANGED <<id_pcbs, tarea, colas, quantum, recargas, vivo, est, pcb>>

\* A line without a second word reaches obtener_tabla(NULL), which compares it
\* with the name of each table known, if any, and one without a word es_string of
\* NULL: KERNEL dies.  The character at the end of the file is not initialised
\* and may be any; when it is a newline EjecutarLinea finds "\n" and fails.
Morir(p) ==
    /\ est[p] = "ciclo"
    /\ OtraVuelta(p)
    /\ Texto(Guion(p), pos[p]) \in {"corta", "basura"}
    /\ vivo' = FALSE
    /\ UNCHANGED <<id_pcbs, tarea, pc, colas, quantum, recargas, est, locales,
                   hechas>>

\* The loop ends; what follows reads QUANTUM again.
SalirDelCiclo(p) ==
    /\ est[p] = "ciclo"
    /\ ~OtraVuelta(p)
    /\ est' = [est EXCEPT ![p] = "decide"]
    /\ UNCHANGED <<id_pcbs, tarea, pc, colas, quantum, recargas, vivo, locales, hechas>>

\* Mutant: a script whose line failed is not finished.
TerminadoSoloFin(p) == feof[p]

\* End of file or failed line.
Terminado(p) == feof[p] \/ res[p] = -1

Acabar(p) ==
    /\ est[p] = "decide"
    /\ Terminado(p)
    /\ est' = [est EXCEPT ![p] = "finaliza"]
    /\ UNCHANGED <<id_pcbs, tarea, pc, colas, quantum, recargas, vivo, locales, hechas>>

\* The processor goes back to sem_wait; the values of its locals are not used any
\* more.
Soltar(p) ==
    /\ est' = [est EXCEPT ![p] = "espera"]
    /\ pcb' = [pcb EXCEPT ![p] = 0]
    /\ k' = [k EXCEPT ![p] = 0]
    /\ pos' = [pos EXCEPT ![p] = 0]
    /\ feof' = [feof EXCEPT ![p] = FALSE]
    /\ res' = [res EXCEPT ![p] = 0]

\* finalizar_pcb, under sem_pcb.
FinalizarPcb(p) ==
    /\ est[p] = "finaliza"
    /\ ejecutando' = ejecutando \ {pcb[p]}
    /\ finalizados' = finalizados \cup {pcb[p]}
    /\ Soltar(p)
    /\ UNCHANGED <<id_pcbs, tarea, pc, listos, sem, quantum, recargas, vivo, hechas>>

\* Mutant: nobody is woken up for the PCB.
PararSinPost(p) ==
    /\ est[p] = "decide"
    /\ ~Terminado(p)
    /\ k[p] = quantum
    /\ ejecutando' = ejecutando \ {pcb[p]}
    /\ listos' = Append(listos, pcb[p])
    /\ Soltar(p)
    /\ UNCHANGED <<id_pcbs, tarea, pc, finalizados, sem, quantum, recargas, vivo, hechas>>

\* Mutant: the PCB is not taken out of l_pcb_ejecutando.
PararSinSacar(p) ==
    /\ est[p] = "decide"
    /\ ~Terminado(p)
    /\ k[p] = quantum
    /\ listos' = Append(listos, pcb[p])
    /\ sem' = sem + 1
    /\ Soltar(p)
    /\ UNCHANGED <<id_pcbs, tarea, pc, ejecutando, finalizados, quantum, recargas, vivo,
                   hechas>>

\* parar_por_quantum and sem_post, under sem_pcb.
PararPorQuantum(p) ==
    /\ est[p] = "decide"
    /\ ~Terminado(p)
    /\ k[p] = quantum
    /\ ejecutando' = ejecutando \ {pcb[p]}
    /\ listos' = Append(listos, pcb[p])
    /\ sem' = sem + 1
    /\ Soltar(p)
    /\ UNCHANGED <<id_pcbs, tarea, pc, finalizados, quantum, recargas, vivo, hechas>>

\* None of the three branches: the PCB stays in l_pcb_ejecutando for ever.
Abandonar(p) ==
    /\ est[p] = "decide"
    /\ ~Terminado(p)
    /\ k[p] # quantum
    /\ Soltar(p)
    /\ UNCHANGED <<id_pcbs, tarea, pc, colas, quantum, recargas, vivo, hechas>>

\* inotify_config reads the configuration file again.
RecargarConfig ==
    /\ vivo
    /\ recargas < MaxRecargas
    /\ recargas' = recargas + 1
    /\ quantum' \in Quanta
    /\ UNCHANGED <<id_pcbs, tarea, pc, colas, vivo, est, locales, hechas>>

Avanzar(p) ==
    /\ vivo
    /\ \/ Despertar(p)
       \/ ObtenerPcb(p)
       \/ EjecutarSimple(p)
       \/ SinArchivo(p)
       \/ AbrirArchivo(p)
       \/ EjecutarLinea(p)
       \/ Morir(p)
       \/ SalirDelCiclo(p)
       \/ Acabar(p)
       \/ FinalizarPcb(p)
       \/ PararPorQuantum(p)
       \/ Abandonar(p)

Next ==
    \/ \E t \in Tareas : CrearPcb(t)
    \/ \E p \in Procesadores : Avanzar(p)
    \/ RecargarConfig

Spec == Init /\ [][Next]_vars

\* The processors are threads of the operating system, sem_wait and the mutex
\* are held for a few instructions, and a request sent to a memory is answered.
FairSpec == Spec /\ \A p \in Procesadores : WF_vars(Avanzar(p))

-----------------------------------------------------------------------------
(* Properties *)

Corriendo == {"abre", "ciclo", "decide", "finaliza"}
EnCola == {listos[i] : i \in 1 .. Len(listos)}

TypeOK ==
    /\ id_pcbs \in 0 .. MaxPcbs
    /\ tarea \in [0 .. id_pcbs - 1 -> Tareas]
    /\ pc \in [Ids -> Nat]
    /\ listos \in Seq(Ids)
    /\ ejecutando \in SUBSET Ids
    /\ finalizados \in SUBSET Ids
    /\ sem \in Nat
    /\ quantum \in Quanta
    /\ recargas \in Nat
    /\ vivo \in BOOLEAN
    /\ est \in [Procesadores -> {"espera", "toma"} \cup Corriendo]
    /\ pcb \in [Procesadores -> Nat]
    /\ k \in [Procesadores -> Nat]
    /\ pos \in [Procesadores -> Nat]
    /\ feof \in [Procesadores -> BOOLEAN]
    /\ res \in [Procesadores -> {0, -1}]
    /\ hechas \in [Ids -> Seq(Nat)]

\* The semaphore counts the ready PCBs nobody has been woken up for: a processor
\* that passed sem_wait always finds a PCB (list_remove of an empty list gives
\* NULL, which obtener_pcb_ejecutar dereferences), and no ready PCB is left
\* without a wake-up.
SemaforoExacto ==
    sem + Cardinality({p \in Procesadores : est[p] = "toma"}) = Len(listos)

\* A PCB is in exactly one list, once; no two processors run the same PCB.
UnSoloLugar ==
    /\ \A i, j \in 1 .. Len(listos) : listos[i] = listos[j] => i = j
    /\ EnCola \cap ejecutando = {}
    /\ EnCola \cap finalizados = {}
    /\ ejecutando \cap finalizados = {}
    /\ EnCola \cup ejecutando \cup finalizados = 0 .. id_pcbs - 1
    /\ \A p \in Procesadores : est[p] \in Corriendo => pcb[p] \in ejecutando
    /\ \A p, q \in Procesadores :
          est[p] \in Corriendo /\ est[q] \in Corriendo /\ pcb[p] = pcb[q] => p = q

NingunHuerfano ==
    ejecutando = {pcb[p] : p \in {p \in Procesadores : est[p] \in Corriendo}}

\* While the configuration is not reloaded, a PCB in l_pcb_ejecutando is being
\* run by a processor: none is forgotten there at the end of its quantum.
SinHuerfanos == recargas = 0 => NingunHuerfano

SinVacias(g) == \A n \in 1 .. Len(g.lineas) : g.lineas[n] # "vacia"

\* The lines of a script without empty lines run in order, each once, across its
\* slices: what pc counts and where apuntar_archivo goes agree.  With an empty
\* line they do not: pc counts one line where two newlines were passed, and the
\* next slice begins at a line that has already been read.
LineasEnOrden ==
    \A i \in DOMAIN tarea :
        SinVacias(tarea[i]) => hechas[i] = [n \in 1 .. Len(hechas[i]) |-> n]

\* Neither empty nor read together with an empty line before it.
Entera(g, m) ==
    /\ g.lineas[m] # "vacia"
    /\ m > 1 => g.lineas[m - 1] # "vacia"

\* The lines of the script g up to the n-th are among those that have run, but for
\* the ones an empty line swallows.
Corridas(g, corridas, n) ==
    \A m \in 1 .. Len(g.lineas) :
        m <= n /\ Entera(g, m) => \E j \in 1 .. Len(corridas) : corridas[j] = m

SinSaltos(g, corridas) ==
    \A j \in 1 .. Len(corridas) : Corridas(g, corridas, corridas[j])

\* Whatever its empty lines, no line of a script is left behind by the reading:
\* a slice never begins after a line that has not been read, so the only lines
\* that do not run are those that follow an empty one.
LineasSinSaltos == \A i \in DOMAIN tarea : SinSaltos(tarea[i], hechas[i])

\* A PCB finished at the end of its file has run all its lines, but for those an
\* empty line swallows.
FinCompleto ==
    [][\A p \in Procesadores :
          Acabar(p) /\ feof[p] =>
             Corridas(Guion(p), hechas[pcb[p]], Len(Guion(p).lineas))]_vars

\* Every request ends, unless the configuration is reloaded, KERNEL dies of a line
\* or QUANTUM is 0, with which a script goes round the ready queue for ever: the
\* queue is fair and no slice is endless.
TodosTerminan ==
    \A i \in Ids :
        (i < id_pcbs) ~>
            (i \in finalizados \/ recargas > 0 \/ ~vivo \/ quantum = 0)
=============================================================================
