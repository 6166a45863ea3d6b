------------------------------ MODULE Criterios ------------------------------
(***************************************************************************)
(* The memories that a KERNEL knows and the consistency criteria they      *)
(* serve (src/KERNEL/src/kernel.c, consola.c): ADD, JOURNAL, the choice of *)
(* a memory for each line, gossiping, and what happens when a memory does  *)
(* not answer.                                                             *)
(*                                                                         *)
(* A thread chooses a memory under sem_memorias and talks to it without    *)
(* the mutex; if that fails it takes the mutex again and deactivates the   *)
(* memory.  desactivar_memoria and enviar_journal_lista_memorias call each *)
(* other: `pila' is the stack of their activations in the thread that      *)
(* holds the mutex.  Meanwhile memories die and come back.                 *)
(*                                                                         *)
(* What a line does to the tables is not here; a line that finds no memory *)
(* changes nothing.  Gossiping may talk to any memory of the pool, not in  *)
(* the order of l_memorias.                                                *)
(***************************************************************************)
EXTENDS Integers, FiniteSets, SequencesExt

CONSTANTS
    Memorias,         \* numbers of memory
    Original,         \* the one of the configuration file
    Hilos,            \* threads that talk to memories: "describe", "gossiping"
                      \* and the processors, which execute lines
    Nada,             \* no memory, nobody
    RepiteAdd,        \* the console may ADD a memory to a criterion that has it
    MaxAdds,          \* bound: ADDs
    MaxCaidas,        \* bound: deaths of memories
    MaxRoturas,       \* bound: connections of lines and gossips that break
    MaxJournalsRotos  \* bound: connections of journals that break

ASSUME OriginalAssumption == Original \in Memorias
ASSUME MemoriasAssumption == IsFiniteSet(Memorias)
ASSUME NadaAssumption == Nada \notin Memorias \cup Hilos \cup {"consola"}
ASSUME RepiteAssumption == RepiteAdd \in BOOLEAN

VARIABLES
    l_memorias,       \* memories the kernel heard of
    activa,           \* the field of each memory
    l_criterio_SC, l_criterio_SHC, l_criterio_EC,
    sem_memorias,     \* who holds the mutex, or Nada
    pila,             \* what its holder has to finish, the last call first
    est, elegida,     \* where each thread is, and the memory it talks to
    arriba,           \* memory processes that run
    enviados,         \* history: memories that a JOURNAL was sent to since
                      \* l_criterio_SHC changed
    adds, caidas, roturas, rotos

listas   == <<l_criterio_SC, l_criterio_SHC, l_criterio_EC>>
cotas    == <<adds, caidas, roturas, rotos>>
vars == <<l_memorias, activa, listas, sem_memorias, pila, est, elegida, arriba, enviados,
          cotas>>

\* get_memorias_activas: the memories of l that are marked in a, in their order.
Filtradas(l, a) == FoldLeft(LAMBDA r, m : IF a[m] THEN Append(r, m) ELSE r, <<>>, l)
Activas(l) == Filtradas(l, activa)

\* list_remove_by_condition on the number of memory: the first one goes.
Sin(l, m) == IF m \in ToSet(l) THEN RemoveFirst(l, m) ELSE l

Journal(l)  == [tarea |-> "journal", faltan |-> l]
Quitar(m)   == [tarea |-> "quitar", memoria |-> m]

\* conectar_memoria: the first gossiping goes before any other thread.
Init ==
    /\ l_memorias \in {<<Original>> \o s :
                          s \in UNION {SetToSeqs(S) : S \in SUBSET (Memorias \ {Original})}}
    /\ activa = [m \in Memorias |-> FALSE]
    /\ l_criterio_SC = <<>> /\ l_criterio_SHC = <<>> /\ l_criterio_EC = <<>>
    /\ sem_memorias = Nada
    /\ pila = <<>>
    /\ est = [h \in Hilos |-> "libre"]
    /\ elegida = [h \in Hilos |-> Nada]
    /\ arriba = [m \in Memorias |-> TRUE]
    /\ enviados = {}
    /\ adds = 0 /\ caidas = 0 /\ roturas = 0 /\ rotos = 0

-----------------------------------------------------------------------------
(* The console *)

Agregable(m, l) ==
    /\ sem_memorias = Nada
    /\ adds < MaxAdds
    /\ m \in ToSet(l_memorias)
    /\ RepiteAdd \/ m \notin ToSet(l)
    /\ adds' = adds + 1

AgregarEC(m) ==
    /\ Agregable(m, l_criterio_EC)
    /\ l_criterio_EC' = Append(l_criterio_EC, m)
    /\ activa' = [activa EXCEPT ![m] = TRUE]
    /\ UNCHANGED <<l_memorias, l_criterio_SC, l_criterio_SHC, sem_memorias, pila, est,
                   elegida, arriba, enviados, caidas, roturas, rotos>>

\* Only one memory serves SC.
AgregarSC(m) ==
    /\ Agregable(m, l_criterio_SC)
    /\ l_criterio_SC = <<>>
    /\ l_criterio_SC' = <<m>>
    /\ activa' = [activa EXCEPT ![m] = TRUE]
    /\ UNCHANGED <<l_memorias, l_criterio_SHC, l_criterio_EC, sem_memorias, pila, est,
                   elegida, arriba, enviados, caidas, roturas, rotos>>

\* The keys are shared out again: the memories of SHC must send what they have.
AgregarSHC(m) ==
    /\ Agregable(m, l_criterio_SHC)
    /\ l_criterio_SHC' = Append(l_criterio_SHC, m)
    /\ activa' = [activa EXCEPT ![m] = TRUE]
    /\ enviados' = {}
    /\ sem_memorias' = "consola"
    /\ pila' = <<Journal(Filtradas(l_criterio_SHC', activa'))>>
    /\ UNCHANGED <<l_memorias, l_criterio_SC, l_criterio_EC, est, elegida, arriba,
                   caidas, roturas, rotos>>

\* The command JOURNAL.
ComandoJournal ==
    /\ sem_memorias = Nada
    /\ sem_memorias' = "consola"
    /\ pila' = <<Journal(Activas(l_memorias))>>
    /\ UNCHANGED <<l_memorias, activa, listas, est, elegida, arriba, enviados, cotas>>

-----------------------------------------------------------------------------
(* The threads that talk to a memory *)

\* obtener_memoria_criterio for INSERT and SELECT, obtener_memoria_random for the
\* rest; hilo_gossiping goes through l_memorias.
Elegibles(h) ==
    CASE h = "gossiping" -> ToSet(l_memorias)
      [] h = "describe"  -> ToSet(Activas(l_memorias))
      [] OTHER -> ToSet(Activas(l_memorias)) \cup ToSet(l_criterio_SHC)
                  \cup ToSet(l_criterio_EC) \cup ToSet(l_criterio_SC)

Elegir(h) ==
    /\ est[h] = "libre"
    /\ sem_memorias = Nada
    /\ \E m \in Elegibles(h) : elegida' = [elegida EXCEPT ![h] = m]
    /\ est' = [est EXCEPT ![h] = "elegida"]
    /\ UNCHANGED <<l_memorias, activa, listas, sem_memorias, pila, arriba, enviados,
                   cotas>>

Libre(h) ==
    /\ est' = [est EXCEPT ![h] = "libre"]
    /\ elegida' = [elegida EXCEPT ![h] = Nada]

\* The memory answers; gossiping learns of other memories.
Atendido(h) ==
    /\ est[h] = "elegida"
    /\ arriba[elegida[h]]
    /\ \/ h # "gossiping" /\ l_memorias' = l_memorias
       \/ /\ h = "gossiping"
          /\ sem_memorias = Nada
          /\ \E S \in SUBSET (Memorias \ ToSet(l_memorias)) :
                \E s \in SetToSeqs(S) : l_memorias' = l_memorias \o s
    /\ Libre(h)
    /\ UNCHANGED <<activa, listas, sem_memorias, pila, arriba, enviados, cotas>>

\* The connection is refused, or breaks: the thread wants the mutex.
Fracasa(h) ==
    /\ est[h] = "elegida"
    /\ \/ ~arriba[elegida[h]] /\ roturas' = roturas
       \/ roturas < MaxRoturas /\ roturas' = roturas + 1
    /\ est' = [est EXCEPT ![h] = "fracaso"]
    /\ UNCHANGED <<l_memorias, activa, listas, sem_memorias, pila, elegida, arriba,
                   enviados, adds, caidas, rotos>>

-----------------------------------------------------------------------------
(* desactivar_memoria and enviar_journal_lista_memorias *)

\* Mutant: the memories of SHC are not told.
DesactivarSinJournal(m, resto) ==
    /\ l_criterio_SHC' = Sin(l_criterio_SHC, m)
    /\ enviados' = IF m \in ToSet(l_criterio_SHC) THEN {} ELSE enviados
    /\ pila' = <<Quitar(m)>> \o resto

\* desactivar_memoria up to its journal.
Desactivar(m, resto) ==
    IF m \in ToSet(l_criterio_SHC)
    THEN /\ l_criterio_SHC' = Sin(l_criterio_SHC, m)
         /\ enviados' = {}
         /\ pila' = <<Journal(Activas(l_criterio_SHC')), Quitar(m)>> \o resto
    ELSE /\ pila' = <<Quitar(m)>> \o resto
         /\ UNCHANGED <<l_criterio_SHC, enviados>>

\* The thread gets the mutex, however long after the memory failed.
DarDeBaja(h) ==
    /\ est[h] = "fracaso"
    /\ sem_memorias = Nada
    /\ sem_memorias' = h
    /\ Desactivar(elegida[h], <<>>)
    /\ Libre(h)
    /\ UNCHANGED <<l_memorias, activa, l_criterio_SC, l_criterio_EC, arriba, cotas>>

EnTarea(t) == sem_memorias # Nada /\ pila # <<>> /\ Head(pila).tarea = t

\* Mutant: the memory stays in EC.
TerminarDeQuitarSinEC ==
    /\ EnTarea("quitar")
    /\ LET m == Head(pila).memoria
       IN  /\ l_criterio_SC' = Sin(l_criterio_SC, m)
           /\ activa' = [activa EXCEPT ![m] = FALSE]
    /\ pila' = Tail(pila)
    /\ UNCHANGED <<l_memorias, l_criterio_SHC, l_criterio_EC, sem_memorias, est, elegida,
                   arriba, enviados, cotas>>

\* Mutant: the mark is cleared only for a memory of EC.
TerminarDeQuitarSinMarca ==
    /\ EnTarea("quitar")
    /\ LET m == Head(pila).memoria
       IN  /\ l_criterio_SC' = Sin(l_criterio_SC, m)
           /\ l_criterio_EC' = Sin(l_criterio_EC, m)
           /\ activa' = [activa EXCEPT ![m] = @ /\ m \notin ToSet(l_criterio_EC)]
    /\ pila' = Tail(pila)
    /\ UNCHANGED <<l_memorias, l_criterio_SHC, sem_memorias, est, elegida, arriba,
                   enviados, cotas>>

\* The rest of desactivar_memoria, after its journal.
TerminarDeQuitar ==
    /\ EnTarea("quitar")
    /\ LET m == Head(pila).memoria
       IN  /\ l_criterio_SC' = Sin(l_criterio_SC, m)
           /\ l_criterio_EC' = Sin(l_criterio_EC, m)
           /\ activa' = [activa EXCEPT ![m] = FALSE]
    /\ pila' = Tail(pila)
    /\ UNCHANGED <<l_memorias, l_criterio_SHC, sem_memorias, est, elegida, arriba,
                   enviados, cotas>>

\* The next memory of the list of a journal, and the stack once it is done.
Proxima   == Head(Head(pila).faltan)
Siguiente == <<Journal(Tail(Head(pila).faltan))>> \o Tail(pila)
HayProxima == EnTarea("journal") /\ Head(pila).faltan # <<>>

EnviarJournal ==
    /\ HayProxima
    /\ arriba[Proxima]
    /\ enviados' = enviados \cup {Proxima}
    /\ pila' = Siguiente
    /\ UNCHANGED <<l_memorias, activa, listas, sem_memorias, est, elegida, arriba, cotas>>

\* Mutant: the memory is tried again.
JournalSinConexionInsiste ==
    /\ HayProxima
    /\ ~arriba[Proxima]
    /\ Desactivar(Proxima, pila)
    /\ UNCHANGED <<l_memorias, activa, l_criterio_SC, l_criterio_EC, sem_memorias, est,
                   elegida, arriba, cotas>>

\* The connection is refused: the memory is deactivated, with the mutex held.
JournalSinConexion ==
    /\ HayProxima
    /\ ~arriba[Proxima]
    /\ Desactivar(Proxima, Siguiente)
    /\ UNCHANGED <<l_memorias, activa, l_criterio_SC, l_criterio_EC, sem_memorias, est,
                   elegida, arriba, cotas>>

\* The connection breaks before send: the thread locks the mutex that it holds,
\* and no thread gets it any more.
JournalRoto ==
    /\ HayProxima
    /\ rotos < MaxJournalsRotos
    /\ rotos' = rotos + 1
    /\ pila' = <<[tarea |-> "lock"]>> \o pila
    /\ UNCHANGED <<l_memorias, activa, listas, sem_memorias, est, elegida, arriba,
                   enviados, adds, caidas, roturas>>

FinDeJournal ==
    /\ EnTarea("journal")
    /\ Head(pila).faltan = <<>>
    /\ pila' = Tail(pila)
    /\ UNCHANGED <<l_memorias, activa, listas, sem_memorias, est, elegida, arriba,
                   enviados, cotas>>

Soltar ==
    /\ sem_memorias # Nada
    /\ pila = <<>>
    /\ sem_memorias' = Nada
    /\ UNCHANGED <<l_memorias, activa, listas, pila, est, elegida, arriba, enviados,
                   cotas>>

-----------------------------------------------------------------------------
(* The memories *)

Cae(m) ==
    /\ arriba[m]
    /\ caidas < MaxCaidas
    /\ caidas' = caidas + 1
    /\ arriba' = [arriba EXCEPT ![m] = FALSE]
    /\ UNCHANGED <<l_memorias, activa, listas, sem_memorias, pila, est, elegida, enviados,
                   adds, roturas, rotos>>

Vuelve(m) ==
    /\ ~arriba[m]
    /\ arriba' = [arriba EXCEPT ![m] = TRUE]
    /\ UNCHANGED <<l_memorias, activa, listas, sem_memorias, pila, est, elegida, enviados,
                   cotas>>

-----------------------------------------------------------------------------
Consola ==
    \/ \E m \in Memorias : AgregarSC(m) \/ AgregarSHC(m) \/ AgregarEC(m)
    \/ ComandoJournal

Hilo(h) == Elegir(h) \/ Atendido(h) \/ Fracasa(h) \/ DarDeBaja(h)

\* The thread that holds the mutex.
ConMutex ==
    \/ TerminarDeQuitar
    \/ EnviarJournal
    \/ JournalSinConexion
    \/ JournalRoto
    \/ FinDeJournal
    \/ Soltar

Next ==
    \/ Consola
    \/ \E h \in Hilos : Hilo(h)
    \/ ConMutex
    \/ \E m \in Memorias : Cae(m) \/ Vuelve(m)

Spec == Init /\ [][Next]_vars

\* The thread that holds the mutex runs.
FairSpec == Spec /\ WF_vars(ConMutex)

-----------------------------------------------------------------------------
(* Properties *)

EnCriterio == ToSet(l_criterio_SC) \cup ToSet(l_criterio_SHC) \cup ToSet(l_criterio_EC)

\* A memory that is no longer in any criterion is not taken for active: neither
\* obtener_memoria_random nor JOURNAL go to it.
ActivaEnCriterio ==
    sem_memorias = Nada => \A m \in Memorias : activa[m] => m \in EnCriterio

\* commons.h:102 says that the lists of criteria hold "memorias activas para
\* redirigir las request segun criterio".
CriteriosActivos ==
    sem_memorias = Nada => \A m \in EnCriterio : activa[m]

\* However the memories of SHC changed, by ADD or because several of them fell
\* one while another was being dealt with, each of those left was sent a JOURNAL
\* after the last change and before anyone could choose a memory again.
JournalDelCriterio ==
    sem_memorias = Nada =>
        \A m \in ToSet(l_criterio_SHC) : activa[m] => m \in enviados

\* The calls of desactivar_memoria and enviar_journal_lista_memorias to each other
\* come to an end, unless a journal broke and its thread waits for itself.
SemSeLibera == []<>(sem_memorias = Nada \/ rotos > 0)

\* consola.h:18 says that enviar_journal_lista_memorias "recibe una lista y envia
\* un journal a las memorias que esten activas de esa lista".
JournalLlega ==
    \A m \in Memorias :
        (\E i \in 1 .. Len(pila) :
            pila[i].tarea = "journal" /\ m \in ToSet(pila[i].faltan))
        ~> (m \in enviados \/ ~activa[m])
=============================================================================
