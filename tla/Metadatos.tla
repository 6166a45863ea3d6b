------------------------------ MODULE Metadatos ------------------------------
(***************************************************************************)
(* The metadata of the Kernel, l_tablas (KERNEL/src/kernel.c): what it     *)
(* knows of the tables LFS has, while processors run requests of the same  *)
(* tables and hilo_describe asks for all of them.                          *)
(*                                                                         *)
(* sem_tablas covers each search, addition and removal, but not a request: *)
(* the answer of LFS is applied some time after LFS gave it, and the entry *)
(* that INSERT and SELECT found is used after the mutex is given back.     *)
(*                                                                         *)
(* A memory is what carries the request: it opens a connection to LFS for  *)
(* each CREATE and DESCRIBE.  LFS is the criterion of each table it has,   *)
(* looked at and changed in two steps, as stat and what follows it; the    *)
(* module LFS says how it keeps them.  Entries of different tables do not  *)
(* meet, so l_tablas is a list for each name.                              *)
(***************************************************************************)
EXTENDS Naturals, FiniteSets, Sequences

CONSTANTS
    Tablas,       \* names of tables
    Criterios,    \* SC, SHC, EC
    Procesadores, \* MULTIPROCESAMIENTO threads of ejecutar_procesador
    Describe,     \* hilo_describe
    Nada,         \* no table, no criterion
    MaxFallas     \* bound: requests cut, tables changed from another console

ASSUME ProcesadoresAssumption == IsFiniteSet(Procesadores)
ASSUME NadaAssumption == Nada \notin Tablas \cup Criterios
ASSUME DescribeAssumption == Describe \notin Procesadores

Hilos == Procesadores \cup {Describe}

VARIABLES
    lfs,         \* criterion of each table in LFS, or Nada
    l_tablas,    \* entries of each name, first the one list_find gives
    est, pedido, \* where each thread is, and with which request
    respuesta,   \* tipo_mensaje of the answer
    leido,       \* tables of the answer to a DESCRIBE
    porLeer,     \* directories LFS has still to read for it
    abandonado,  \* the thread gave up a request that LFS has
    tomada,      \* criterion of the entry a thread found
    colgada,     \* that entry was freed
    pisada,      \* history: a CREATE or DROP of its table ran meanwhile
    dudosa,      \* history: requests of the table met, or were cut
    fallas

datos == <<lfs, l_tablas, dudosa>>
hilos == <<est, pedido, respuesta, leido, porLeer, abandonado>>
entradas == <<tomada, colgada, pisada>>
vars == <<datos, hilos, entradas, fallas>>

Creates == [tipo : {"CREATE"}, tabla : Tablas, criterio : Criterios]
Drops == [tipo : {"DROP"}, tabla : Tablas, criterio : {Nada}]
Lineas == [tipo : {"LINEA"}, tabla : Tablas, criterio : {Nada}]   \* INSERT, SELECT
Describes == [tipo : {"DESCRIBE"}, tabla : Tablas \cup {Nada}, criterio : {Nada}]
General == [tipo |-> "DESCRIBE", tabla |-> Nada, criterio |-> Nada]
Pedidos == Creates \cup Drops \cup Lineas \cup Describes

Init ==
    /\ lfs \in [Tablas -> Criterios \cup {Nada}]
    /\ l_tablas = [t \in Tablas |-> <<>>]
    /\ est = [h \in Hilos |-> "libre"]
    /\ pedido = [h \in Hilos |-> General]
    /\ respuesta = [h \in Hilos |-> "error"]
    /\ leido = [h \in Hilos |-> {}]
    /\ porLeer = [h \in Hilos |-> {}]
    /\ abandonado = [h \in Hilos |-> FALSE]
    /\ tomada = [h \in Hilos |-> Nada]
    /\ colgada = [h \in Hilos |-> FALSE]
    /\ pisada = [h \in Hilos |-> FALSE]
    /\ dudosa = [t \in Tablas |-> FALSE]
    /\ fallas = 0

\* The thread is done with its request.
Libera(h) ==
    /\ est' = [est EXCEPT ![h] = "libre"]
    /\ pedido' = [pedido EXCEPT ![h] = General]
    /\ respuesta' = [respuesta EXCEPT ![h] = "error"]
    /\ leido' = [leido EXCEPT ![h] = {}]
    /\ porLeer' = [porLeer EXCEPT ![h] = {}]
    /\ abandonado' = [abandonado EXCEPT ![h] = FALSE]

-----------------------------------------------------------------------------
(* ejecutar_linea: the check *)

Conoce(t) == l_tablas[t] # <<>>

Tablas_de(p) == IF p.tabla = Nada THEN Tablas ELSE {p.tabla}
Cambia(p) == p.tipo \in {"CREATE", "DROP"}

\* The requests of other threads that concern a table.
Otros(h, t) == {x \in Hilos \ {h} : est[x] # "libre" /\ t \in Tablas_de(pedido[x])}

Dudar(ts) == dudosa' = [t \in Tablas |-> dudosa[t] \/ t \in ts]

\* A thread's request that got past its check.
Empieza(h, p, e) ==
    /\ est[h] = "libre"
    /\ est' = [est EXCEPT ![h] = e]
    /\ pedido' = [pedido EXCEPT ![h] = p]
    /\ porLeer' = [porLeer EXCEPT ![h] = IF p.tipo = "DESCRIBE" THEN Tablas_de(p) ELSE {}]
    /\ UNCHANGED <<lfs, l_tablas, respuesta, leido, abandonado, colgada, fallas>>

\* CREATE of a table that it knows and DROP of one it does not end the script.
Pide(h, p) ==
    /\ p.tipo = "CREATE" => ~Conoce(p.tabla)
    /\ p.tipo = "DROP" => Conoce(p.tabla)
    /\ Empieza(h, p, "enviado")
    /\ Dudar({t \in Tablas_de(p) : \E x \in Otros(h, t) :
                est[x] # "tomada" /\ (Cambia(p) \/ Cambia(pedido[x]))})
    /\ pisada' = [x \in Hilos |-> pisada[x] \/ (/\ Cambia(p) /\ est[x] = "tomada"
                                                /\ pedido[x].tabla = p.tabla)]
    /\ UNCHANGED tomada

\* INSERT and SELECT keep a pointer to the entry.
Busca(h, p) ==
    /\ Conoce(p.tabla)
    /\ Empieza(h, p, "tomada")
    /\ tomada' = [tomada EXCEPT ![h] = Head(l_tablas[p.tabla])]
    /\ pisada' = [pisada EXCEPT ![h] = \E x \in Otros(h, p.tabla) : Cambia(pedido[x])]
    /\ UNCHANGED dudosa

\* obtener_memoria_criterio reads the entry.  What the line does then changes no
\* metadata.
Usa(h) ==
    /\ est[h] = "tomada"
    /\ Libera(h)
    /\ tomada' = [tomada EXCEPT ![h] = Nada]
    /\ colgada' = [colgada EXCEPT ![h] = FALSE]
    /\ pisada' = [pisada EXCEPT ![h] = FALSE]
    /\ UNCHANGED <<datos, fallas>>

-----------------------------------------------------------------------------
(* The memory passes the request on, and LFS serves it *)

\* An answer that nobody waits for any more is lost.
Responde(h, r) ==
    IF abandonado[h]
    THEN Libera(h)
    ELSE /\ est' = [est EXCEPT ![h] = "respondido"]
         /\ respuesta' = [respuesta EXCEPT ![h] = r]
         /\ UNCHANGED <<pedido, leido, porLeer, abandonado>>

\* stat of create_table and drop_table.
LfsMira(h) ==
    /\ est[h] = "enviado" /\ Cambia(pedido[h])
    /\ IF (lfs[pedido[h].tabla] = Nada) = (pedido[h].tipo = "CREATE")
       THEN /\ est' = [est EXCEPT ![h] = "mirado"]
            /\ UNCHANGED <<pedido, respuesta, leido, porLeer, abandonado>>
       ELSE Responde(h, "error")
    /\ UNCHANGED <<datos, entradas, fallas>>

\* CREATE makes the table, or drops what it made if no block is free.
LfsCrea(h) ==
    /\ est[h] = "mirado" /\ pedido[h].tipo = "CREATE"
    /\ \/ /\ lfs' = [lfs EXCEPT ![pedido[h].tabla] = pedido[h].criterio]
          /\ Responde(h, "ok")
       \/ /\ lfs' = [lfs EXCEPT ![pedido[h].tabla] = Nada]
          /\ Responde(h, "error")
    /\ UNCHANGED <<l_tablas, dudosa, entradas, fallas>>

LfsBorra(h) ==
    /\ est[h] = "mirado" /\ pedido[h].tipo = "DROP"
    /\ lfs' = [lfs EXCEPT ![pedido[h].tabla] = Nada]
    /\ Responde(h, "ok")
    /\ UNCHANGED <<l_tablas, dudosa, entradas, fallas>>

\* procesar_describe goes through the directories one after the other.
LfsLee(h) ==
    /\ est[h] = "enviado"
    /\ \E t \in porLeer[h] :
          /\ porLeer' = [porLeer EXCEPT ![h] = @ \ {t}]
          /\ leido' = [leido EXCEPT ![h] =
                          IF lfs[t] = Nada THEN @ ELSE @ \cup {<<t, lfs[t]>>}]
    /\ UNCHANGED <<datos, est, pedido, respuesta, abandonado, entradas, fallas>>

\* A list with nothing is an error.
LfsLeyo(h) ==
    /\ est[h] = "enviado" /\ pedido[h].tipo = "DESCRIBE" /\ porLeer[h] = {}
    /\ Responde(h, IF leido[h] = {} THEN "error" ELSE "ok")
    /\ UNCHANGED <<datos, entradas, fallas>>

-----------------------------------------------------------------------------
(* ejecutar_linea_memoria and describe: the answer *)

Termina(h) ==
    /\ est[h] = "respondido"
    /\ Libera(h)
    /\ UNCHANGED <<lfs, dudosa, tomada, pisada, fallas>>

\* Mutant: a table is added although LFS refused it.
SinEfectoConAlta(h) ==
    /\ respuesta[h] = "error"
    /\ Termina(h)
    /\ l_tablas' = IF pedido[h].tipo = "CREATE"
                   THEN [l_tablas EXCEPT ![pedido[h].tabla] = Append(@, pedido[h].criterio)]
                   ELSE l_tablas
    /\ UNCHANGED colgada

\* EJECUCIONERROR: the metadata stays as it is, also that of a table which a DROP
\* did not find.
SinEfecto(h) ==
    /\ respuesta[h] = "error"
    /\ Termina(h)
    /\ UNCHANGED <<l_tablas, colgada>>

\* CREATE adds without looking for the table again.
Alta(h) ==
    /\ respuesta[h] = "ok" /\ pedido[h].tipo = "CREATE"
    /\ Termina(h)
    /\ l_tablas' = [l_tablas EXCEPT ![pedido[h].tabla] = Append(@, pedido[h].criterio)]
    /\ UNCHANGED colgada

\* quitar_tabla_lista takes out and frees the first entry of the name.
Baja(h) ==
    /\ respuesta[h] = "ok" /\ pedido[h].tipo = "DROP"
    /\ Termina(h)
    /\ LET t == pedido[h].tabla
       IN  IF Conoce(t)
           THEN /\ l_tablas' = [l_tablas EXCEPT ![t] = Tail(@)]
                /\ colgada' = [x \in Hilos |->
                      colgada[x] \/ (est[x] = "tomada" /\ pedido[x].tabla = t)]
           ELSE UNCHANGED <<l_tablas, colgada>>

\* The list of a DESCRIBE is in LFS's answer to h.
Contesta(h, t) == \E c \in Criterios : <<t, c>> \in leido[h]
Contestado(h, t) == CHOOSE c \in Criterios : <<t, c>> \in leido[h]

\* Mutant: the table is added whether it is known or not.
AgregarSinBuscar(h) ==
    /\ respuesta[h] = "ok" /\ pedido[h].tipo = "DESCRIBE"
    /\ Termina(h)
    /\ l_tablas' = [t \in Tablas |-> IF Contesta(h, t)
                                     THEN Append(l_tablas[t], Contestado(h, t))
                                     ELSE l_tablas[t]]
    /\ UNCHANGED colgada

\* Mutant: the entries are freed and made again from the answer.
AgregarDeNuevo(h) ==
    /\ respuesta[h] = "ok" /\ pedido[h].tipo = "DESCRIBE"
    /\ Termina(h)
    /\ l_tablas' = [t \in Tablas |-> IF Contesta(h, t) THEN <<Contestado(h, t)>>
                                                      ELSE l_tablas[t]]
    /\ colgada' = [x \in Hilos |-> colgada[x] \/ (est[x] = "tomada" /\ Contesta(h, pedido[x].tabla))]

\* Mutant: describe, which hilo_describe calls, does not add what it is answered.
AgregarSoloDeLinea(h) ==
    /\ respuesta[h] = "ok" /\ pedido[h].tipo = "DESCRIBE"
    /\ Termina(h)
    /\ l_tablas' = [t \in Tablas |->
                      IF ~Conoce(t) /\ Contesta(h, t) /\ h # Describe
                      THEN <<Contestado(h, t)>> ELSE l_tablas[t]]
    /\ UNCHANGED colgada

\* agregar_tabla_describe of each table of the answer that is not known.
Agregar(h) ==
    /\ respuesta[h] = "ok" /\ pedido[h].tipo = "DESCRIBE"
    /\ Termina(h)
    /\ l_tablas' = [t \in Tablas |->
                      IF ~Conoce(t) /\ Contesta(h, t) THEN <<Contestado(h, t)>>
                                                       ELSE l_tablas[t]]
    /\ UNCHANGED colgada

Aplica(h) == SinEfecto(h) \/ Alta(h) \/ Baja(h) \/ Agregar(h)

-----------------------------------------------------------------------------
(* What fails *)

Corta(h) ==
    /\ fallas < MaxFallas /\ fallas' = fallas + 1
    /\ ~abandonado[h] /\ est[h] \in {"enviado", "mirado", "respondido"}
    /\ Dudar(IF Cambia(pedido[h]) THEN {pedido[h].tabla} ELSE {})
    /\ UNCHANGED <<lfs, l_tablas, entradas>>

\* No memory, a connection or a send that fails, a recv of -1: the line is over.
\* LFS may still serve it, if it got there.
CortaYSigue(h) ==
    /\ Corta(h)
    /\ \/ Libera(h)
       \/ /\ Cambia(pedido[h]) /\ est[h] # "respondido"
          /\ abandonado' = [abandonado EXCEPT ![h] = TRUE]
          /\ UNCHANGED <<est, pedido, respuesta, leido, porLeer>>

\* recv gives 0, which neither the memory nor the Kernel checks: the header is
\* whatever the stack had.  Of a DESCRIBE, a list with nothing.
CortaConBasura(h) ==
    /\ Corta(h)
    /\ est' = [est EXCEPT ![h] = "respondido"]
    /\ \E r \in {"ok", "error"} : respuesta' = [respuesta EXCEPT ![h] = r]
    /\ leido' = [leido EXCEPT ![h] = {}]
    /\ porLeer' = [porLeer EXCEPT ![h] = {}]
    /\ UNCHANGED <<pedido, abandonado>>

\* CREATE and DROP from the console of a memory or of LFS: the Kernel is not told.
OtraConsola ==
    /\ fallas < MaxFallas /\ fallas' = fallas + 1
    /\ \E t \in Tablas :
          /\ \/ lfs[t] # Nada /\ lfs' = [lfs EXCEPT ![t] = Nada]
             \/ lfs[t] = Nada /\ \E c \in Criterios : lfs' = [lfs EXCEPT ![t] = c]
          /\ Dudar({t})
    /\ UNCHANGED <<l_tablas, hilos, entradas>>

-----------------------------------------------------------------------------
Lfs(h) ==
    LfsMira(h) \/ LfsCrea(h) \/ LfsBorra(h) \/ LfsLee(h) \/ LfsLeyo(h)

Sigue(h) == Lfs(h) \/ Aplica(h) \/ Usa(h)

Pedir(h) ==
    \/ \E p \in Creates \cup Drops \cup Describes : Pide(h, p)
    \/ \E p \in Lineas : Busca(h, p)

Next ==
    \/ \E h \in Procesadores : Pedir(h)
    \/ Pide(Describe, General)
    \/ \E h \in Hilos : Sigue(h) \/ CortaYSigue(h) \/ CortaConBasura(h)
    \/ OtraConsola

\* Threads run and a connection ends; hilo_describe asks every METADATA_REFRESH.
Fairness ==
    /\ \A h \in Hilos : WF_vars(Sigue(h))
    /\ WF_vars(Pide(Describe, General))

Spec == Init /\ [][Next]_vars
FairSpec == Spec /\ Fairness

-----------------------------------------------------------------------------
(* Properties *)

Quieta(t) == \A h \in Hilos : Cambia(pedido[h]) => pedido[h].tabla # t

\* As long as no CREATE or DROP of a table met another one or a DESCRIBE, was cut,
\* or came from another console, the Kernel knows the table once and with the
\* criterion LFS has, or not at all: never a table that is gone.
MetadataExacta ==
    \A t \in Tablas :
        ~dudosa[t] /\ Quieta(t) => l_tablas[t] \in {<<>>} \cup ({<<lfs[t]>>} \ {<<Nada>>})

\* The entry that INSERT and SELECT hold without the mutex (kernel.c:230) is there
\* until they have used it, with its table's criterion, if moreover no CREATE or
\* DROP of the table runs meanwhile; a DESCRIBE may.
UsaSuCriterio ==
    \A h \in Hilos :
        est[h] = "tomada" /\ ~pisada[h] =>
            /\ ~colgada[h]
            /\ ~dudosa[pedido[h].tabla] => tomada[h] = lfs[pedido[h].tabla]

\* Whatever meets, is cut or is late: the CREATEs that got past the check at the
\* same time and one DESCRIBE are all that can repeat a table, for a table that is
\* known is not created again.
PocasRepetidas ==
    \A t \in Tablas : Len(l_tablas[t]) <= Cardinality(Procesadores) + 1

\* A table that stays in LFS is known from some moment on, even if its CREATE's
\* answer was lost or it was created from another console.
AprendeTablas ==
    \A t \in Tablas : <>[](lfs[t] # Nada) => <>[]Conoce(t)
=============================================================================
